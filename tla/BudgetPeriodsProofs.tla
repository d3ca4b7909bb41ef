------------------------ MODULE BudgetPeriodsProofs ------------------------
(***************************************************************************)
(* BudgetPeriods for any limit, calendar and set of handlers: a reset      *)
(* keeps what is charged beside it, as long as one is made at a time, and  *)
(* the windows of the reports follow on one another.                       *)
(***************************************************************************)
EXTENDS BudgetPeriods, WellFoundedInduction, TLAPS

OneResetter == \A q, r \in Resetters : q = r

-----------------------------------------------------------------------------
(* The reset.                                                              *)

\* What a resetter has seen, and what was charged since, is the spend.
SeenFits == \A r \in Resetters :
    reset[r].pc = "subtract" => spend = reset[r].seen + since[r]

IInv == TypeOK /\ spend = due /\ SeenFits

\* The invariant holds at the start.
LEMMA StartsExact == Init => IInv
BY PeriodAssumption, BoundsAssumption
   DEF Init, IInv, TypeOK, SeenFits, IdleJob, IdleReset, Days

\* Every step keeps it, when no two resets overlap.
LEMMA StepsExact == OneResetter /\ IInv /\ [Next]_vars => IInv'
<1>. SUFFICES ASSUME OneResetter, IInv, [Next]_vars PROVE IInv'
  OBVIOUS
<1>. USE CostsAssumption, BoundsAssumption DEF IInv, TypeOK, SeenFits, Days
<1>1. ASSUME NEW h \in Handlers, Admit(h) PROVE IInv'
  BY <1>1 DEF Admit, Become, IdleJob
<1>2. ASSUME NEW h \in Handlers, Insert(h) PROVE IInv'
  BY <1>2 DEF Insert, Become
<1>3. ASSUME NEW h \in Handlers, Charge(h) PROVE IInv'
  <2>. DEFINE c == job[h].cost
  <2>1. c \in Nat
    <3>1. job[h] \in [pc : {"idle", "upstream", "charge"}, cost : Costs \cup {0}]
      OBVIOUS
    <3>2. c \in Costs \cup {0}
      BY <3>1
    <3>3. Costs \cup {0} \subseteq Nat
      OBVIOUS
    <3>. HIDE DEF c
    <3>. QED
      BY <3>2, <3>3
  <2>2. spend' = spend + c /\ due' = due + c /\ since' = [r \in Resetters |-> since[r] + c]
    BY <1>3 DEF Charge
  <2>3. job' = [job EXCEPT ![h] = IdleJob] /\ UNCHANGED <<usage, today, reset, arrivals, resets>>
    BY <1>3 DEF Charge, Become
  <2>. HIDE DEF c
  <2>4. TypeOK'
    BY <2>1, <2>2, <2>3 DEF IdleJob
  <2>5. \A r \in Resetters : since'[r] = since[r] + c /\ since[r] \in Nat /\ reset[r].seen \in Nat
    BY <2>2
  <2>6. spend' = due'
    BY <2>2
  <2>7. ASSUME NEW r \in Resetters, reset'[r].pc = "subtract"
        PROVE  spend' = reset'[r].seen + since'[r]
    <3>1. reset' = reset /\ spend = reset[r].seen + since[r]
      BY <2>3, <2>7
    <3>2. spend' = spend + c /\ since'[r] = since[r] + c
      BY <2>2, <2>5
    <3>. QED
      BY <3>1, <3>2, <2>1, <2>5
  <2>. QED
    BY <2>4, <2>6, <2>7
<1>4. ASSUME NEW h \in Handlers, Drop(h) PROVE IInv'
  BY <1>4 DEF Drop, Become, IdleJob
<1>5. ASSUME NEW r \in Resetters, ResetRead(r) PROVE IInv'
  BY <1>5 DEF ResetRead
<1>6. ASSUME NEW r \in Resetters, ResetSubtract(r) PROVE IInv'
  <2>1. spend' = since[r] /\ spend' \in Nat /\ due' = since[r]
    BY <1>6 DEF ResetSubtract
  <2>2. \A q \in Resetters : reset'[q].pc = "idle"
    BY <1>6 DEF ResetSubtract, OneResetter, IdleReset
  <2>. QED
    BY <1>6, <2>1, <2>2 DEF ResetSubtract, IdleReset
<1>7. ASSUME NEW r \in Resetters, ResetFails(r) PROVE IInv'
  BY <1>7 DEF ResetFails, IdleReset
<1>8. CASE NextDay
  BY <1>8 DEF NextDay
<1>9. CASE Quiet \/ UNCHANGED vars
  BY <1>9 DEF Quiet, vars
<1>. QED
  BY <1>1, <1>2, <1>3, <1>4, <1>5, <1>6, <1>7, <1>8, <1>9 DEF Next

\* The invariant always holds.
LEMMA AlwaysExact == ASSUME OneResetter PROVE Spec => []IInv
<1>1. Init => IInv
  BY StartsExact
<1>2. IInv /\ [Next]_vars => IInv'
  BY StepsExact
<1>. QED
  BY <1>1, <1>2, PTL DEF Spec

\* Types; the spend, in particular, never gets below zero.
THEOREM PeriodTypes == ASSUME OneResetter PROVE Spec => []TypeOK
<1>1. IInv => TypeOK
  BY DEF IInv
<1>. QED
  BY <1>1, AlwaysExact, PTL

\* ResetBudgetSpend takes away what it read and nothing that was charged since.
THEOREM ResetIsExact == ASSUME OneResetter PROVE Spec => []ResetKeepsCharges
<1>1. IInv => ResetKeepsCharges
  BY DEF IInv, ResetKeepsCharges
<1>. QED
  BY <1>1, AlwaysExact, PTL

-----------------------------------------------------------------------------
(* The windows of the reports.                                             *)

\* A set of naturals that is not empty has a least element.
LEMMA LeastNatural == \A T \in SUBSET Nat : T # {} => \E x \in T : \A y \in T : x <= y
<1>. SUFFICES ASSUME NEW T \in SUBSET Nat, T # {} PROVE \E x \in T : \A y \in T : x <= y
  OBVIOUS
<1>1. PICK x \in T : \A y \in T : ~ (<<y, x>> \in OpToRel(<, Nat))
  BY WFMin, NatLessThanWellFounded
<1>2. ASSUME NEW y \in T PROVE x <= y
  <2>1. <<y, x>> \in Nat \X Nat /\ <<y, x>>[1] = y /\ <<y, x>>[2] = x
    OBVIOUS
  <2>2. ~ (y < x)
    BY <1>1, <2>1, Zenon DEF OpToRel
  <2>. QED
    BY <2>2
<1>. QED
  BY <1>2

\* The latest of some days up to d, and the earliest of some days after d.
LEMMA LatestDay ==
    ASSUME NEW S \in SUBSET Int, NEW d \in Int, S # {}, \A s \in S : s <= d
    PROVE  Max(S) \in S /\ \A s \in S : s <= Max(S)
<1>. DEFINE T == {n \in Nat : d - n \in S}
<1>1. \A s \in S : s \in Int /\ d - s \in T
  OBVIOUS
<1>2. T \in SUBSET Nat /\ T # {}
  BY <1>1
<1>3. PICK x \in T : \A y \in T : x <= y
  BY <1>2, LeastNatural
<1>4. d - x \in S /\ \A s \in S : d - x >= s
  BY <1>1, <1>3
<1>. QED
  BY <1>4 DEF Max

LEMMA EarliestDay ==
    ASSUME NEW S \in SUBSET Int, NEW d \in Int, S # {}, \A s \in S : s > d
    PROVE  Min(S) \in S /\ \A s \in S : Min(S) <= s
<1>. DEFINE T == {n \in Nat : d + n \in S}
<1>1. \A s \in S : s \in Int /\ s - d \in T
  OBVIOUS
<1>2. T \in SUBSET Nat /\ T # {}
  BY <1>1
<1>3. PICK x \in T : \A y \in T : x <= y
  BY <1>2, LeastNatural
<1>4. d + x \in S /\ \A s \in S : d + x <= s
  BY <1>1, <1>3
<1>. QED
  BY <1>4 DEF Min

Held(p, d) == PeriodBounds(p, d).start <= d /\ d < PeriodBounds(p, d).end

FollowsOn(p, d) ==
    \/ PeriodBounds(p, d + 1) = PeriodBounds(p, d)
    \/ PeriodBounds(p, d + 1).start = PeriodBounds(p, d).end

\* A day is a window of its own.
LEMMA DailyTiles == \A d \in Int : Held("daily", d) /\ FollowsOn("daily", d)
BY DEF Held, FollowsOn, PeriodBounds

\* A week holds its Sunday last.
LEMMA WeeklyTiles == \A d \in Nat : Held("weekly", d) /\ FollowsOn("weekly", d)
<1>. SUFFICES ASSUME NEW d \in Nat PROVE Held("weekly", d) /\ FollowsOn("weekly", d)
  OBVIOUS
<1>1. PeriodBounds("weekly", d) = [start |-> WeekStart(d), end |-> WeekStart(d) + 7]
  BY DEF PeriodBounds
<1>2. PeriodBounds("weekly", d + 1) = [start |-> WeekStart(d + 1), end |-> WeekStart(d + 1) + 7]
  BY DEF PeriodBounds
<1>3. WeekStart(d) \in Int /\ WeekStart(d) <= d /\ d < WeekStart(d) + 7
  BY DEF WeekStart, Weekday
<1>4. WeekStart(d + 1) = WeekStart(d) \/ WeekStart(d + 1) = WeekStart(d) + 7
  BY DEF WeekStart, Weekday
<1>. QED
  BY <1>1, <1>2, <1>3, <1>4 DEF Held, FollowsOn

\* A month ends where the next one starts, whatever the calendar.
LEMMA MonthlyTiles == \A d \in Days : /\ Held("monthly", d)
                                      /\ d + 1 \in Days => FollowsOn("monthly", d)
<1>. SUFFICES ASSUME NEW d \in Days
              PROVE  Held("monthly", d) /\ (d + 1 \in Days => FollowsOn("monthly", d))
  OBVIOUS
<1>. DEFINE first(x) == Max({s \in MonthStarts : s <= x})
            next(x) == Min({s \in MonthStarts : s > x})
<1>1. d \in Int /\ d + 1 \in Int /\ \A s \in MonthStarts : s \in Int
  BY MonthAssumption, BoundsAssumption DEF Days
<1>2. ASSUME NEW x \in Days
      PROVE  /\ first(x) \in MonthStarts /\ first(x) <= x
             /\ \A s \in MonthStarts : s <= x => s <= first(x)
             /\ next(x) \in MonthStarts /\ next(x) > x
             /\ \A s \in MonthStarts : s > x => next(x) <= s
  <2>. DEFINE upto == {s \in MonthStarts : s <= x}
              after == {s \in MonthStarts : s > x}
  <2>1. x \in Int /\ upto \in SUBSET Int /\ after \in SUBSET Int
    BY <1>1, BoundsAssumption DEF Days
  <2>2. upto # {} /\ after # {}
    BY MonthAssumption
  <2>3. (\A s \in upto : s <= x) /\ (\A s \in after : s > x)
    OBVIOUS
  <2>4. /\ Max(upto) \in upto /\ \A s \in upto : s <= Max(upto)
        /\ Min(after) \in after /\ \A s \in after : Min(after) <= s
    <3>. HIDE DEF upto, after
    <3>. QED
      BY <2>1, <2>2, <2>3, LatestDay, EarliestDay
  <2>5. first(x) = Max(upto) /\ next(x) = Min(after)
    BY Zenon
  <2>. HIDE DEF first, next
  <2>. QED
    BY <2>4, <2>5
<1>3. \A x \in Days : PeriodBounds("monthly", x) = [start |-> first(x), end |-> next(x)]
  BY DEF PeriodBounds
<1>. HIDE DEF first, next
<1>4. Held("monthly", d)
  BY <1>2, <1>3 DEF Held
<1>5. ASSUME d + 1 \in Days PROVE FollowsOn("monthly", d)
  <2>1. CASE d + 1 \in MonthStarts
    <3>1. next(d) = d + 1 /\ first(d + 1) = d + 1
      BY <1>1, <1>2, <1>5, <2>1
    <3>. QED
      BY <1>3, <1>5, <3>1 DEF FollowsOn
  <2>2. CASE d + 1 \notin MonthStarts
    <3>1. first(d + 1) = first(d) /\ next(d + 1) = next(d)
      BY <1>1, <1>2, <1>5, <2>2
    <3>. QED
      BY <1>3, <1>5, <3>1 DEF FollowsOn
  <2>. QED
    BY <2>1, <2>2
<1>. QED
  BY <1>4, <1>5

\* The day is one of the days, whoever resets what.
LEMMA TodayIsADay == Spec => [](today \in Days)
<1>1. Init => today \in Days
  BY BoundsAssumption DEF Init, Days
<1>2. today \in Days /\ [Next]_vars => (today \in Days)'
  BY BoundsAssumption
     DEF Next, vars, Days, Admit, Insert, Charge, Drop, ResetRead, ResetSubtract, ResetFails,
         NextDay, Quiet
<1>. QED
  BY <1>1, <1>2, PTL DEF Spec

\* Every day is in exactly one window of each kind of report, for every calendar.
THEOREM ReportsTile == Spec => ReportsCoverEveryDay
<1>. DEFINE Tiles ==
        \A p \in Periods :
          LET old == PeriodBounds(p, today)
              new == PeriodBounds(p, today')
          IN /\ old.start <= today /\ today < old.end
             /\ new = old \/ new.start = old.end
<1>1. today \in Days /\ [Next]_vars => Tiles \/ UNCHANGED vars
  <2>. SUFFICES ASSUME today \in Days, Next PROVE Tiles
    OBVIOUS
  <2>1. today' = today \/ (today' = today + 1 /\ today + 1 \in Days)
    BY BoundsAssumption
       DEF Next, vars, Days, Admit, Insert, Charge, Drop, ResetRead, ResetSubtract, ResetFails,
           NextDay, Quiet
  <2>2. ASSUME NEW p \in Periods
        PROVE  Held(p, today) /\ (today + 1 \in Days => FollowsOn(p, today))
    BY <2>2, DailyTiles, WeeklyTiles, MonthlyTiles, BoundsAssumption DEF Periods, Days
  <2>. QED
    BY <2>1, <2>2 DEF Held, FollowsOn
<1>. QED
  BY <1>1, TodayIsADay, PTL DEF Spec, ReportsCoverEveryDay
=============================================================================
