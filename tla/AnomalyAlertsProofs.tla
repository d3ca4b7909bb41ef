------------------------ MODULE AnomalyAlertsProofs ------------------------
(***************************************************************************)
(* AnomalyAlerts for any projects, recorders, costs and histories.  That a *)
(* critical day is not passed over does not depend on what the statistics  *)
(* say: a project's severity is a function of its rollups and of the day   *)
(* (SeverityOf, never expanded here), and whoever changes the rollups is   *)
(* then about to look at them.                                             *)
(***************************************************************************)
EXTENDS AnomalyAlerts, TLAPS

\* The severity of a project whose rollups stay as they are stays as it is, on the same day.
LEMMA SameSeverity ==
    ASSUME NEW s, spend'[s] = spend[s], today' = today
    PROVE  Severity(s)' = Severity(s)
BY DEF Severity

\* So do the anomalies of a query none of whose rollups change.
LEMMA SameAnomalies ==
    ASSUME NEW c, \A s \in Queried(c) : spend'[s] = spend[s], today' = today
    PROVE  Anomalies(c)' = Anomalies(c)
<1>1. \A s \in Queried(c) : Severity(s)' = Severity(s)
  BY SameSeverity
<1>. QED BY <1>1 DEF Anomalies, Queried

-----------------------------------------------------------------------------
\* The rollups stay whole costs by day when a record is added to one of them.
LEMMA CostsAdded ==
    ASSUME AreCosts(spend), NEW s \in Series, NEW day \in 0..LastDay, NEW c \in Nat,
           spend' = [spend EXCEPT ![s] = WithCost(@, day, c)]
    PROVE  AreCosts(spend')
<1>1. DOMAIN spend' = Series
  BY DEF AreCosts
<1>2. ASSUME NEW t \in Series
      PROVE  /\ DOMAIN spend'[t] \subseteq 0..LastDay
             /\ \A d \in DOMAIN spend'[t] : spend'[t][d] \in Nat
  <2>1. CASE t = s
    <3>1. spend'[t] = WithCost(spend[s], day, c)
      BY <2>1 DEF AreCosts
    <3>. QED BY <3>1 DEF WithCost, AreCosts
  <2>2. CASE t # s
    BY <2>2 DEF AreCosts
  <2>. QED BY <2>1, <2>2
<1>. QED BY <1>1, <1>2 DEF AreCosts

\* Initially everything has its type.
LEMMA TypeInit == Init => TypeOK
BY HistoryAssumption, BoundsAssumption DEF Init, TypeOK, Job, IdleJob, PCs, Series

\* What comes first among the anomalies of a query is a series.
LEMMA FirstsAreSeries == ASSUME NEW c \in Series PROVE Firsts(c) \subseteq Series
BY DEF Firsts, Anomalies, Queried

\* Every step keeps the types.
LEMMA TypeStep == TypeOK /\ [Next]_vars => TypeOK'
<1>. SUFFICES ASSUME TypeOK, [Next]_vars PROVE TypeOK'
  OBVIOUS
<1>. USE BoundsAssumption DEF TypeOK, Job, IdleJob, PCs, Become
<1>1. ASSUME NEW w \in Recorders, Begin(w) PROVE TypeOK'
  <2>1. PICK s \in Series, c \in Costs :
            job' = [job EXCEPT ![w] = [IdleJob EXCEPT !.pc = "daily", !.series = s,
                                                      !.day = today, !.cost = c]]
    BY <1>1 DEF Begin
  <2>2. job' \in [Recorders -> Job]
    BY <2>1, CostsAssumption DEF Series
  <2>. QED BY <1>1, <2>2 DEF Begin
<1>2. ASSUME NEW w \in Recorders, RollDaily(w) PROVE TypeOK'
  <2>1. job[w].series \in Series /\ job[w].day \in 0..LastDay /\ job[w].cost \in Nat
    OBVIOUS
  <2>2. AreCosts(spend')
    BY <1>2, <2>1, CostsAdded DEF RollDaily
  <2>. QED BY <1>2, <2>1, <2>2 DEF RollDaily, Series
<1>3. ASSUME NEW w \in Recorders, RecordFails(w) PROVE TypeOK'
  BY <1>3 DEF RecordFails, Series
<1>4. ASSUME NEW w \in Recorders, Check(w) PROVE TypeOK'
  <2>1. Firsts(job[w].series) \subseteq Series
    BY FirstsAreSeries
  <2>2. \/ job' = [job EXCEPT ![w] = IdleJob]
        \/ \E t \in Series : job' = [job EXCEPT ![w] = [job[w] EXCEPT !.pc = "notify", !.target = t]]
    BY <1>4, <2>1 DEF Check
  <2>3. IdleJob \in Job
    BY DEF Series
  <2>4. \A t \in Series : [job[w] EXCEPT !.pc = "notify", !.target = t] \in Job
    OBVIOUS
  <2>5. job' \in [Recorders -> Job]
    <3>. HIDE DEF Job, IdleJob
    <3>. QED BY <2>2, <2>3, <2>4
  <2>. QED BY <1>4, <2>5 DEF Check
<1>5. ASSUME NEW w \in Recorders, CheckFails(w) PROVE TypeOK'
  BY <1>5 DEF CheckFails, Series
<1>6. ASSUME NEW w \in Recorders, Notify(w) PROVE TypeOK'
  BY <1>6 DEF Notify, Series
<1>7. CASE NextDay
  BY <1>7 DEF NextDay
<1>8. CASE UNCHANGED vars
  BY <1>8 DEF vars
<1>. QED BY <1>1, <1>2, <1>3, <1>4, <1>5, <1>6, <1>7, <1>8 DEF Next, Record, Quiet

\* Rollups, jobs and history keep their types for any costs and any number of recorders.
THEOREM TypeCorrect == Spec => []TypeOK
BY TypeInit, TypeStep, PTL DEF Spec

-----------------------------------------------------------------------------
\* A query that is due: it shows critical anomalies and nothing else.
Due(c) == Anomalies(c) # {} /\ \A s \in Anomalies(c) : Severity(s) = "critical"

\* And is seen to: an alert has been attempted, or a recorder is about to.
SeenTo(c) == Anomalies(c) \cap alerted # {} \/ \E w \in Recorders : Checking(w, c)

\* The property is that every query whose rows have not changed unseen is seen to when due.
LEMMA AsDue == CriticalDayIsAlerted <=> \A c \in Series \ unseen : Due(c) => SeenTo(c)
BY DEF CriticalDayIsAlerted, Due, SeenTo

\* While the rollups and the day stay, so does what is due.
LEMMA SameDue ==
    ASSUME NEW c \in Series, UNCHANGED <<spend, today>>
    PROVE  Anomalies(c)' = Anomalies(c) /\ Due(c)' = Due(c)
<1>1. Anomalies(c)' = Anomalies(c)
  BY SameAnomalies
<1>2. \A s : Severity(s)' = Severity(s)
  BY SameSeverity
<1>. QED BY <1>1, <1>2 DEF Due

\* Every step keeps the property.
LEMMA AlertStep == TypeOK /\ CriticalDayIsAlerted /\ [Next]_vars => CriticalDayIsAlerted'
<1>. SUFFICES ASSUME TypeOK, \A c \in Series \ unseen : Due(c) => SeenTo(c), [Next]_vars,
                     NEW c \in Series, c \notin unseen', Due(c)'
              PROVE  SeenTo(c)'
  BY AsDue DEF CriticalDayIsAlerted, Due, SeenTo
\* A step that leaves the rollups, the alerts and everybody who is checking in place.
<1>0. ASSUME UNCHANGED <<spend, today>>, alerted \subseteq alerted', c \notin unseen,
             \A w \in Recorders : Checking(w, c) => job'[w] = job[w]
      PROVE  SeenTo(c)'
  <2>1. Anomalies(c)' = Anomalies(c) /\ Due(c)
    BY <1>0, SameDue
  <2>2. SeenTo(c)
    BY <1>0, <2>1
  <2>. QED BY <1>0, <2>1, <2>2 DEF SeenTo, Checking
<1>1. ASSUME NEW w \in Recorders, Begin(w) PROVE SeenTo(c)'
  <2>1. \A v \in Recorders : Checking(v, c) => job'[v] = job[v]
    BY <1>1 DEF Begin, Become, Checking, TypeOK
  <2>. QED BY <1>0, <1>1, <2>1 DEF Begin
<1>2. ASSUME NEW w \in Recorders, RollDaily(w) PROVE SeenTo(c)'
  <2>. DEFINE s == job[w].series
  <2>0. s \in Series /\ DOMAIN spend = Series
    BY DEF TypeOK, Job, AreCosts
  <2>1. CASE c = s
    <3>1. job'[w].series = c /\ job'[w].pc = "check"
      BY <1>2, <2>1 DEF RollDaily, Become, TypeOK, Job
    <3>. QED BY <3>1 DEF SeenTo, Checking
  <2>2. CASE c # s
    <3>1. c # NoProject /\ c \notin unseen
      BY <1>2, <2>0, <2>2 DEF RollDaily
    <3>2. Queried(c) = {c} /\ spend'[c] = spend[c] /\ today' = today
      BY <1>2, <2>0, <2>2, <3>1 DEF RollDaily, Queried
    <3>3. Anomalies(c)' = Anomalies(c)
      BY <3>2, SameAnomalies
    <3>4. Severity(c)' = Severity(c) /\ Anomalies(c) \subseteq {c}
      BY <3>2, SameSeverity DEF Anomalies
    <3>5. Due(c)
      BY <3>3, <3>4 DEF Due
    <3>6. SeenTo(c)
      BY <3>1, <3>5
    <3>7. \A v \in Recorders : Checking(v, c) => job'[v] = job[v]
      BY <1>2 DEF RollDaily, Become, Checking, TypeOK
    <3>8. alerted' = alerted \ {s}
      BY <1>2 DEF RollDaily
    <3>. QED BY <2>2, <3>3, <3>4, <3>6, <3>7, <3>8 DEF SeenTo, Checking
  <2>. QED BY <2>1, <2>2
<1>3. ASSUME NEW w \in Recorders, RecordFails(w) PROVE SeenTo(c)'
  <2>1. \A v \in Recorders : Checking(v, c) => job'[v] = job[v]
    BY <1>3 DEF RecordFails, Become, Checking, TypeOK
  <2>. QED BY <1>0, <1>3, <2>1 DEF RecordFails
<1>4. ASSUME NEW w \in Recorders, Check(w) PROVE SeenTo(c)'
  <2>. DEFINE s == job[w].series
  <2>0. UNCHANGED <<spend, today, alerted>> /\ unseen' = unseen \ {s}
    BY <1>4 DEF Check
  <2>1. CASE c = s
    <3>1. Anomalies(c)' = Anomalies(c) /\ Due(c)
      BY <2>0, SameDue
    <3>2. PICK t \in Firsts(c) : Become(w, IF Severity(t) = "critical"
                  THEN [job[w] EXCEPT !.pc = "notify", !.target = t] ELSE IdleJob)
      BY <1>4, <2>1, <3>1 DEF Check, Due
    <3>3. t \in Anomalies(c) /\ Severity(t) = "critical"
      BY <3>1 DEF Firsts, Due
    <3>4. job'[w] = [job[w] EXCEPT !.pc = "notify", !.target = t]
      BY <3>2, <3>3 DEF Become, TypeOK
    <3>5. job'[w].series = c /\ job'[w].pc = "notify" /\ job'[w].target = t
      BY <2>1, <3>4 DEF TypeOK, Job
    <3>. QED BY <3>1, <3>3, <3>5 DEF SeenTo, Checking
  <2>2. CASE c # s
    <3>1. \A v \in Recorders : Checking(v, c) => job'[v] = job[v]
      BY <1>4, <2>2 DEF Check, Become, Checking, TypeOK
    <3>. QED BY <1>0, <2>0, <2>2, <3>1
  <2>. QED BY <2>1, <2>2
<1>5. ASSUME NEW w \in Recorders, CheckFails(w) PROVE SeenTo(c)'
  <2>1. c # job[w].series
    BY <1>5 DEF CheckFails
  <2>2. \A v \in Recorders : Checking(v, c) => job'[v] = job[v]
    BY <1>5, <2>1 DEF CheckFails, Become, Checking, TypeOK
  <2>. QED BY <1>0, <1>5, <2>2 DEF CheckFails
<1>6. ASSUME NEW w \in Recorders, Notify(w) PROVE SeenTo(c)'
  <2>0. UNCHANGED <<spend, today>> /\ alerted' = alerted \cup {job[w].target} /\ c \notin unseen
    BY <1>6 DEF Notify
  <2>1. Anomalies(c)' = Anomalies(c)
    BY <2>0, SameDue
  <2>2. CASE Checking(w, c)
    <3>1. job[w].target \in Anomalies(c)
      BY <1>6, <2>2 DEF Notify, Checking
    <3>. QED BY <2>0, <2>1, <3>1 DEF SeenTo
  <2>3. CASE ~Checking(w, c)
    <3>1. \A v \in Recorders : Checking(v, c) => job'[v] = job[v]
      BY <1>6, <2>3 DEF Notify, Become, TypeOK
    <3>. QED BY <1>0, <2>0, <3>1
  <2>. QED BY <2>2, <2>3
<1>7. CASE NextDay
  BY <1>7 DEF NextDay
<1>8. CASE UNCHANGED vars
  BY <1>0, <1>8 DEF vars
<1>. QED BY <1>1, <1>2, <1>3, <1>4, <1>5, <1>6, <1>7, <1>8 DEF Next, Record, Quiet

\* For any number of recorders, whatever order they roll up, look and alert in and wherever
\* the days change: no critical day that stands alone in its query is passed over.
THEOREM CriticalDaysAreAlerted == Spec => []CriticalDayIsAlerted
<1>1. Init => CriticalDayIsAlerted
  BY DEF Init, CriticalDayIsAlerted
<1>. QED BY <1>1, TypeCorrect, AlertStep, PTL DEF Spec
=============================================================================
