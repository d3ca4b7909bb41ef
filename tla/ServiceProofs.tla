--------------------------- MODULE ServiceProofs ---------------------------
(***************************************************************************)
(* How the service opens its store and how it lives: Migrations, for any   *)
(* number of processes and of migrations, and ServiceLifecycle, for any    *)
(* set of handlers.  main opens the store before anything of the lifecycle *)
(* happens (bootstrap.NewService), and the two share no state.             *)
(*                                                                         *)
(* Migrations' inductive invariant says what a process may rely on while   *)
(* others move: a version it has read stays applied, and as long as its    *)
(* transaction holds the write lock nobody else moves the version, and the *)
(* migration it is to commit finds no usage row it cannot copy.            *)
(*                                                                         *)
(* The lifecycle's ties main's progress to the Serve goroutine: past Run,  *)
(* no goroutine accepts; only a drained shutdown leads to status 0; and    *)
(* what Serve returned stays in the channel until Run is over.             *)
(***************************************************************************)
EXTENDS Migrations, ServiceLifecycle, TLAPS

\* The committed versions are exactly 1..n.
At(n) == n \in 0..Last /\ versions = 1..n /\ schema = 1..n

\* What holds of a process, with n migrations committed.
Sound(p, n) ==
    /\ at[p] <= n
    /\ pc[p] \in {"exec", "record", "commit"} => at[p] < Last
    /\ pc[p] \in {"ensure", "ready"} => n = Last
    /\ lock = p => pc[p] \in {"record", "commit"} /\ at[p] = n /\ ~Bucketless(n + 1)
    /\ pc[p] = "commit" => lock = p
    /\ pc[p] = "record" /\ lock # p => at[p] < n

\* What a process that has been alone can count on.
Undisturbed(p, n) ==
    alone[p] =>
        /\ pc[p] = "failed" => Stuck
        /\ pc[p] \notin Down => Others(p) = {}
        /\ pc[p] \in {"exec", "record"} => at[p] = n

IInv ==
    /\ TypeOK
    /\ \E n \in 0..Last : At(n) /\ \A p \in Procs : Sound(p, n) /\ Undisturbed(p, n)

\* The strengthened invariant holds when the program starts on a database of any version.
LEMMA StartsSound == Init => IInv
BY LastAssumption, ProcsAssumption
   DEF Init, IInv, TypeOK, At, Sound, Undisturbed, Down, Starting

\* MAX(version) of a gapless table is its length.
LEMMA NewestIsLength == ASSUME NEW n, At(n) PROVE Newest = n
<1>1. n \in versions \cup {0} /\ \A x \in versions : x <= n
  BY LastAssumption DEF At
<1>2. \A v \in versions \cup {0} : (\A x \in versions : x <= v) => v = n
  BY LastAssumption DEF At
<1>. QED BY <1>1, <1>2 DEF Newest

\* The loop goes on below Last, and ends at it.
LEMMA ResumeSplits ==
    ASSUME NEW n \in 0..Last
    PROVE \/ n < Last /\ Resume(n) = "exec"
          \/ n = Last /\ Resume(n) = "ensure"
BY LastAssumption DEF Resume

\* A running process that has been alone is the only one that can act, and stays alone.
LEMMA OnlyOneActs ==
    ASSUME TypeOK, NEW p \in Procs, pc[p] \notin Down, NEW where, Goto(p, where),
           NEW q \in Procs, NEW n, Undisturbed(q, n), alone[q], pc[q] \notin Down
    PROVE q = p /\ Others(q)' = {}
BY DEF TypeOK, Goto, Undisturbed, Others

\* Whatever a running process does to its own place, those who have been alone can go on
\* counting on it, if that process can.
LEMMA StaysUndisturbed ==
    ASSUME TypeOK, NEW p \in Procs, pc[p] \notin Down, NEW where, Goto(p, where), alone' = alone,
           NEW n, NEW m, \A q \in Procs : Undisturbed(q, n), Stuck => Stuck',
           alone[p] => (where = "failed" => Stuck') /\ (where \in {"exec", "record"} => at'[p] = m)
    PROVE \A q \in Procs : Undisturbed(q, m)'
<1>1. \A q \in Procs : pc'[q] = IF q = p THEN where ELSE pc[q]
  BY DEF Goto, TypeOK
<1>. TAKE q \in Procs
<1>2. CASE pc[q] \in Down
  <2>1. q # p /\ pc'[q] = pc[q]
    BY <1>1, <1>2
  <2>. QED BY <1>2, <2>1 DEF Undisturbed, Down
<1>3. CASE pc[q] \notin Down /\ alone[q]
  <2>1. q = p /\ Others(q)' = {}
    BY <1>3, OnlyOneActs
  <2>. QED BY <1>1, <1>3, <2>1 DEF Undisturbed
<1>. QED BY <1>2, <1>3 DEF Undisturbed

\* Refuse needs a companion or a clash, and who has been alone has neither, unless the file
\* is stuck.
LEMMA AloneNotRefused ==
    ASSUME TypeOK, NEW p \in Procs, NEW n \in 0..Last, At(n), Sound(p, n), Undisturbed(p, n),
           Refuse(p)
    PROVE alone[p] => Stuck
<1>. SUFFICES ASSUME alone[p], ~Stuck PROVE FALSE
  OBVIOUS
<1>1. pc[p] \notin Down
  BY DEF Refuse, Busy, Clashes, Down
<1>2. ~Busy(p)
  BY <1>1 DEF Busy, Undisturbed
<1>3. ASSUME pc[p] \in {"exec", "record"} PROVE Pending(p) \notin versions /\ Applies(Pending(p))
  <2>1. Pending(p) = n + 1 /\ n + 1 \in 1..Last
    BY <1>1, <1>3, LastAssumption DEF Undisturbed, Pending, Sound, TypeOK
  <2>2. n + 1 \notin versions /\ n + 1 \notin schema /\ (n + 1 = 1 \/ 1 \in schema)
    BY <2>1 DEF At
  <2>3. ~Bucketless(n + 1)
    BY <2>1, <2>2 DEF Bucketless, Stuck
  <2>. QED BY <2>1, <2>2, <2>3 DEF Applies
<1>4. ~Clashes(p)
  BY <1>3, LastAssumption DEF Clashes, Sound, At
<1>. QED BY <1>2, <1>4 DEF Refuse

\* Every step of every process keeps the strengthened invariant.
LEMMA StepsKeepSound == IInv /\ [Next]_vars => IInv'
<1>. SUFFICES ASSUME IInv, [Next]_vars PROVE IInv'
  OBVIOUS
<1>. USE LastAssumption, ProcsAssumption
<1>1. PICK n \in 0..Last : At(n) /\ \A p \in Procs : Sound(p, n) /\ Undisturbed(p, n)
  BY DEF IInv
<1>2. TypeOK
  BY DEF IInv
<1>3. CASE UNCHANGED vars
  BY <1>3 DEF vars, IInv, TypeOK, At, Sound, Undisturbed, Others, Stuck, Bucketless
<1>4. ASSUME NEW p \in Procs, Start(p) PROVE IInv'
  <2>1. TypeOK'
    BY <1>2, <1>4 DEF TypeOK, Start, Goto, Starting
  <2>2. At(n)'
    BY <1>1, <1>4 DEF At, Start
  <2>3. ASSUME NEW q \in Procs PROVE Sound(q, n)'
    BY <1>1, <1>2, <1>4 DEF Sound, Bucketless, Start, Goto, TypeOK, Down
  <2>4. ASSUME NEW q \in Procs PROVE Undisturbed(q, n)'
    BY <1>2, <1>4 DEF Undisturbed, Start, Goto, TypeOK, Down, Others
  <2>. QED BY <2>1, <2>2, <2>3, <2>4 DEF IInv
<1>5. ASSUME NEW p \in Procs, CreateTable(p) PROVE IInv'
  <2>1. TypeOK'
    BY <1>2, <1>5 DEF TypeOK, CreateTable, Goto, Starting
  <2>2. At(n)'
    BY <1>1, <1>5 DEF At, CreateTable
  <2>3. ASSUME NEW q \in Procs PROVE Sound(q, n)'
    BY <1>1, <1>2, <1>5 DEF Sound, Bucketless, CreateTable, Goto, TypeOK
  <2>4. ASSUME NEW q \in Procs PROVE Undisturbed(q, n)'
    <3>1. pc[p] \notin Down /\ Goto(p, "read") /\ alone' = alone /\ (Stuck => Stuck')
      BY <1>5 DEF CreateTable, Down, Stuck
    <3>2. alone[p] => ("read" = "failed" => Stuck') /\ ("read" \in {"exec", "record"} => at'[p] = n)
      OBVIOUS
    <3>. QED BY <1>1, <1>2, <3>1, <3>2, StaysUndisturbed
  <2>. QED BY <2>1, <2>2, <2>3, <2>4 DEF IInv
<1>6. ASSUME NEW p \in Procs, ReadVersion(p) PROVE IInv'
  <2>. \/ n < Last /\ Resume(n) = "exec"
       \/ n = Last /\ Resume(n) = "ensure"
    BY ResumeSplits
  <2>0. Newest = n
    BY <1>1, NewestIsLength
  <2>1. TypeOK'
    BY <1>2, <1>6, <2>0 DEF TypeOK, ReadVersion, Goto, Starting
  <2>2. At(n)'
    BY <1>1, <1>6 DEF At, ReadVersion
  <2>3. ASSUME NEW q \in Procs PROVE Sound(q, n)'
    BY <1>1, <1>2, <1>6, <2>0 DEF Sound, Bucketless, ReadVersion, Goto, TypeOK
  <2>4. ASSUME NEW q \in Procs PROVE Undisturbed(q, n)'
    <3>1. pc[p] \notin Down /\ Goto(p, Resume(n)) /\ alone' = alone /\ (Stuck => Stuck')
      BY <1>6, <2>0 DEF ReadVersion, Down, Stuck
    <3>2. alone[p] => (Resume(n) = "failed" => Stuck') /\ (Resume(n) \in {"exec", "record"} => at'[p] = n)
      BY <1>2, <1>6, <2>0 DEF ReadVersion, TypeOK
    <3>. QED BY <1>1, <1>2, <3>1, <3>2, StaysUndisturbed
  <2>. QED BY <2>1, <2>2, <2>3, <2>4 DEF IInv
<1>7. ASSUME NEW p \in Procs, Exec(p) PROVE IInv'
  <2>1. TypeOK'
    BY <1>2, <1>7 DEF TypeOK, Exec, Goto, Starting
  <2>2. At(n)'
    BY <1>1, <1>7 DEF At, Exec
  <2>3. \/ lock' = lock /\ lock # p /\ at[p] < n
        \/ lock = None /\ lock' = p /\ at[p] = n /\ ~Bucketless(n + 1)
    BY <1>1, <1>2, <1>7 DEF Exec, DoesNothing, Applies, At, Sound, Pending, TypeOK
  <2>4. ASSUME NEW q \in Procs PROVE Sound(q, n)'
    BY <1>1, <1>2, <1>7, <2>3 DEF Sound, Bucketless, Exec, Goto, TypeOK
  <2>5. ASSUME NEW q \in Procs PROVE Undisturbed(q, n)'
    <3>1. pc[p] \notin Down /\ Goto(p, "record") /\ alone' = alone /\ (Stuck => Stuck')
      BY <1>7 DEF Exec, Down, Stuck
    <3>2. alone[p] => ("record" = "failed" => Stuck') /\ ("record" \in {"exec", "record"} => at'[p] = n)
      BY <1>1, <1>7 DEF Exec, Undisturbed
    <3>. QED BY <1>1, <1>2, <3>1, <3>2, StaysUndisturbed
  <2>. QED BY <2>1, <2>2, <2>4, <2>5 DEF IInv
<1>8. ASSUME NEW p \in Procs, Record(p) PROVE IInv'
  <2>1. TypeOK'
    BY <1>2, <1>8 DEF TypeOK, Record, Goto, Starting
  <2>2. At(n)'
    BY <1>1, <1>8 DEF At, Record
  <2>3. at[p] = n
    BY <1>1, <1>2, <1>8 DEF Record, At, Sound, Pending, TypeOK
  <2>4. ASSUME NEW q \in Procs PROVE Sound(q, n)'
    BY <1>1, <1>2, <1>8, <2>3 DEF Sound, Bucketless, Record, Goto, TypeOK
  <2>5. ASSUME NEW q \in Procs PROVE Undisturbed(q, n)'
    <3>1. pc[p] \notin Down /\ Goto(p, "commit") /\ alone' = alone /\ (Stuck => Stuck')
      BY <1>8 DEF Record, Down, Stuck
    <3>2. alone[p] => ("commit" = "failed" => Stuck') /\ ("commit" \in {"exec", "record"} => at'[p] = n)
      OBVIOUS
    <3>. QED BY <1>1, <1>2, <3>1, <3>2, StaysUndisturbed
  <2>. QED BY <2>1, <2>2, <2>4, <2>5 DEF IInv
<1>9. ASSUME NEW p \in Procs, Commit(p) PROVE IInv'
  <2>0. at[p] = n /\ n < Last /\ lock = p /\ n + 1 \in 0..Last
    BY <1>1, <1>2, <1>9 DEF Commit, Sound, TypeOK
  <2>. \/ n + 1 < Last /\ Resume(n + 1) = "exec"
       \/ n + 1 = Last /\ Resume(n + 1) = "ensure"
    BY <2>0, ResumeSplits
  <2>1. TypeOK'
    BY <1>2, <1>9, <2>0 DEF TypeOK, Commit, Goto, Starting, Pending
  <2>2. At(n + 1)'
    BY <1>1, <1>9, <2>0 DEF At, Commit, Pending
  <2>3. ASSUME NEW q \in Procs PROVE Sound(q, n + 1)'
    BY <1>1, <1>2, <1>9, <2>0 DEF Sound, Bucketless, Commit, Goto, TypeOK, Pending
  <2>4. ASSUME NEW q \in Procs PROVE Undisturbed(q, n + 1)'
    <3>1. pc[p] \notin Down /\ Goto(p, Resume(n + 1)) /\ alone' = alone /\ (Stuck => Stuck')
      BY <1>1, <1>9, <2>0 DEF Commit, Down, Pending, Stuck, Sound, Bucketless
    <3>2. (Resume(n + 1) = "failed" => Stuck') /\ at'[p] = n + 1
      BY <1>2, <1>9, <2>0 DEF Commit, Pending, TypeOK
    <3>. QED BY <1>1, <1>2, <3>1, <3>2, StaysUndisturbed
  <2>. QED BY <2>0, <2>1, <2>2, <2>3, <2>4 DEF IInv
<1>10. ASSUME NEW p \in Procs, EnsureDefault(p) PROVE IInv'
  <2>1. TypeOK'
    BY <1>2, <1>10 DEF TypeOK, EnsureDefault, Goto
  <2>2. At(n)'
    BY <1>1, <1>10 DEF At, EnsureDefault
  <2>3. ASSUME NEW q \in Procs PROVE Sound(q, n)'
    BY <1>1, <1>2, <1>10 DEF Sound, Bucketless, EnsureDefault, Goto, TypeOK
  <2>4. ASSUME NEW q \in Procs PROVE Undisturbed(q, n)'
    <3>1. pc[p] \notin Down /\ Goto(p, "ready") /\ alone' = alone /\ (Stuck => Stuck')
      BY <1>10 DEF EnsureDefault, Down, Stuck
    <3>2. alone[p] => ("ready" = "failed" => Stuck') /\ ("ready" \in {"exec", "record"} => at'[p] = n)
      OBVIOUS
    <3>. QED BY <1>1, <1>2, <3>1, <3>2, StaysUndisturbed
  <2>. QED BY <2>1, <2>2, <2>3, <2>4 DEF IInv
<1>11. ASSUME NEW p \in Procs, Refuse(p) PROVE IInv'
  <2>0. pc[p] \notin Down /\ (alone[p] => Stuck)
    BY <1>1, <1>2, <1>11, AloneNotRefused DEF Refuse, Busy, Clashes, Down
  <2>1. TypeOK'
    BY <1>2, <1>11 DEF TypeOK, Refuse, Goto, Down, Unlocked
  <2>2. At(n)'
    BY <1>1, <1>11 DEF At, Refuse
  <2>3. ASSUME NEW q \in Procs PROVE Sound(q, n)'
    BY <1>1, <1>2, <1>11 DEF Sound, Bucketless, Refuse, Goto, TypeOK, Unlocked
  <2>4. ASSUME NEW q \in Procs PROVE Undisturbed(q, n)'
    <3>1. pc[p] \notin Down /\ Goto(p, "failed") /\ alone' = alone /\ (Stuck => Stuck')
      BY <1>11, <2>0 DEF Refuse, Down, Stuck
    <3>2. alone[p] => ("failed" = "failed" => Stuck') /\ ("failed" \in {"exec", "record"} => at'[p] = n)
      BY <2>0, <3>1
    <3>. QED BY <1>1, <1>2, <3>1, <3>2, StaysUndisturbed
  <2>. QED BY <2>1, <2>2, <2>3, <2>4 DEF IInv
<1>12. ASSUME NEW p \in Procs, Stop(p) PROVE IInv'
  <2>1. TypeOK'
    BY <1>2, <1>12 DEF TypeOK, Stop, Goto, Down, Unlocked
  <2>2. At(n)'
    BY <1>1, <1>12 DEF At, Stop
  <2>3. ASSUME NEW q \in Procs PROVE Sound(q, n)'
    BY <1>1, <1>2, <1>12 DEF Sound, Bucketless, Stop, Goto, TypeOK, Unlocked
  <2>4. ASSUME NEW q \in Procs PROVE Undisturbed(q, n)'
    <3>1. pc[p] \notin Down /\ Goto(p, "off") /\ alone' = alone /\ (Stuck => Stuck')
      BY <1>12 DEF Stop, Down, Stuck
    <3>2. alone[p] => ("off" = "failed" => Stuck') /\ ("off" \in {"exec", "record"} => at'[p] = n)
      OBVIOUS
    <3>. QED BY <1>1, <1>2, <3>1, <3>2, StaysUndisturbed
  <2>. QED BY <2>1, <2>2, <2>3, <2>4 DEF IInv
<1>13. ASSUME NEW p \in Procs, StoreUsage(p) PROVE IInv'
  <2>0. n = Last
    BY <1>1, <1>13 DEF StoreUsage, Sound
  <2>1. TypeOK'
    BY <1>2, <1>13 DEF TypeOK, StoreUsage
  <2>2. At(n)'
    BY <1>1, <1>13 DEF At, StoreUsage
  <2>3. ASSUME NEW q \in Procs PROVE Sound(q, n)'
    BY <1>1, <1>2, <1>13, <2>0 DEF Sound, Bucketless, StoreUsage, TypeOK
  <2>4. ASSUME NEW q \in Procs PROVE Undisturbed(q, n)'
    <3>1. ~Stuck
      BY <1>13 DEF StoreUsage, Stuck
    <3>. QED BY <1>1, <1>2, <1>13, <3>1 DEF Undisturbed, StoreUsage, Others
  <2>. QED BY <2>1, <2>2, <2>3, <2>4 DEF IInv
<1>. QED
  BY <1>3, <1>4, <1>5, <1>6, <1>7, <1>8, <1>9, <1>10, <1>11, <1>12, <1>13
     DEF Next, Step

\* What the four theorems rest on.
LEMMA SoundAlways == Spec => []IInv
BY StartsSound, StepsKeepSound, PTL DEF Spec

\* NewSQLite's variables, and the tables it writes, keep their types.
THEOREM MigrationTypes == Spec => []TypeOK
<1>1. IInv => TypeOK
  BY DEF IInv
<1>. QED BY <1>1, SoundAlways, PTL

\* The committed schema is a prefix of the migrations, and schema_migrations names exactly it.
THEOREM VersionsAreTheSchema == Spec => []VersionsMatchSchema
<1>1. IInv => VersionsMatchSchema
  BY DEF IInv, At, VersionsMatchSchema
<1>. QED BY <1>1, SoundAlways, PTL

\* A process that serves has the complete schema under it.
THEOREM ReadyOnCompleteSchema == Spec => []ReadyIsComplete
<1>1. IInv => ReadyIsComplete
  BY DEF IInv, At, Sound, ReadyIsComplete
<1>. QED BY <1>1, SoundAlways, PTL

\* No crash or race leaves a database that a process alone cannot open: what it cannot open is
\* an earlier release's, with usage rows that a migration to come does not copy.
THEOREM LoneStartIsServed == Spec => []LoneStartSucceeds
<1>1. IInv => LoneStartSucceeds
  BY DEF IInv, Undisturbed, LoneStartSucceeds
<1>. QED BY <1>1, SoundAlways, PTL

\* Nor do processes of this release make such a database of another: they store usage
\* (sqlite.go:53) where the last migration has been applied.
THEOREM StuckIsInherited == Spec => [][Stuck' => Stuck]_vars
<1>1. IInv /\ [Next]_vars => [Stuck' => Stuck]_vars
  <2>. SUFFICES ASSUME IInv, Next, Stuck' PROVE Stuck
    OBVIOUS
  <2>1. PICK p \in Procs : Step(p)
    BY DEF Next
  <2>2. CASE StoreUsage(p)
    <3>1. Backfills \ schema = {}
      BY <2>2, LastAssumption, RepeatableAssumption DEF IInv, At, Sound, StoreUsage
    <3>. QED BY <2>2, <3>1 DEF StoreUsage, Stuck
  <2>3. CASE ~StoreUsage(p)
    <3>1. rows' = rows /\ schema \subseteq schema'
      BY <2>1, <2>3
         DEF Step, Start, CreateTable, ReadVersion, Exec, Record, Commit, EnsureDefault, Refuse, Stop
    <3>. QED BY <3>1 DEF Stuck
  <2>. QED BY <2>2, <2>3
<1>. QED BY <1>1, SoundAlways, PTL DEF Spec

-----------------------------------------------------------------------------
(* The life of the service *)

Serving == {"listening", "select"}
Over == {"returned", "closed", "exited"}

\* What main's place says about the goroutine and the server.
PlaceFits ==
    /\ main \in Serving => ~stopping
    /\ main = "listening" => serve = "none"
    /\ main = "waiting" => serve = "done" /\ Active = {}
    /\ main \in Over => serve \in {"none", "done"}
    /\ store = "closed" <=> main \in {"closed", "exited"}

\* What has been sent, returned and lost.
OutcomeFits ==
    /\ errCh = "closed" => stopping
    /\ errCh # "empty" => serve = "done"
    /\ serve = "done" => errCh # "empty" \/ main \in Over
    /\ main \notin Over => status = "running"
    /\ status = "ok" => Active = {} /\ lost = {}
    /\ store = "open" => lost = {}

LifeInv == LifeTypeOK /\ PlaceFits /\ OutcomeFits

\* The invariant holds when NewService has returned.
LEMMA LifeStartsFit == LifeInit => LifeInv
BY DEF LifeInit, LifeInv, LifeTypeOK, PlaceFits, OutcomeFits, Serving, Over, Active

\* Every step of main, of the Serve goroutine, of a handler and of the world keeps it.
LEMMA LifeStepsFit == LifeInv /\ [LifeNext]_lifeVars => LifeInv'
<1>. SUFFICES ASSUME LifeInv, [LifeNext]_lifeVars PROVE LifeInv'
  OBVIOUS
<1>. USE DEF LifeInv, LifeTypeOK, PlaceFits, OutcomeFits, Serving, Over, Active
<1>1. CASE Listen
  BY <1>1 DEF Listen
<1>2. CASE ListenFails
  BY <1>2 DEF ListenFails, Return
<1>3. CASE SelectError
  BY <1>3 DEF SelectError, Return
<1>4. CASE SelectSignal
  BY <1>4 DEF SelectSignal
<1>5. CASE Drained
  BY <1>5 DEF Drained
<1>6. CASE DrainTimesOut
  BY <1>6 DEF DrainTimesOut, Return
<1>7. CASE AwaitServe
  BY <1>7 DEF AwaitServe, Return
<1>8. CASE Close
  BY <1>8 DEF Close
<1>9. CASE Exit
  <2>1. request' = [h \in Handlers |-> "idle"]
    BY <1>9 DEF Exit
  <2>2. Active' = {}
    BY <2>1
  <2>3. status = "ok" => lost' = {}
    BY <1>9 DEF Exit
  <2>4. LifeTypeOK'
    BY <1>9, <2>1 DEF Exit
  <2>5. PlaceFits' /\ OutcomeFits'
    BY <1>9, <2>2, <2>3 DEF Exit
  <2>. QED BY <2>4, <2>5
<1>10. CASE Server
  BY <1>10 DEF Server, ServeStarts, ServeEnds, ServeFails
<1>11. CASE Signal \/ AcceptFails
  <2>1. CASE Signal
    BY <2>1 DEF Signal
  <2>2. CASE AcceptFails
    BY <2>2 DEF AcceptFails
  <2>. QED BY <1>11, <2>1, <2>2
<1>12. ASSUME NEW h \in Handlers, Arrive(h) PROVE LifeInv'
  BY <1>12 DEF Arrive
<1>13. ASSUME NEW h \in Handlers, Track(h) PROVE LifeInv'
  <2>1. status # "ok" /\ main # "waiting"
    BY <1>13 DEF Track
  <2>. QED BY <1>13, <2>1 DEF Track
<1>14. ASSUME NEW h \in Handlers, Answer(h) PROVE LifeInv'
  <2>1. Active' \subseteq Active
    BY <1>14 DEF Answer
  <2>. QED BY <1>14, <2>1 DEF Answer
<1>15. CASE UNCHANGED lifeVars
  BY <1>15 DEF lifeVars
<1>. QED
  BY <1>1, <1>2, <1>3, <1>4, <1>5, <1>6, <1>7, <1>8, <1>9, <1>10, <1>11, <1>12, <1>13, <1>14, <1>15
     DEF LifeNext, Run, World

\* What the theorems rest on.
LEMMA LifeFitsAlways == LifeSpec => []LifeInv
BY LifeStartsFit, LifeStepsFit, PTL DEF LifeSpec

\* The process's variables keep their types.
THEOREM LifecycleTypes == LifeSpec => []LifeTypeOK
<1>1. LifeInv => LifeTypeOK
  BY DEF LifeInv
<1>. QED BY <1>1, LifeFitsAlways, PTL

\* Status 0 means that every request taken on was recorded before the store was closed.
THEOREM CleanExitIsComplete == LifeSpec => []CleanExitLosesNothing
<1>1. LifeInv => CleanExitLosesNothing
  BY DEF LifeInv, OutcomeFits, CleanExitLosesNothing
<1>. QED BY <1>1, LifeFitsAlways, PTL

\* Nobody is let in who cannot be recorded: from Close on, on every way out of Run
\* (service.go:204-221, main.go:38), no connection is accepted any more.
THEOREM ClosedStoreIsUnreachable == LifeSpec => [](store = "closed" => serve # "serving")
<1>1. LifeInv => (store = "closed" => serve # "serving")
  BY DEF LifeInv, PlaceFits, Over
<1>. QED BY <1>1, LifeFitsAlways, PTL

\* What the goroutine sends is received once, and is there when Run waits for it.
THEOREM ReceivesFindValues == LifeSpec => []ReceiveFindsValue
<1>1. LifeInv => ReceiveFindsValue
  BY DEF LifeInv, PlaceFits, OutcomeFits, Over, ReceiveFindsValue
<1>. QED BY <1>1, LifeFitsAlways, PTL
=============================================================================
