----------------------------- MODULE Migrations -----------------------------
(***************************************************************************)
(* storage.NewSQLite and runMigrations: any `lcg` command and the daemon   *)
(* bring the schema of the one SQLite file up to date when they start.     *)
(* Each migration and the row that records it share a transaction; reading *)
(* the version, and what lies between two migrations, do not.  Processes   *)
(* start together, are refused, and die between any two statements.        *)
(*                                                                         *)
(* SQLite itself is assumed: a commit is atomic, an uncommitted            *)
(* transaction dies with its process, and there is one writer at a time.   *)
(* The busy timeout of the DSN has no effect with this driver, so a writer *)
(* that meets another one is refused at once.                              *)
(***************************************************************************)
EXTENDS Integers

CONSTANTS Procs,      \* processes that may open the database
          None,       \* nobody holds SQLite's write lock
          Last,       \* len(migrations)
          Repeatable, \* migrations that do nothing when they are applied already
          Backfills   \* migrations that copy the usage rows into a table of their own

ASSUME LastAssumption == Last \in Nat \ {0}
ASSUME ProcsAssumption == None \notin Procs
ASSUME RepeatableAssumption == Repeatable \subseteq 1..Last /\ Backfills \subseteq 1..Last

VARIABLES
    pc,       \* where each process is in NewSQLite
    at,       \* runMigrations' i: the migrations a process takes as applied
    lock,     \* the process whose transaction has written, or None
    schema,   \* migrations whose effects are committed
    versions, \* the committed rows of schema_migrations
    tracked,  \* whether schema_migrations exists
    rows,     \* whether usage_records has rows
    alone     \* history: no other process has run since this one started

vars == <<pc, at, lock, schema, versions, tracked, rows, alone>>

Down == {"off", "failed"}
Starting == {"open", "read", "exec", "record", "commit", "ensure"}

TypeOK ==
    /\ pc \in [Procs -> Down \cup Starting \cup {"ready"}]
    /\ at \in [Procs -> 0..Last]
    /\ lock \in Procs \cup {None}
    /\ schema \subseteq 1..Last /\ versions \subseteq 1..Last
    /\ tracked \in BOOLEAN /\ rows \in BOOLEAN
    /\ alone \in [Procs -> BOOLEAN]

\* A file that an earlier release of the program, with fewer migrations, left behind, with
\* usage or without any, or none.
Init ==
    /\ pc = [p \in Procs |-> "off"] /\ at = [p \in Procs |-> 0]
    /\ lock = None
    /\ \E k \in 0..Last : /\ versions = 1..k /\ schema = 1..k /\ tracked = (k > 0)
                     /\ rows \in BOOLEAN /\ (rows => k > 0)
    /\ alone = [p \in Procs |-> FALSE]

-----------------------------------------------------------------------------
Others(p) == {q \in Procs \ {p} : pc[q] \notin Down}
Goto(p, where) == pc' = [pc EXCEPT ![p] = where]

\* The migration a process is about to apply, or is applying: i+1.
Pending(p) == at[p] + 1

\* Where the loop goes with i = n.
Resume(n) == IF n < Last THEN "exec" ELSE "ensure"

Unlocked(p) == IF lock = p THEN None ELSE lock

Start(p) ==
    /\ pc[p] \in Down
    /\ Goto(p, "open")
    /\ alone' = [q \in Procs |-> q = p /\ Others(p) = {}]
    /\ UNCHANGED <<at, lock, schema, versions, tracked, rows>>

\* The WAL pragma, and CREATE TABLE IF NOT EXISTS schema_migrations.
CreateTable(p) ==
    /\ pc[p] = "open" /\ (tracked \/ lock = None)
    /\ tracked' = TRUE
    /\ Goto(p, "read")
    /\ UNCHANGED <<at, lock, schema, versions, rows, alone>>

\* COALESCE(MAX(version), 0)
Newest == CHOOSE v \in versions \cup {0} : \A x \in versions : x <= v

\* Mutant: the loop starts one too far.
ReadVersion_SkipsOne(p) ==
    /\ pc[p] = "read" /\ Newest < Last
    /\ at' = [at EXCEPT ![p] = Newest + 1]
    /\ Goto(p, Resume(Newest + 1))
    /\ UNCHANGED <<lock, schema, versions, tracked, rows, alone>>

ReadVersion(p) ==
    /\ pc[p] = "read"
    /\ at' = [at EXCEPT ![p] = Newest]
    /\ Goto(p, Resume(Newest))
    /\ UNCHANGED <<lock, schema, versions, tracked, rows, alone>>

\* A backfill has no bucket for a row that is there: DATETIME(STRFTIME(...)) of a timestamp as
\* the driver writes it, in Go's own form, is NULL, and bucket_start is NOT NULL.
Bucketless(m) == m \in Backfills /\ rows
\* The first migration makes the tables that the later ones alter.
Applies(m) == m \notin schema /\ (m = 1 \/ 1 \in schema) /\ ~Bucketless(m)
DoesNothing(m) == m \in schema /\ m \in Repeatable

\* Mutant: the migration runs on the database, outside the transaction.
Exec_Autocommit(p) ==
    /\ pc[p] = "exec"
    /\ \/ DoesNothing(Pending(p)) /\ UNCHANGED <<lock, schema>>
       \/ Applies(Pending(p)) /\ lock = None /\ schema' = schema \cup {Pending(p)} /\ UNCHANGED lock
    /\ Goto(p, "record")
    /\ UNCHANGED <<at, versions, tracked, rows, alone>>

\* BEGIN, which is deferred and takes no lock, and the statements of the migration.
Exec(p) ==
    /\ pc[p] = "exec"
    /\ \/ DoesNothing(Pending(p)) /\ UNCHANGED lock
       \/ Applies(Pending(p)) /\ lock = None /\ lock' = p
    /\ Goto(p, "record")
    /\ UNCHANGED <<at, schema, versions, tracked, rows, alone>>

\* INSERT INTO schema_migrations, in the same transaction.
Record(p) ==
    /\ pc[p] = "record" /\ Pending(p) \notin versions /\ lock \in {None, p}
    /\ lock' = p
    /\ Goto(p, "commit")
    /\ UNCHANGED <<at, schema, versions, tracked, rows, alone>>

\* Mutant: the row counts migrations from the next one on.
Commit_OffByOne(p) ==
    /\ pc[p] = "commit"
    /\ schema' = schema \cup {Pending(p)} /\ versions' = versions \cup {Pending(p) + 1}
    /\ lock' = None
    /\ at' = [at EXCEPT ![p] = Pending(p)]
    /\ Goto(p, Resume(Pending(p)))
    /\ UNCHANGED <<tracked, rows, alone>>

Commit(p) ==
    /\ pc[p] = "commit"
    /\ schema' = schema \cup {Pending(p)} /\ versions' = versions \cup {Pending(p)}
    /\ lock' = None
    /\ at' = [at EXCEPT ![p] = Pending(p)]
    /\ Goto(p, Resume(Pending(p)))
    /\ UNCHANGED <<tracked, rows, alone>>

\* EnsureTenant("default") reads the row that the last migration inserted.
EnsureDefault(p) ==
    /\ pc[p] = "ensure" /\ Last \in schema
    /\ Goto(p, "ready")
    /\ UNCHANGED <<at, lock, schema, versions, tracked, rows, alone>>

\* RecordUsage, once the program serves.
StoreUsage(p) ==
    /\ pc[p] = "ready" /\ ~rows /\ lock = None
    /\ rows' = TRUE
    /\ UNCHANGED <<pc, at, lock, schema, versions, tracked, alone>>

\* SQLITE_BUSY: a statement that would be the first to write meets another process's write.
Busy(p) ==
    /\ pc[p] \in {"open", "exec"} \/ (pc[p] = "record" /\ lock # p)
    /\ Others(p) # {}

\* A duplicate column, a table that is not there, a row without a bucket, a version that has
\* its row already.
Clashes(p) ==
    \/ pc[p] = "exec" /\ ~Applies(Pending(p)) /\ ~DoesNothing(Pending(p))
    \/ pc[p] = "record" /\ Pending(p) \in versions
    \/ pc[p] = "ensure" /\ Last \notin schema

\* A statement fails: the transaction is rolled back, the database closed, and the
\* command ends with the error.
Refuse(p) ==
    /\ Busy(p) \/ Clashes(p)
    /\ lock' = Unlocked(p)
    /\ Goto(p, "failed")
    /\ UNCHANGED <<at, schema, versions, tracked, rows, alone>>

\* The process is killed, or its command is done.
Stop(p) ==
    /\ pc[p] \notin Down
    /\ lock' = Unlocked(p)
    /\ Goto(p, "off")
    /\ UNCHANGED <<at, schema, versions, tracked, rows, alone>>

Step(p) ==
    \/ Start(p) \/ CreateTable(p) \/ ReadVersion(p) \/ Exec(p) \/ Record(p) \/ Commit(p)
    \/ EnsureDefault(p) \/ StoreUsage(p) \/ Refuse(p) \/ Stop(p)

Next == \E p \in Procs : Step(p)

Spec == Init /\ [][Next]_vars

-----------------------------------------------------------------------------
(* Properties *)

\* Whoever dies or is refused, and wherever (migrations.go:164-184), the committed schema
\* is a prefix of the migrations, and schema_migrations names exactly that prefix: MAX(version)
\* alone, which is all a later start looks at, then says which migrations are missing.
VersionsMatchSchema == \E k \in 0..Last : versions = 1..k /\ schema = 1..k

\* A process that serves (sqlite.go:53) does so on the complete schema, although it read the
\* version once, before others may have migrated, and never looks again.
ReadyIsComplete == \A p \in Procs : pc[p] = "ready" => schema = 1..Last

\* An earlier release's file whose usage no start can get past: a backfill is still to come.
Stuck == rows /\ Backfills \ schema # {}

\* Migrations two and three cannot be applied twice (ALTER TABLE ... ADD COLUMN,
\* migrations.go:44,76), so a half-recorded one would lock everybody out for good.  No
\* sequence of crashes and races leaves such a database: a process that has been alone since
\* its start is refused for one reason only, usage rows of an earlier release that the third
\* migration cannot copy (migrations.go:103-141).
LoneStartSucceeds == \A p \in Procs : pc[p] = "failed" /\ alone[p] => Stuck
=============================================================================
