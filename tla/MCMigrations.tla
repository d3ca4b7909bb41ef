---------------------------- MODULE MCMigrations ----------------------------
(* The three migrations of the repository, of which only the first is       *)
(* IF NOT EXISTS throughout, and three processes that come and go.          *)
EXTENDS Migrations, TLC

ProcSymmetry == Permutations(Procs)
=============================================================================
