------------------------- MODULE MCServiceLifecycle -------------------------
(* Three requests: one may be answered, one lost and one hang at once.      *)
EXTENDS ServiceLifecycle
=============================================================================
