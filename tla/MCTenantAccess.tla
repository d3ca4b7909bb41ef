--------------------------- MODULE MCTenantAccess ---------------------------
(* Two tenants, a key for each, a request on a key racing two commands.    *)
EXTENDS TenantAccess, TLC

\* Keys are interchangeable, and so are actors of a kind; no property is a liveness one.
MCSymmetry == Permutations(Keys) \cup Permutations(Requests) \cup Permutations(Processes)
=============================================================================
