------------------------- MODULE TenantAccessProofs -------------------------
(***************************************************************************)
(* Proofs about TenantAccess, for any tenants, keys, requests and          *)
(* commands.  Every table only grows: a row keeps what it says of another  *)
(* (Grows).  What an actor has learnt from the tables therefore stays true *)
(* while others act (RequestStable, ProcessStable), and only the actor's   *)
(* own steps remain.                                                       *)
(***************************************************************************)
EXTENDS TenantAccess, TLAPS

-----------------------------------------------------------------------------
(* The inductive invariant *)

\* Where a task is, or will be when EnsureTenant returns.
Heading(t) == IF t.pc \in {"get", "create", "getagain"} THEN t.then ELSE t.pc

\* A tenant id in a task, once EnsureTenant has returned, is that of its slug's row.
GoodTenant(t) ==
    /\ t.pc \in {"mint", "insert"} => Exists(t.slug) /\ t.id = tenants[t.slug].id
    /\ t.pc = "getagain" => Exists(t.slug)

\* What key, slug and view of an authenticated request have to do with each other.
Bound(t) ==
    /\ ~t.dead
    /\ keys[t.cred].status # "none"
    /\ Exists(t.slug) /\ tenants[t.slug].id = keys[t.cred].tenant
    /\ \A row \in t.view : row[1] = keys[t.cred].tenant

GoodRequest(t) ==
    /\ Heading(t) \notin {"command", "mint"}
    /\ t.view \subseteq usage
    /\ t.pc \in {"idle", "auth"} => t.view = {}
    /\ t.cred \in Keys /\ t.dead => Ended(t.cred)
    /\ MultiTenant /\ t.cred \in Keys /\ t.pc \notin {"idle", "auth"} => Bound(t)

GoodProcess(t) ==
    /\ Heading(t) \in {"idle", "command", "mint", "insert"}
    /\ t.verb \in {"mint", "revoke"} <=> t.cred \in Keys
    /\ Heading(t) = "mint" => t.verb = "mint"
    /\ Heading(t) = "insert" => t.verb = "track"
    /\ t.verb = "revoke" => keys[t.cred].status # "none"

\* A key that is being minted has no row, and is minted once.
GoodMints ==
    \A p \in Processes : task[p].verb = "mint" =>
        /\ keys[task[p].cred].status = "none"
        /\ \A q \in Processes : task[q].verb = "mint" /\ task[q].cred = task[p].cred => q = p

GoodTables ==
    /\ \A s \in Slugs : tenants[s].id < nextId
    /\ \A s, t \in Slugs : Exists(s) /\ tenants[s].id = tenants[t].id => s = t
    /\ \A k \in Keys : keys[k].status # "none" => keys[k].tenant # 0
    /\ MultiTenant => \A row \in usage : row[2] \in Keys =>
          keys[row[2]].status # "none" /\ row[1] = keys[row[2]].tenant

\* What an actor may rely on.
Good(a) ==
    /\ GoodTenant(task[a])
    /\ a \in Requests => GoodRequest(task[a])
    /\ a \in Processes => GoodProcess(task[a])

IInv == TypeOK /\ GoodTables /\ GoodMints /\ \A a \in Actors : Good(a)

\* No step takes back what a row says.
Grows ==
    /\ \A s \in Slugs : Exists(s) =>
          tenants'[s].id = tenants[s].id /\ (~tenants[s].active => ~tenants'[s].active)
    /\ \A k \in Keys : keys[k].status # "none" =>
          /\ keys'[k].tenant = keys[k].tenant /\ keys'[k].status # "none"
          /\ keys[k].status = "revoked" => keys'[k].status = "revoked"
    /\ usage \subseteq usage'

-----------------------------------------------------------------------------
(* Types *)

\* The idle task is a task.
LEMMA IdleTaskType == IdleTask \in Task
BY SlugsAssumption DEF IdleTask, Task, PCs, Thens, Verbs, Creds

\* Initially everything has its type.
LEMMA InitTypeOK == Init => TypeOK
BY IdleTaskType DEF Init, TypeOK, Tenant, Key, NoRow

\* Every action keeps the types.
LEMMA NextTypeOK == TypeOK /\ [Next]_vars => TypeOK'
<1> SUFFICES ASSUME TypeOK, [Next]_vars PROVE TypeOK'
  OBVIOUS
<1> USE IdleTaskType
<1>t. \A a \in Actors : task[a] \in Task
  BY DEF TypeOK
<1>b. ASSUME NEW a \in Actors, NEW t \in Task, Become(a, t) PROVE task' \in [Actors -> Task]
  BY <1>b DEF Become, TypeOK
<1>e. ASSUME NEW a \in Actors, NEW t \in Task, NEW s \in Slugs, NEW then \in Thens, Ensure(a, t, s, then)
      PROVE  task' \in [Actors -> Task]
  <2>1. [t EXCEPT !.pc = "get", !.then = then, !.slug = s, !.id = 0] \in Task
    BY DEF Task, PCs
  <2>2. QED
    BY <1>b, <1>e, <2>1 DEF Ensure
<1>f. ASSUME NEW a \in Actors, Found(a) PROVE task' \in [Actors -> Task]
  <2>1. tenants[task[a].slug].id \in Nat
    BY <1>t DEF TypeOK, Task, Tenant
  <2>2. [task[a] EXCEPT !.pc = task[a].then, !.id = tenants[task[a].slug].id] \in Task
    BY <1>t, <2>1 DEF Task, PCs, Thens
  <2>3. QED
    BY <1>b, <1>f, <2>2 DEF Found
<1>n. ASSUME NEW s, tenants' = [tenants EXCEPT ![s] = [id |-> nextId, active |-> TRUE]], nextId' = nextId + 1
      PROVE  tenants' \in [Slugs -> Tenant] /\ nextId' \in Nat \ {0}
  <2> DEFINE row == [id |-> nextId, active |-> TRUE]
  <2>1. row \in Tenant /\ nextId + 1 \in Nat \ {0}
    BY DEF TypeOK, Tenant
  <2>2. tenants' = [tenants EXCEPT ![s] = row]
    BY <1>n
  <2> HIDE DEF row
  <2>3. QED
    BY <1>n, <2>1, <2>2 DEF TypeOK
<1>1. ASSUME NEW r \in Requests, Arrive(r) PROVE TypeOK'
  <2>1. PICK c \in Creds \ {"cli"}, v \in {"proxy", "report"} :
           Become(r, [IdleTask EXCEPT !.pc = "auth", !.verb = v, !.cred = c,
                         !.dead = c \in Keys /\ Ended(c)])
    BY <1>1 DEF Arrive
  <2> DEFINE d == c \in Keys /\ Ended(c)
             j == [IdleTask EXCEPT !.pc = "auth", !.verb = v, !.cred = c, !.dead = d]
  <2>2. d \in BOOLEAN
    OBVIOUS
  <2>3. Become(r, j)
    BY <2>1
  <2> HIDE DEF d
  <2>4. j \in Task
    BY <2>2 DEF Task, PCs, Verbs
  <2> HIDE DEF j
  <2>5. QED
    BY <1>1, <2>3, <2>4, <1>b DEF Arrive, TypeOK, tables, Actors
<1>2. ASSUME NEW r \in Requests, AuthDefault(r) PROVE TypeOK'
  BY <1>2, <1>t, <1>e, SlugsAssumption DEF AuthDefault, TypeOK, Thens, tables, Actors
<1>3. ASSUME NEW r \in Requests, AuthKey(r) PROVE TypeOK'
  <2>1. UNCHANGED <<tables, begun>>
    BY <1>3 DEF AuthKey
  <2>2. CASE Finish(r)
    BY <2>1, <2>2, <1>b DEF Finish, TypeOK, tables, Actors
  <2>3. ASSUME NEW s \in Slugs,
               Become(r, [task[r] EXCEPT !.pc = "touch", !.slug = s, !.id = tenants[s].id])
        PROVE  TypeOK'
    <3> DEFINE j == [task[r] EXCEPT !.pc = "touch", !.slug = s, !.id = tenants[s].id]
    <3>1. tenants[s].id \in Nat
      BY DEF TypeOK, Tenant
    <3>2. j \in Task
      BY <1>t, <3>1 DEF Task, PCs, Actors
    <3>3. Become(r, j)
      BY <2>3
    <3> HIDE DEF j
    <3>4. QED
      BY <2>1, <3>2, <3>3, <1>b DEF TypeOK, tables, Actors
  <2>4. QED
    BY <1>3, <2>2, <2>3 DEF AuthKey
<1>4. ASSUME NEW r \in Requests, Touch(r) PROVE TypeOK'
  BY <1>4, <1>t DEF Touch, Goto, Become, TypeOK, Task, PCs, tables, Actors
<1>5. ASSUME NEW r \in Requests, Proxied(r) PROVE TypeOK'
  <2>1. task[r] \in Task /\ task[r].slug \in Slugs
    BY <1>t DEF Actors, Task
  <2>2. QED
    BY <1>5, <2>1, <1>e DEF Proxied, TypeOK, Thens, tables, Actors
<1>6. ASSUME NEW r \in Requests, Report(r) PROVE TypeOK'
  <2>1. PICK asked \in Slugs : Become(r, [task[r] EXCEPT !.pc = "reply", !.view = RowsOf(asked)])
    BY <1>6 DEF Report
  <2> DEFINE j == [task[r] EXCEPT !.pc = "reply", !.view = RowsOf(asked)]
  <2>2. RowsOf(asked) \in SUBSET Row
    BY DEF RowsOf, TypeOK
  <2>3. Become(r, j)
    BY <2>1
  <2>4. j \in Task
    BY <1>t, <2>2 DEF Task, PCs, Actors
  <2> HIDE DEF j
  <2>5. QED
    BY <1>6, <2>3, <2>4, <1>b DEF Report, TypeOK, tables, Actors
<1>7. ASSUME NEW r \in Requests, Reply(r) PROVE TypeOK'
  BY <1>7, <1>t DEF Reply, Finish, Become, TypeOK, tables, Actors
<1>8. ASSUME NEW p \in Processes, Start(p) PROVE TypeOK'
  <2>1. PICK v \in Verbs, s \in Slugs, c \in Keys \cup {"cli"} :
           Ensure(p, [IdleTask EXCEPT !.verb = v, !.cred = c, !.target = s], Default, "command")
    BY <1>8 DEF Start
  <2> DEFINE j == [IdleTask EXCEPT !.verb = v, !.cred = c, !.target = s]
  <2>2. j \in Task
    BY DEF Task, Creds
  <2>3. Ensure(p, j, Default, "command")
    BY <2>1
  <2> HIDE DEF j
  <2>4. QED
    BY <1>8, <2>2, <2>3, <1>e, SlugsAssumption DEF Start, TypeOK, Thens, tables, Actors
<1>9. ASSUME NEW p \in Processes, CreateTenant(p) PROVE TypeOK'
  <2>1. task' \in [Actors -> Task]
    BY <1>9, <1>b DEF CreateTenant, Finish, Actors
  <2>2. tenants' \in [Slugs -> Tenant] /\ nextId' \in Nat \ {0}
    BY <1>9, <1>n DEF CreateTenant, TypeOK
  <2>3. QED
    BY <1>9, <2>1, <2>2 DEF CreateTenant, TypeOK
<1>10. ASSUME NEW p \in Processes, DisableTenant(p) PROVE TypeOK'
  BY <1>10, <1>t DEF DisableTenant, Finish, Become, TypeOK, Tenant, Actors
<1>11. ASSUME NEW p \in Processes, RevokeAPIKey(p) PROVE TypeOK'
  BY <1>11, <1>t DEF RevokeAPIKey, Finish, Become, TypeOK, Key, Actors
<1>12. ASSUME NEW p \in Processes, ResolveTenant(p) PROVE TypeOK'
  <2>1. task[p] \in Task /\ task[p].target \in Slugs
    BY <1>t DEF Actors, Task
  <2>2. QED
    BY <1>12, <2>1, <1>e DEF ResolveTenant, TypeOK, Thens, tables, Actors
<1>13. ASSUME NEW p \in Processes, InsertKey(p) PROVE TypeOK'
  BY <1>13, <1>t DEF InsertKey, Finish, Become, TypeOK, Key, Task, Actors
<1>14. ASSUME NEW a \in Actors, GetTenant(a) PROVE TypeOK'
  <2>1. CASE Found(a)
    BY <1>14, <2>1, <1>f DEF GetTenant, TypeOK, tables
  <2>2. CASE Goto(a, "create")
    <3>1. [task[a] EXCEPT !.pc = "create"] \in Task
      BY <1>t DEF Task, PCs
    <3>2. QED
      BY <1>14, <2>2, <3>1, <1>b DEF GetTenant, Goto, TypeOK, tables
  <2>3. QED
    BY <1>14, <2>1, <2>2 DEF GetTenant
<1>15. ASSUME NEW a \in Actors, InsertTenant(a) PROVE TypeOK'
  <2>1. nextId \in Nat \ {0} /\ nextId + 1 \in Nat \ {0}
    BY DEF TypeOK
  <2>2. CASE Exists(task[a].slug)
    <3>1. [task[a] EXCEPT !.pc = "getagain"] \in Task
      BY <1>t DEF Task, PCs
    <3>2. QED
      BY <1>15, <2>2, <3>1, <1>b DEF InsertTenant, Goto, TypeOK
  <2>3. CASE ~Exists(task[a].slug)
    <3> DEFINE j == [task[a] EXCEPT !.pc = task[a].then, !.id = nextId]
    <3>1. j \in Task
      BY <1>t, <2>1 DEF Task, PCs, Thens
    <3>2. Become(a, j)
      BY <1>15, <2>3 DEF InsertTenant
    <3>3. tenants' \in [Slugs -> Tenant] /\ nextId' \in Nat \ {0}
      BY <1>15, <1>n, <2>3 DEF InsertTenant
    <3> HIDE DEF j
    <3>4. QED
      BY <1>15, <3>1, <3>2, <3>3, <1>b DEF InsertTenant, TypeOK
  <2>4. QED
    BY <2>2, <2>3
<1>16. ASSUME NEW a \in Actors, GetAgain(a) PROVE TypeOK'
  BY <1>16, <1>f DEF GetAgain, TypeOK, tables
<1>17. ASSUME NEW a \in Actors, InsertUsage(a) PROVE TypeOK'
  BY <1>17, <1>t DEF InsertUsage, Finish, Become, TypeOK, Task, Row
<1>18. ASSUME NEW a \in Actors, Fails(a) PROVE TypeOK'
  BY <1>18, <1>t DEF Fails, Finish, Become, TypeOK, tables
<1>19. ASSUME UNCHANGED vars PROVE TypeOK'
  BY <1>19 DEF vars, tables, TypeOK
<1>20. QED
  BY <1>1, <1>2, <1>3, <1>4, <1>5, <1>6, <1>7, <1>8, <1>9, <1>10, <1>11, <1>12, <1>13,
     <1>14, <1>15, <1>16, <1>17, <1>18, <1>19 DEF Next, Request, Command, Quiet

\* TypeOK is an invariant: the tables and the tasks keep their types.
THEOREM TenantTypes == Spec => []TypeOK
<1>1. QED
  BY InitTypeOK, NextTypeOK, PTL DEF Spec

-----------------------------------------------------------------------------
(* The tables *)

\* Steps that leave the tables alone take nothing back.
LEMMA SameGrows == ASSUME UNCHANGED tables PROVE Grows
BY DEF tables, Grows, Exists

\* A tenant is inserted only where there is none.
LEMMA NewTenantGrows ==
  ASSUME TypeOK, NEW s \in Slugs, ~Exists(s),
         tenants' = [tenants EXCEPT ![s] = [id |-> nextId, active |-> TRUE]],
         UNCHANGED <<keys, usage>>
  PROVE  Grows
<1>1. \A t \in Slugs : Exists(t) => tenants'[t] = tenants[t]
  BY DEF TypeOK, Exists
<1>2. QED
  BY <1>1 DEF Grows

\* A process that mints a key has its tenant, and the key has no row yet.
LEMMA Minting ==
  ASSUME IInv, NEW p \in Processes, task[p].pc = "mint"
  PROVE  /\ task[p].cred \in Keys /\ keys[task[p].cred].status = "none"
         /\ task[p].verb = "mint" /\ task[p].id \in Nat \ {0}
<1>1. Good(p) /\ task[p] \in Task
  BY DEF IInv, TypeOK, Actors
<1>2. task[p].verb = "mint" /\ task[p].cred \in Keys
  BY <1>1 DEF Good, GoodProcess, Heading
<1>3. task[p].id \in Nat \ {0}
  BY <1>1 DEF Good, GoodTenant, Exists, Task
<1>4. QED
  BY <1>2, <1>3 DEF IInv, GoodMints

\* No step of the system takes back what a row says.
LEMMA NextGrows == ASSUME IInv, [Next]_vars PROVE Grows
<1>1. ASSUME NEW r \in Requests, Request(r) PROVE Grows
  BY <1>1, SameGrows DEF Request, Arrive, AuthDefault, AuthKey, Touch, Proxied, Report, Reply
<1>2. ASSUME NEW p \in Processes, Start(p) \/ ResolveTenant(p) PROVE Grows
  BY <1>2, SameGrows DEF Start, ResolveTenant
<1>3. ASSUME NEW p \in Processes, CreateTenant(p) PROVE Grows
  <2>1. task[p].target \in Slugs
    BY DEF IInv, TypeOK, Task, Actors
  <2>2. QED
    BY <1>3, <2>1, SameGrows, NewTenantGrows DEF CreateTenant, IInv, tables
<1>4. ASSUME NEW p \in Processes, DisableTenant(p) PROVE Grows
  BY <1>4 DEF DisableTenant, Grows, IInv, TypeOK, Tenant, Exists
<1>5. ASSUME NEW p \in Processes, RevokeAPIKey(p) PROVE Grows
  BY <1>5 DEF RevokeAPIKey, Grows, IInv, TypeOK, Key, Exists
<1>6. ASSUME NEW p \in Processes, InsertKey(p) PROVE Grows
  <2>1. keys[task[p].cred].status = "none"
    BY <1>6, Minting DEF InsertKey
  <2>2. QED
    BY <1>6, <2>1 DEF InsertKey, Grows, IInv, TypeOK, Key, Exists
<1>7. ASSUME NEW a \in Actors, GetTenant(a) \/ GetAgain(a) \/ Fails(a) PROVE Grows
  BY <1>7, SameGrows DEF GetTenant, GetAgain, Fails
<1>8. ASSUME NEW a \in Actors, InsertTenant(a) PROVE Grows
  <2>1. task[a].slug \in Slugs
    BY DEF IInv, TypeOK, Task
  <2>2. QED
    BY <1>8, <2>1, SameGrows, NewTenantGrows DEF InsertTenant, IInv, tables
<1>9. ASSUME NEW a \in Actors, InsertUsage(a) PROVE Grows
  BY <1>9 DEF InsertUsage, Grows, Exists
<1>10. ASSUME UNCHANGED vars PROVE Grows
  BY <1>10, SameGrows DEF vars
<1>11. QED
  BY <1>1, <1>2, <1>3, <1>4, <1>5, <1>6, <1>7, <1>8, <1>9, <1>10 DEF Next, Command, Quiet

\* Steps that leave the tables alone keep what is said of them.
LEMMA SameTables == ASSUME GoodTables, UNCHANGED tables PROVE GoodTables'
BY DEF GoodTables, tables, Exists

\* A new tenant's id is nobody else's.
LEMMA NewTenantTables ==
  ASSUME TypeOK, GoodTables, NEW s \in Slugs, ~Exists(s),
         tenants' = [tenants EXCEPT ![s] = [id |-> nextId, active |-> TRUE]],
         nextId' = nextId + 1, UNCHANGED <<keys, usage>>
  PROVE  GoodTables'
<1>1. /\ tenants'[s].id = nextId
      /\ \A t \in Slugs \ {s} : tenants'[t] = tenants[t]
      /\ \A t \in Slugs : tenants[t].id \in Nat /\ tenants[t].id < nextId
      /\ nextId \in Nat
  BY DEF TypeOK, GoodTables, Tenant
<1>2. \A t \in Slugs : tenants'[t].id < nextId'
  BY <1>1
<1>3. \A t, u \in Slugs : Exists(t)' /\ tenants'[t].id = tenants'[u].id => t = u
  BY <1>1 DEF GoodTables, Exists
<1>4. QED
  BY <1>2, <1>3 DEF GoodTables

\* A row that is recorded on a key carries that key's tenant.
LEMMA NewRow ==
  ASSUME IInv, NEW a \in Actors, task[a].pc = "insert", MultiTenant, task[a].cred \in Keys
  PROVE  keys[task[a].cred].status # "none" /\ task[a].id = keys[task[a].cred].tenant
<1>1. Good(a)
  BY DEF IInv
<1>2. a \notin Processes
  BY <1>1 DEF Good, GoodProcess, Heading
<1>3. Bound(task[a])
  BY <1>1, <1>2 DEF Good, GoodRequest, Actors
<1>4. QED
  BY <1>1, <1>3 DEF Good, GoodTenant, Bound

\* Every action keeps what is said of the tables.
LEMMA NextTables == ASSUME IInv, [Next]_vars PROVE GoodTables'
<1> USE DEF IInv
<1>1. ASSUME NEW r \in Requests, Request(r) PROVE GoodTables'
  BY <1>1, SameTables DEF Request, Arrive, AuthDefault, AuthKey, Touch, Proxied, Report, Reply
<1>2. ASSUME NEW p \in Processes, Start(p) \/ ResolveTenant(p) PROVE GoodTables'
  BY <1>2, SameTables DEF Start, ResolveTenant
<1>3. ASSUME NEW p \in Processes, CreateTenant(p) PROVE GoodTables'
  <2>1. task[p].target \in Slugs
    BY DEF TypeOK, Task, Actors
  <2>2. QED
    BY <1>3, <2>1, SameTables, NewTenantTables DEF CreateTenant, tables
<1>4. ASSUME NEW p \in Processes, DisableTenant(p) PROVE GoodTables'
  <2>1. \A s \in Slugs : tenants'[s].id = tenants[s].id
    BY <1>4 DEF DisableTenant, TypeOK, Tenant
  <2>2. QED
    BY <1>4, <2>1 DEF DisableTenant, GoodTables, Exists
<1>5. ASSUME NEW p \in Processes, RevokeAPIKey(p) PROVE GoodTables'
  <2>1. Good(p) /\ task[p].verb = "revoke"
    BY <1>5 DEF RevokeAPIKey, Actors
  <2>2. task[p].cred \in Keys /\ keys[task[p].cred].status # "none"
    BY <2>1 DEF Good, GoodProcess
  <2>3. \A k \in Keys : keys'[k].tenant = keys[k].tenant /\ (keys'[k].status = "none" <=> keys[k].status = "none")
    BY <1>5, <2>2 DEF RevokeAPIKey, TypeOK, Key
  <2>4. QED
    BY <1>5, <2>3 DEF RevokeAPIKey, GoodTables, Exists
<1>6. ASSUME NEW p \in Processes, InsertKey(p) PROVE GoodTables'
  <2> DEFINE k == task[p].cred
  <2>1. k \in Keys /\ keys[k].status = "none" /\ task[p].id # 0
    BY <1>6, Minting DEF InsertKey
  <2>2. keys'[k].tenant = task[p].id /\ \A l \in Keys \ {k} : keys'[l] = keys[l]
    BY <1>6, <2>1 DEF InsertKey, TypeOK
  <2>3. QED
    BY <1>6, <2>1, <2>2 DEF InsertKey, GoodTables, Exists
<1>7. ASSUME NEW a \in Actors, GetTenant(a) \/ GetAgain(a) \/ Fails(a) PROVE GoodTables'
  BY <1>7, SameTables DEF GetTenant, GetAgain, Fails
<1>8. ASSUME NEW a \in Actors, InsertTenant(a) PROVE GoodTables'
  <2>1. task[a].slug \in Slugs
    BY DEF TypeOK, Task
  <2>2. QED
    BY <1>8, <2>1, SameTables, NewTenantTables DEF InsertTenant, tables
<1>9. ASSUME NEW a \in Actors, InsertUsage(a) PROVE GoodTables'
  <2> DEFINE row == <<task[a].id, task[a].cred>>
  <2>1. usage' = usage \cup {row} /\ UNCHANGED <<tenants, keys, nextId>>
    BY <1>9 DEF InsertUsage
  <2>2. MultiTenant /\ row[2] \in Keys => keys[row[2]].status # "none" /\ row[1] = keys[row[2]].tenant
    BY <1>9, NewRow DEF InsertUsage
  <2> HIDE DEF row
  <2>3. QED
    BY <2>1, <2>2 DEF GoodTables, Exists
<1>10. ASSUME UNCHANGED vars PROVE GoodTables'
  BY <1>10, SameTables DEF vars
<1>11. QED
  BY <1>1, <1>2, <1>3, <1>4, <1>5, <1>6, <1>7, <1>8, <1>9, <1>10 DEF Next, Command, Quiet

-----------------------------------------------------------------------------
(* The tasks *)

\* An ended key stays ended.
LEMMA EndedStable ==
  ASSUME TypeOK', GoodTables, Grows, NEW k \in Keys, Ended(k)
  PROVE  Ended(k)'
<1>1. CASE keys[k].status = "revoked"
  BY <1>1 DEF Ended, Grows
<1>2. CASE keys[k].status = "active"
  <2>1. PICK s \in Slugs : tenants[s].id = keys[k].tenant /\ ~tenants[s].active
    BY <1>2 DEF Ended
  <2>2. tenants'[s].id = keys'[k].tenant /\ ~tenants'[s].active
    BY <1>2, <2>1 DEF GoodTables, Grows, Exists
  <2>3. keys'[k].status \in {"active", "revoked"}
    BY <1>2 DEF Grows, TypeOK, Key
  <2>4. QED
    BY <2>2, <2>3 DEF Ended
<1>3. QED
  BY <1>1, <1>2 DEF Ended

\* What an actor has learnt stays true while others act.
LEMMA OthersGood ==
  ASSUME IInv, TypeOK', Grows, NEW a \in Actors, task'[a] = task[a]
  PROVE  Good(a)'
<1>1. Good(a) /\ task[a] \in Task
  BY DEF IInv, TypeOK
<1>2. Exists(task[a].slug) => Exists(task[a].slug)' /\ tenants'[task[a].slug].id = tenants[task[a].slug].id
  BY <1>1 DEF Grows, Exists, Task
<1>3. GoodTenant(task[a])'
  BY <1>1, <1>2 DEF Good, GoodTenant
<1>4. ASSUME a \in Requests PROVE GoodRequest(task[a])'
  <2>1. GoodRequest(task[a])
    BY <1>1, <1>4 DEF Good
  <2>2. task[a].cred \in Keys /\ task[a].dead => Ended(task[a].cred)'
    BY <2>1, EndedStable DEF GoodRequest, IInv
  <2>3. task[a].cred \in Keys /\ Bound(task[a]) => Bound(task[a])'
    BY <1>2 DEF Bound, Grows
  <2>4. task[a].view \subseteq usage'
    BY <2>1 DEF GoodRequest, Grows
  <2>5. QED
    BY <2>1, <2>2, <2>3, <2>4 DEF GoodRequest, Heading
<1>5. ASSUME a \in Processes PROVE GoodProcess(task[a])'
  BY <1>1, <1>5 DEF Good, GoodProcess, Grows, Heading
<1>6. QED
  BY <1>3, <1>4, <1>5 DEF Good

\* An actor that has finished relies on nothing.
LEMMA IdleGood == ASSUME NEW a \in Actors, task'[a] = IdleTask PROVE Good(a)'
BY CredsAssumption DEF Good, GoodTenant, GoodRequest, GoodProcess, Heading, IdleTask

\* A step of actor a leaves what the others rely on.
LEMMA StepGood ==
  ASSUME IInv, TypeOK', Grows, NEW a \in Actors, NEW t, Become(a, t), Good(a)'
  PROVE  \A b \in Actors : Good(b)'
<1>1. ASSUME NEW b \in Actors PROVE Good(b)'
  <2>1. CASE b = a
    BY <2>1
  <2>2. CASE b # a
    <3>1. task'[b] = task[b]
      BY <2>2 DEF Become, IInv, TypeOK
    <3>2. QED
      BY <3>1, OthersGood
  <2>3. QED
    BY <2>1, <2>2
<1>2. QED
  BY <1>1

\* The step that ends a task.
LEMMA FinishGood ==
  ASSUME IInv, TypeOK', Grows, NEW a \in Actors, Finish(a)
  PROVE  \A b \in Actors : Good(b)'
<1>1. task'[a] = IdleTask
  BY DEF Finish, Become, IInv, TypeOK
<1>2. Become(a, IdleTask)
  BY DEF Finish
<1>3. QED
  BY <1>1, <1>2, IdleGood, StepGood

\* EnsureTenant starts: what matters of the task is kept.
LEMMA EnsureGood ==
  ASSUME IInv, TypeOK', Grows, NEW a \in Actors, NEW s, NEW then, Ensure(a, task[a], s, then),
         a \in Requests =>
            /\ task[a].pc \notin {"idle", "auth"} \/ task[a].view = {}
            /\ then \in {"serve", "insert"}
            /\ MultiTenant /\ task[a].cred \in Keys => s = task[a].slug /\ task[a].pc \notin {"idle", "auth"}
         , a \in Processes =>
            /\ then \in {"mint", "insert"}
            /\ then = "mint" => task[a].verb = "mint"
            /\ then = "insert" => task[a].verb = "track"
  PROVE  \A b \in Actors : Good(b)'
<1> DEFINE t == [task[a] EXCEPT !.pc = "get", !.then = then, !.slug = s, !.id = 0]
<1>1. Become(a, t)
  BY DEF Ensure
<1>2. task'[a] = t
  BY <1>1 DEF Become, IInv, TypeOK
<1>3. task[a] \in Task /\ Good(a)
  BY DEF IInv, TypeOK
<1>4. /\ task'[a].pc = "get" /\ task'[a].then = then /\ task'[a].slug = s
      /\ task'[a].verb = task[a].verb /\ task'[a].cred = task[a].cred
      /\ task'[a].dead = task[a].dead /\ task'[a].view = task[a].view
  BY <1>2, <1>3 DEF Task
<1> HIDE DEF t
<1>5. GoodTenant(task[a])'
  BY <1>4 DEF GoodTenant
<1>6. ASSUME a \in Requests PROVE GoodRequest(task[a])'
  <2>1. GoodRequest(task[a])
    BY <1>3, <1>6 DEF Good
  <2>2. (task[a].cred \in Keys /\ task[a].dead => Ended(task[a].cred))'
    <3>1. \A k \in Keys : Ended(k) => Ended(k)'
      BY EndedStable DEF IInv
    <3>2. task[a].cred \in Keys /\ task[a].dead => Ended(task[a].cred)
      BY <2>1 DEF GoodRequest
    <3>3. QED
      BY <1>4, <3>1, <3>2 DEF Ended
  <2>3. task[a].view \subseteq usage'
    BY <2>1 DEF GoodRequest, Grows
  <2>4. MultiTenant /\ task[a].cred \in Keys => Bound(task[a]) /\ s = task[a].slug
    BY <1>6, <2>1 DEF GoodRequest
  <2>5. (MultiTenant /\ task[a].cred \in Keys => Bound(task[a]))'
    BY <1>3, <1>4, <2>4 DEF Bound, Grows, Exists, Task
  <2>6. QED
    BY <1>4, <1>6, <2>2, <2>3, <2>5 DEF GoodRequest, Heading
<1>7. ASSUME a \in Processes PROVE GoodProcess(task[a])'
  BY <1>3, <1>4, <1>7 DEF Good, GoodProcess, Grows, Heading
<1>8. QED
  BY <1>1, <1>5, <1>6, <1>7, StepGood DEF Good

\* A task that changes in nothing but where it stands and which id it holds.
LEMMA MoveGood ==
  ASSUME IInv, TypeOK', Grows, NEW a \in Actors, NEW pc, NEW id,
         Become(a, [task[a] EXCEPT !.pc = pc, !.id = id]),
         task[a].pc \notin {"idle", "auth"},
         \/ Heading(task[a])' = Heading(task[a])
         \/ a \notin Processes /\ Heading(task[a])' = "serve",
         GoodTenant(task[a])'
  PROVE  \A b \in Actors : Good(b)'
<1> DEFINE t == [task[a] EXCEPT !.pc = pc, !.id = id]
<1>1. Become(a, t)
  OBVIOUS
<1>2. task'[a] = t
  BY <1>1 DEF Become, IInv, TypeOK
<1>3. task[a] \in Task /\ Good(a)
  BY DEF IInv, TypeOK
<1>4. /\ task'[a].slug = task[a].slug /\ task'[a].verb = task[a].verb /\ task'[a].cred = task[a].cred
      /\ task'[a].dead = task[a].dead /\ task'[a].view = task[a].view /\ task'[a].pc = pc
  BY <1>2, <1>3 DEF Task
<1> HIDE DEF t
<1>5. ASSUME a \in Requests PROVE GoodRequest(task[a])'
  <2>1. GoodRequest(task[a])
    BY <1>3, <1>5 DEF Good
  <2>2. (task[a].cred \in Keys /\ task[a].dead => Ended(task[a].cred))'
    <3>1. \A k \in Keys : Ended(k) => Ended(k)'
      BY EndedStable DEF IInv
    <3>2. task[a].cred \in Keys /\ task[a].dead => Ended(task[a].cred)
      BY <2>1 DEF GoodRequest
    <3>3. QED
      BY <1>4, <3>1, <3>2 DEF Ended
  <2>3. task[a].view \subseteq usage'
    BY <2>1 DEF GoodRequest, Grows
  <2>4. MultiTenant /\ task[a].cred \in Keys => Bound(task[a])
    BY <2>1 DEF GoodRequest
  <2>5. (MultiTenant /\ task[a].cred \in Keys => Bound(task[a]))'
    BY <1>3, <1>4, <2>4 DEF Bound, Grows, Exists, Task
  <2>6. Heading(task[a])' \notin {"command", "mint", "idle", "auth"} \/ task[a].pc = "idle"
    BY <1>3, <2>1 DEF GoodRequest, Heading, Task, Thens
  <2>7. pc \notin {"idle", "auth"}
    BY <1>3, <1>4, <2>6 DEF Heading, Task, Thens
  <2>8. QED
    BY <1>4, <2>1, <2>2, <2>3, <2>5, <2>7 DEF GoodRequest
<1>6. ASSUME a \in Processes PROVE GoodProcess(task[a])'
  BY <1>3, <1>4, <1>6 DEF Good, GoodProcess, Grows
<1>7. QED
  BY <1>1, <1>5, <1>6, StepGood DEF Good

\* EnsureTenant returns.
LEMMA FoundGood ==
  ASSUME IInv, TypeOK', Grows, NEW a \in Actors, task[a].pc \in {"get", "getagain"},
         Exists(task[a].slug), Found(a), UNCHANGED tenants
  PROVE  \A b \in Actors : Good(b)'
<1>1. task[a] \in Task
  BY DEF IInv, TypeOK
<1>2. /\ task'[a].pc = task[a].then /\ task'[a].id = tenants[task[a].slug].id
      /\ task'[a].slug = task[a].slug /\ task'[a].then = task[a].then
  BY <1>1 DEF Found, Become, IInv, TypeOK, Task
<1>3. GoodTenant(task[a])'
  BY <1>1, <1>2 DEF GoodTenant, Exists, Task, Thens
<1>4. Heading(task[a])' = Heading(task[a])
  BY <1>1, <1>2 DEF Heading, Task, Thens
<1>5. QED
  BY <1>3, <1>4, MoveGood DEF Found

\* As MoveGood, when the id stays too.
LEMMA GotoGood ==
  ASSUME IInv, TypeOK', Grows, NEW a \in Actors, NEW pc, Goto(a, pc),
         task[a].pc \notin {"idle", "auth"},
         \/ pc \in {"create", "getagain"} /\ task[a].pc \in {"get", "create"}
         \/ pc = "serve" /\ task[a].pc = "touch" /\ a \notin Processes,
         pc = "getagain" => Exists(task[a].slug), UNCHANGED tenants
  PROVE  \A b \in Actors : Good(b)'
<1>1. task[a] \in Task
  BY DEF IInv, TypeOK
<1>2. [task[a] EXCEPT !.pc = pc] = [task[a] EXCEPT !.pc = pc, !.id = task[a].id]
  BY <1>1 DEF Task
<1>3. Become(a, [task[a] EXCEPT !.pc = pc, !.id = task[a].id])
  BY <1>2 DEF Goto
<1>4. task'[a].pc = pc /\ task'[a].slug = task[a].slug /\ task'[a].then = task[a].then
  BY <1>1 DEF Goto, Become, IInv, TypeOK, Task
<1>5. GoodTenant(task[a])'
  BY <1>4 DEF GoodTenant, Exists
<1>6. \/ Heading(task[a])' = Heading(task[a])
      \/ a \notin Processes /\ Heading(task[a])' = "serve"
  BY <1>4 DEF Heading
<1>7. QED
  BY <1>3, <1>5, <1>6, MoveGood

\* Every action leaves every actor what it relies on.
LEMMA NextGood == ASSUME IInv, [Next]_vars PROVE \A b \in Actors : Good(b)'
<1>0. TypeOK' /\ Grows
  BY NextTypeOK, NextGrows DEF IInv
<1>t. \A a \in Actors : task[a] \in Task /\ Good(a)
  BY DEF IInv, TypeOK
<1>c. \A c : c \in Keys => c \notin {"bootstrap", "missing", "cli"}
  BY CredsAssumption
<1>r. \A r \in Requests : r \in Actors /\ r \notin Processes
  BY ActorsAssumption DEF Actors
<1>p. \A p \in Processes : p \in Actors /\ p \notin Requests
  BY ActorsAssumption DEF Actors
<1>1. ASSUME NEW r \in Requests, Arrive(r) PROVE \A b \in Actors : Good(b)'
  <2>1. PICK c \in Creds \ {"cli"}, v \in {"proxy", "report"} :
           Become(r, [IdleTask EXCEPT !.pc = "auth", !.verb = v, !.cred = c,
                         !.dead = c \in Keys /\ Ended(c)])
    BY <1>1 DEF Arrive
  <2>2. /\ task'[r].pc = "auth" /\ task'[r].cred = c /\ task'[r].view = {}
        /\ task'[r].dead = (c \in Keys /\ Ended(c))
    BY <2>1, <1>r DEF Become, IInv, TypeOK, IdleTask
  <2>3. Ended(c)' = Ended(c)
    BY <1>1 DEF Arrive, tables, Ended
  <2>4. (task[r].cred \in Keys /\ task[r].dead => Ended(task[r].cred))'
    BY <2>2, <2>3 DEF Ended
  <2>5. Good(r)'
    BY <1>r, <2>2, <2>4 DEF Good, GoodTenant, GoodRequest, Heading
  <2>6. QED
    BY <1>0, <1>r, <2>1, <2>5, StepGood
<1>2. ASSUME NEW r \in Requests, AuthDefault(r) PROVE \A b \in Actors : Good(b)'
  <2>1. GoodRequest(task[r]) /\ task[r].pc = "auth"
    BY <1>2, <1>r, <1>t DEF Good, AuthDefault
  <2>2. task[r].view = {} /\ ~(MultiTenant /\ task[r].cred \in Keys)
    BY <1>2, <1>c, <2>1 DEF GoodRequest, AuthDefault, Admin
  <2>3. QED
    BY <1>0, <1>2, <1>r, <2>2, EnsureGood DEF AuthDefault
<1>3. ASSUME NEW r \in Requests, AuthKey(r) PROVE \A b \in Actors : Good(b)'
  <2>1. CASE Finish(r)
    BY <1>0, <1>r, <2>1, FinishGood
  <2>2. ASSUME NEW s \in Slugs, task[r].cred \in Keys, Valid(task[r].cred, s),
               Become(r, [task[r] EXCEPT !.pc = "touch", !.slug = s, !.id = tenants[s].id])
        PROVE  \A b \in Actors : Good(b)'
    <3>1. GoodRequest(task[r]) /\ task[r].pc = "auth" /\ UNCHANGED tables
      BY <1>3, <1>r, <1>t DEF Good, AuthKey
    <3>2. /\ task'[r].pc = "touch" /\ task'[r].slug = s /\ task'[r].cred = task[r].cred
          /\ task'[r].dead = task[r].dead /\ task'[r].view = {}
      BY <1>r, <1>t, <2>2, <3>1 DEF Become, IInv, TypeOK, Task, GoodRequest
    <3>3. ~Ended(task[r].cred)
      BY <2>2 DEF Ended, Valid, Exists, IInv, GoodTables
    <3>4. ~task[r].dead
      BY <2>2, <3>1, <3>3 DEF GoodRequest
    <3>5. Bound(task[r])'
      BY <2>2, <3>1, <3>2, <3>4 DEF Bound, Valid, Exists, tables
    <3>6. Good(r)'
      BY <1>r, <3>2, <3>4, <3>5 DEF Good, GoodTenant, GoodRequest, Heading
    <3>7. QED
      BY <1>0, <1>r, <2>2, <3>6, StepGood
  <2>3. QED
    BY <1>3, <2>1, <2>2 DEF AuthKey
<1>4. ASSUME NEW r \in Requests, Touch(r) PROVE \A b \in Actors : Good(b)'
  BY <1>0, <1>4, <1>r, GotoGood DEF Touch, tables
<1>5. ASSUME NEW r \in Requests, Proxied(r) PROVE \A b \in Actors : Good(b)'
  BY <1>0, <1>5, <1>r, EnsureGood DEF Proxied
<1>6. ASSUME NEW r \in Requests, Report(r) PROVE \A b \in Actors : Good(b)'
  <2>1. PICK asked \in Slugs :
           /\ Admin(r) \/ asked = task[r].slug
           /\ Become(r, [task[r] EXCEPT !.pc = "reply", !.view = RowsOf(asked)])
    BY <1>6 DEF Report
  <2>2. GoodRequest(task[r]) /\ task[r].pc = "serve" /\ UNCHANGED tables
    BY <1>6, <1>r, <1>t DEF Good, Report
  <2>3. /\ task'[r].pc = "reply" /\ task'[r].slug = task[r].slug /\ task'[r].cred = task[r].cred
        /\ task'[r].dead = task[r].dead /\ task'[r].view = RowsOf(asked)
    BY <1>r, <1>t, <2>1 DEF Become, IInv, TypeOK, Task
  <2>4. (task[r].cred \in Keys /\ task[r].dead => Ended(task[r].cred))'
    BY <2>2, <2>3 DEF GoodRequest, Ended, tables
  <2>5. (MultiTenant /\ task[r].cred \in Keys => Bound(task[r]))'
    <3>1. ASSUME MultiTenant, task[r].cred \in Keys PROVE Bound(task[r])'
      <4>1. asked = task[r].slug /\ Bound(task[r])
        BY <1>c, <2>1, <2>2, <3>1 DEF Admin, GoodRequest
      <4>2. \A row \in RowsOf(asked) : row[1] = keys[task[r].cred].tenant
        BY <4>1 DEF RowsOf, Bound
      <4>3. QED
        BY <2>2, <2>3, <4>1, <4>2 DEF Bound, tables, Exists
    <3>2. QED
      BY <2>3, <3>1
  <2>6. RowsOf(asked) \subseteq usage'
    BY <2>2 DEF RowsOf, tables
  <2>7. Good(r)'
    BY <1>r, <2>3, <2>4, <2>5, <2>6 DEF Good, GoodTenant, GoodRequest, Heading
  <2>8. QED
    BY <1>0, <1>r, <2>1, <2>7, StepGood
<1>7. ASSUME NEW r \in Requests, Reply(r) PROVE \A b \in Actors : Good(b)'
  BY <1>0, <1>7, <1>r, FinishGood DEF Reply
<1>8. ASSUME NEW p \in Processes, Start(p) PROVE \A b \in Actors : Good(b)'
  <2>1. PICK v \in Verbs, s \in Slugs, c \in Keys \cup {"cli"} :
           /\ \/ v \in {"create", "disable", "track"} /\ c = "cli"
              \/ v = "mint" /\ c \in Keys /\ Fresh(c)
              \/ v = "revoke" /\ c \in Keys /\ keys[c].status # "none" /\ s = Default
           /\ Ensure(p, [IdleTask EXCEPT !.verb = v, !.cred = c, !.target = s], Default, "command")
    BY <1>8 DEF Start
  <2>2. /\ task'[p].pc = "get" /\ task'[p].then = "command"
        /\ task'[p].verb = v /\ task'[p].cred = c
    BY <1>p, <2>1 DEF Ensure, Become, IInv, TypeOK, IdleTask
  <2>3. GoodProcess(task[p])'
    BY <1>8, <1>c, <2>1, <2>2 DEF Start, GoodProcess, Heading, tables
  <2>4. Good(p)'
    BY <1>p, <2>2, <2>3 DEF Good, GoodTenant
  <2>5. QED
    BY <1>0, <1>p, <2>1, <2>4, StepGood DEF Ensure
<1>9. ASSUME NEW p \in Processes, CreateTenant(p) \/ DisableTenant(p) \/ RevokeAPIKey(p) \/ InsertKey(p)
      PROVE  \A b \in Actors : Good(b)'
  BY <1>0, <1>9, <1>p, FinishGood DEF CreateTenant, DisableTenant, RevokeAPIKey, InsertKey
<1>10. ASSUME NEW p \in Processes, ResolveTenant(p) PROVE \A b \in Actors : Good(b)'
  BY <1>0, <1>10, <1>p, EnsureGood DEF ResolveTenant
<1>11. ASSUME NEW a \in Actors, GetTenant(a) PROVE \A b \in Actors : Good(b)'
  <2>1. task[a].pc = "get" /\ UNCHANGED tenants
    BY <1>11 DEF GetTenant, tables
  <2>2. CASE Exists(task[a].slug) /\ Found(a)
    BY <1>0, <2>1, <2>2, FoundGood
  <2>3. CASE Goto(a, "create")
    BY <1>0, <2>1, <2>3, GotoGood
  <2>4. QED
    BY <1>11, <2>2, <2>3 DEF GetTenant
<1>12. ASSUME NEW a \in Actors, InsertTenant(a) PROVE \A b \in Actors : Good(b)'
  <2>1. CASE Exists(task[a].slug)
    BY <1>0, <1>12, <2>1, GotoGood DEF InsertTenant
  <2>2. CASE ~Exists(task[a].slug)
    <3>1. /\ tenants' = [tenants EXCEPT ![task[a].slug] = [id |-> nextId, active |-> TRUE]]
          /\ Become(a, [task[a] EXCEPT !.pc = task[a].then, !.id = nextId])
          /\ task[a].pc = "create"
      BY <1>12, <2>2 DEF InsertTenant
    <3>2. task[a].slug \in Slugs /\ nextId # 0 /\ task[a].then \in Thens
      BY <1>t DEF IInv, TypeOK, Task
    <3>3. /\ task'[a].pc = task[a].then /\ task'[a].id = nextId
          /\ task'[a].slug = task[a].slug /\ task'[a].then = task[a].then
      BY <1>t, <3>1 DEF Become, IInv, TypeOK, Task
    <3>4. tenants'[task[a].slug].id = nextId
      BY <3>1, <3>2 DEF IInv, TypeOK
    <3>5. GoodTenant(task[a])'
      BY <3>2, <3>3, <3>4 DEF GoodTenant, Exists, Thens
    <3>6. Heading(task[a])' = Heading(task[a])
      BY <3>1, <3>2, <3>3 DEF Heading, Thens
    <3>7. QED
      BY <1>0, <3>1, <3>5, <3>6, MoveGood
  <2>3. QED
    BY <2>1, <2>2
<1>13. ASSUME NEW a \in Actors, GetAgain(a) PROVE \A b \in Actors : Good(b)'
  <2>1. Exists(task[a].slug)
    BY <1>13, <1>t DEF GetAgain, Good, GoodTenant
  <2>2. QED
    BY <1>0, <1>13, <2>1, FoundGood DEF GetAgain, tables
<1>14. ASSUME NEW a \in Actors, InsertUsage(a) \/ Fails(a) PROVE \A b \in Actors : Good(b)'
  BY <1>0, <1>14, FinishGood DEF InsertUsage, Fails
<1>15. ASSUME UNCHANGED vars PROVE \A b \in Actors : Good(b)'
  BY <1>0, <1>15, OthersGood DEF vars
<1>16. QED
  BY <1>1, <1>2, <1>3, <1>4, <1>5, <1>6, <1>7, <1>8, <1>9, <1>10, <1>11, <1>12, <1>13,
     <1>14, <1>15 DEF Next, Request, Command, Quiet

-----------------------------------------------------------------------------
(* Keys being minted *)

\* Nobody starts minting, and no minted key gets its row: the keys being minted stay fresh.
LEMMA SameMints ==
  ASSUME IInv,
         \A p \in Processes : task'[p].verb = "mint" =>
            /\ task[p].verb = "mint" /\ task'[p].cred = task[p].cred
            /\ keys'[task[p].cred].status = keys[task[p].cred].status
  PROVE  GoodMints'
BY DEF IInv, GoodMints

\* The steps of EnsureTenant keep a task's verb and credentials, the last step of a task
\* ends them.
LEMMA StepVerbs ==
  ASSUME TypeOK, NEW a \in Actors,
         \/ Finish(a) \/ Found(a)
         \/ \E pc \in PCs : Goto(a, pc)
         \/ \E s \in Slugs, then \in Thens : Ensure(a, task[a], s, then)
         \/ Become(a, [task[a] EXCEPT !.pc = task[a].then, !.id = nextId])
  PROVE  \A p \in Processes : task'[p].verb = "mint" =>
            task[p].verb = "mint" /\ task'[p].cred = task[p].cred
<1>1. task[a] \in Task /\ IdleTask.verb = "proxy"
  BY DEF TypeOK, IdleTask
<1>2. \A p \in Processes : p \in Actors /\ (p # a => task'[p] = task[p])
  BY DEF Finish, Found, Goto, Ensure, Become, TypeOK, Actors
<1>3. task'[a].verb = "mint" => task[a].verb = "mint" /\ task'[a].cred = task[a].cred
  <2>1. CASE Finish(a)
    BY <1>1, <2>1 DEF Finish, Become, TypeOK
  <2>2. CASE Found(a)
    BY <1>1, <2>2 DEF Found, Become, TypeOK, Task
  <2>3. CASE \E pc \in PCs : Goto(a, pc)
    BY <1>1, <2>3 DEF Goto, Become, TypeOK, Task
  <2>4. CASE \E s \in Slugs, then \in Thens : Ensure(a, task[a], s, then)
    BY <1>1, <2>4 DEF Ensure, Become, TypeOK, Task
  <2>5. CASE Become(a, [task[a] EXCEPT !.pc = task[a].then, !.id = nextId])
    BY <1>1, <2>5 DEF Become, TypeOK, Task
  <2>6. QED
    BY <2>1, <2>2, <2>3, <2>4, <2>5
<1>4. QED
  BY <1>2, <1>3

\* Every action keeps the keys being minted fresh, and minted by one command each.
LEMMA NextMints == ASSUME IInv, [Next]_vars PROVE GoodMints'
<1>t. TypeOK /\ GoodMints /\ \A a \in Actors : task[a] \in Task
  BY DEF IInv, TypeOK
<1>p. \A p \in Processes : p \in Actors /\ p \notin Requests
  BY ActorsAssumption DEF Actors
<1>1. ASSUME NEW r \in Requests, Request(r) PROVE GoodMints'
  <2>1. \A p \in Processes : task'[p] = task[p]
    BY <1>1, <1>p, <1>t DEF Request, Arrive, AuthDefault, AuthKey, Touch, Proxied, Report, Reply,
                            Ensure, Goto, Finish, Become, TypeOK
  <2>2. keys' = keys
    BY <1>1 DEF Request, Arrive, AuthDefault, AuthKey, Touch, Proxied, Report, Reply, tables
  <2>3. QED
    BY <2>1, <2>2, SameMints
<1>2. ASSUME NEW p \in Processes, Start(p) PROVE GoodMints'
  <2>1. PICK v \in Verbs, s \in Slugs, c \in Keys \cup {"cli"} :
           /\ v = "mint" => c \in Keys /\ Fresh(c)
           /\ Ensure(p, [IdleTask EXCEPT !.verb = v, !.cred = c, !.target = s], Default, "command")
    BY <1>2 DEF Start
  <2>2. task'[p].verb = v /\ task'[p].cred = c /\ \A q \in Processes \ {p} : task'[q] = task[q]
    BY <1>p, <2>1 DEF Ensure, Become, IInv, TypeOK, IdleTask
  <2>3. keys' = keys
    BY <1>2 DEF Start, tables
  <2>4. QED
    BY <1>t, <2>1, <2>2, <2>3 DEF GoodMints, Fresh
<1>3. ASSUME NEW p \in Processes, CreateTenant(p) \/ DisableTenant(p) PROVE GoodMints'
  BY <1>3, <1>p, <1>t, StepVerbs, SameMints DEF CreateTenant, DisableTenant
<1>4. ASSUME NEW p \in Processes, RevokeAPIKey(p) PROVE GoodMints'
  <2>1. keys[task[p].cred].status # "none"
    BY <1>4, <1>p DEF RevokeAPIKey, IInv, Good, GoodProcess
  <2>2. \A k \in Keys : k # task[p].cred => keys'[k] = keys[k]
    BY <1>4, <1>t DEF RevokeAPIKey, TypeOK
  <2>3. \A q \in Processes : task'[q].verb = "mint" => task[q].verb = "mint" /\ task'[q].cred = task[q].cred
    BY <1>4, <1>p, <1>t, StepVerbs DEF RevokeAPIKey
  <2>4. \A q \in Processes : task[q].verb = "mint" => task[q].cred \in Keys /\ keys[task[q].cred].status = "none"
    BY <1>p DEF IInv, Good, GoodProcess, GoodMints
  <2>5. QED
    BY <2>1, <2>2, <2>3, <2>4, SameMints
<1>5. ASSUME NEW p \in Processes, ResolveTenant(p) PROVE GoodMints'
  <2>1. \E s \in Slugs, then \in Thens : Ensure(p, task[p], s, then)
    BY <1>5, <1>p, <1>t DEF ResolveTenant, Task, Thens
  <2>2. QED
    BY <1>5, <1>p, <1>t, <2>1, StepVerbs, SameMints DEF ResolveTenant, tables
<1>6. ASSUME NEW p \in Processes, InsertKey(p) PROVE GoodMints'
  <2>1. task[p].verb = "mint" /\ task[p].cred \in Keys
    BY <1>6, Minting DEF InsertKey
  <2>2. task'[p].verb = "proxy" /\ \A q \in Processes \ {p} : task'[q] = task[q]
    BY <1>6, <1>p, <1>t DEF InsertKey, Finish, Become, TypeOK, IdleTask
  <2>3. \A k \in Keys : k # task[p].cred => keys'[k] = keys[k]
    BY <1>6, <1>t DEF InsertKey, TypeOK
  <2>4. \A q \in Processes \ {p} : task[q].verb = "mint" => task[q].cred \in Keys /\ task[q].cred # task[p].cred
    BY <1>p, <1>t, <2>1 DEF IInv, Good, GoodProcess, GoodMints
  <2>5. QED
    BY <2>2, <2>3, <2>4, SameMints
<1>7. ASSUME NEW a \in Actors, GetTenant(a) \/ GetAgain(a) \/ InsertTenant(a) \/ InsertUsage(a) \/ Fails(a)
      PROVE  GoodMints'
  <2>1. keys' = keys
    BY <1>7 DEF GetTenant, GetAgain, InsertTenant, InsertUsage, Fails, tables
  <2>2. \/ Finish(a) \/ Found(a) \/ \E pc \in PCs : Goto(a, pc)
        \/ Become(a, [task[a] EXCEPT !.pc = task[a].then, !.id = nextId])
    BY <1>7 DEF GetTenant, GetAgain, InsertTenant, InsertUsage, Fails, PCs
  <2>3. QED
    BY <1>t, <2>1, <2>2, StepVerbs, SameMints
<1>8. ASSUME UNCHANGED vars PROVE GoodMints'
  BY <1>8, SameMints DEF vars, tables
<1>9. QED
  BY <1>1, <1>2, <1>3, <1>4, <1>5, <1>6, <1>7, <1>8 DEF Next, Command, Quiet

-----------------------------------------------------------------------------
(* The properties *)

\* The invariant holds initially.
LEMMA InitIInv == Init => IInv
<1> SUFFICES ASSUME Init PROVE IInv
  OBVIOUS
<1>1. TypeOK
  BY InitTypeOK
<1>2. GoodTables
  BY DEF Init, GoodTables, Exists, NoRow
<1>3. GoodMints
  BY DEF Init, GoodMints, IdleTask, Actors
<1>4. \A a \in Actors : Good(a)
  BY CredsAssumption DEF Init, Good, GoodTenant, GoodRequest, GoodProcess, Heading, IdleTask
<1>5. QED
  BY <1>1, <1>2, <1>3, <1>4 DEF IInv

\* It is inductive.
LEMMA InvariantHolds == Spec => []IInv
<1>1. IInv /\ [Next]_vars => IInv'
  BY NextTypeOK, NextTables, NextMints, NextGood DEF IInv
<1>2. QED
  BY InitIInv, <1>1, PTL DEF Spec

\* EnsuredIsTheRow: out of EnsureTenant comes the one row of the slug, for any number of
\* requests and commands racing through it.
THEOREM EnsuredRows == Spec => []EnsuredIsTheRow
<1>1. IInv => EnsuredIsTheRow
  BY DEF IInv, GoodTables, Good, GoodTenant, EnsuredIsTheRow, Exists
<1>2. QED
  BY InvariantHolds, <1>1, PTL

\* UsageBelongsToKey: usage recorded on a key belongs to the tenant it was minted for.
THEOREM UsageIsOwned == Spec => []UsageBelongsToKey
<1>1. IInv => UsageBelongsToKey
  BY DEF IInv, GoodTables, UsageBelongsToKey
<1>2. QED
  BY InvariantHolds, <1>1, PTL

\* ReportsAreIsolated: a report on a key shows nothing recorded for another tenant.
THEOREM ReportsIsolated == Spec => []ReportsAreIsolated
<1>1. IInv => ReportsAreIsolated
  <2> SUFFICES ASSUME IInv, MultiTenant, NEW r \in Requests, task[r].pc = "reply",
                      task[r].cred \in Keys, NEW row \in task[r].view
               PROVE  /\ row[1] = keys[task[r].cred].tenant
                      /\ row[2] \in Keys => keys[row[2]].tenant = keys[task[r].cred].tenant
    BY DEF ReportsAreIsolated
  <2>1. GoodRequest(task[r])
    BY DEF IInv, Good, Actors
  <2>2. row \in usage /\ row[1] = keys[task[r].cred].tenant
    BY <2>1 DEF GoodRequest, Bound
  <2>3. row[2] \in Keys => row[1] = keys[row[2]].tenant
    BY <2>2 DEF IInv, GoodTables
  <2>4. QED
    BY <2>2, <2>3
<1>2. QED
  BY InvariantHolds, <1>1, PTL

\* DeadKeysAreRefused: a request that came in after its key had ended is not served on it.
THEOREM DeadKeysRefused == Spec => []DeadKeysAreRefused
<1>1. IInv => DeadKeysAreRefused
  BY DEF IInv, Good, GoodRequest, Bound, DeadKeysAreRefused, Actors
<1>2. QED
  BY InvariantHolds, <1>1, PTL

\* Every key that was minted has a tenant.
Owned == \A k \in Keys : keys[k].status # "none" =>
            \E s \in Slugs : Exists(s) /\ tenants[s].id = keys[k].tenant

\* Rows only grow, and a new key takes the id that EnsureTenant came out with.
LEMMA OwnedStep == IInv /\ Owned /\ [Next]_vars => Owned'
<1> SUFFICES ASSUME IInv, Owned, [Next]_vars, NEW k \in Keys, keys'[k].status # "none"
             PROVE  \E s \in Slugs : Exists(s)' /\ tenants'[s].id = keys'[k].tenant
  BY DEF Owned
<1>1. Grows
  BY NextGrows
<1>2. CASE keys[k].status # "none"
  <2>1. PICK s \in Slugs : Exists(s) /\ tenants[s].id = keys[k].tenant
    BY <1>2 DEF Owned
  <2>2. tenants'[s].id = tenants[s].id /\ keys'[k].tenant = keys[k].tenant
    BY <1>1, <1>2, <2>1 DEF Grows
  <2> QED BY <2>1, <2>2 DEF Exists
<1>3. CASE keys[k].status = "none"
  <2>1. keys' # keys
    BY <1>3
  <2>2. PICK p \in Processes : RevokeAPIKey(p) \/ InsertKey(p)
    BY <2>1 DEF Next, Request, Command, Arrive, AuthDefault, AuthKey, Touch, Proxied, Report, Reply,
       Start, CreateTenant, DisableTenant, ResolveTenant, GetTenant, InsertTenant, GetAgain,
       InsertUsage, Fails, Quiet, tables, vars
  <2>3. p \in Actors /\ Good(p) /\ TypeOK
    BY DEF IInv, Actors
  <2>4. k = task[p].cred
    BY <1>3, <2>2, <2>3 DEF RevokeAPIKey, InsertKey, TypeOK
  <2>5. ~RevokeAPIKey(p)
    BY <1>3, <2>3, <2>4 DEF RevokeAPIKey, Good, GoodProcess
  <2>6. keys'[k].tenant = task[p].id /\ tenants' = tenants /\ task[p].pc = "mint"
    BY <2>2, <2>3, <2>4, <2>5 DEF InsertKey, TypeOK
  <2>7. task[p].slug \in Slugs /\ Exists(task[p].slug) /\ task[p].id = tenants[task[p].slug].id
    BY <2>3, <2>6 DEF Good, GoodTenant, TypeOK, Task
  <2> QED BY <2>6, <2>7 DEF Exists
<1> QED BY <1>2, <1>3

\* LiveKeysResolve: no race through EnsureTenant leaves a key without its tenant, or with
\* two.
THEOREM LiveKeysAreResolved == Spec => []LiveKeysResolve
<1>1. Init => Owned
  BY DEF Init, Owned
<1>2. IInv /\ Owned => LiveKeysResolve
  <2> SUFFICES ASSUME IInv, Owned, NEW k \in Keys, keys[k].status = "active", ~Ended(k)
               PROVE  \E s \in Slugs : Valid(k, s) /\ \A t \in Slugs : Valid(k, t) => t = s
    BY DEF LiveKeysResolve
  <2>1. PICK s \in Slugs : Exists(s) /\ tenants[s].id = keys[k].tenant
    BY DEF Owned
  <2>2. tenants[s].active
    BY <2>1 DEF Ended
  <2>3. \A t \in Slugs : Valid(k, t) => t = s
    BY <2>1 DEF Valid, IInv, GoodTables
  <2> QED BY <2>1, <2>2, <2>3 DEF Valid
<1> QED
  BY InvariantHolds, OwnedStep, <1>1, <1>2, PTL DEF Spec

\* EndsAreFinal: no step takes a tenant's id away or brings back what was ended.
THEOREM EndsStayFinal == Spec => EndsAreFinal
<1>1. ASSUME IInv, [Next]_vars
      PROVE  [ /\ \A s \in Slugs : Exists(s) =>
                     /\ tenants'[s].id = tenants[s].id
                     /\ ~tenants[s].active => ~tenants'[s].active
               /\ \A k \in Keys : keys[k].status = "revoked" => keys'[k].status = "revoked" ]_vars
  BY <1>1, NextGrows DEF Grows
<1>2. QED
  BY InvariantHolds, <1>1, PTL DEF Spec, EndsAreFinal
=============================================================================
