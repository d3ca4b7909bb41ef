---------------------------- MODULE TenantAccess ----------------------------
(***************************************************************************)
(* Tenants, API keys and whose usage is whose: the tenants and api_keys    *)
(* tables (pkg/storage/sqlite.go), the middleware that turns a key into an *)
(* identity (internal/httpauth), the handlers that record and report under *)
(* that identity (internal/proxy, internal/server), and the commands that  *)
(* create, disable, mint and revoke (internal/cli), each a process of its  *)
(* own on the same file.  As everywhere in this program, a statement is a  *)
(* transaction and nothing holds two together.                             *)
(***************************************************************************)
EXTENDS Integers

CONSTANTS
    Slugs, Default, \* normalised tenant slugs, and auth.default_tenant
    Keys,           \* raw API keys: those `lcg api-keys create` will generate
    Requests,       \* concurrent requests
    Processes,      \* concurrent lcg commands
    MultiTenant,    \* auth.multi_tenant_enabled
    MaxBegun        \* TLC bound on requests and commands

Actors == Requests \cup Processes
Creds == Keys \cup {"bootstrap", "missing", "cli"}

ASSUME SlugsAssumption == Default \in Slugs
ASSUME ActorsAssumption == Requests \cap Processes = {}
ASSUME CredsAssumption == Keys \cap {"bootstrap", "missing", "cli"} = {}
ASSUME SwitchAssumption == MultiTenant \in BOOLEAN /\ MaxBegun \in Nat

VARIABLES
    tenants, \* table tenants, by slug; id 0 is no row
    keys,    \* table api_keys, by key; status "none" is no row
    usage,   \* table usage_records: which tenant id, on whose credentials
    nextId,  \* the next uuid
    task,    \* what each actor is doing
    begun    \* requests and commands so far, for MaxBegun

tables == <<tenants, keys, usage, nextId>>
vars == <<tables, task, begun>>

PCs == {"idle", "auth", "touch", "get", "create", "getagain", "serve", "reply",
        "command", "mint", "insert"}
Thens == {"serve", "command", "mint", "insert"}
Verbs == {"proxy", "report", "create", "disable", "mint", "revoke", "track"}

Tenant == [id : Nat, active : BOOLEAN]
Key == [tenant : Nat, status : {"none", "active", "revoked"}]
Row == Nat \X Creds
\* slug and id: the tenant as far as it is known.  target: the tenant a command names.
\* dead: whether its key had ended when the request came in.  view: what a report shows.
Task == [pc : PCs, then : Thens, verb : Verbs, cred : Creds, slug : Slugs, id : Nat,
         target : Slugs, dead : BOOLEAN, view : SUBSET Row]

TypeOK ==
    /\ tenants \in [Slugs -> Tenant] /\ keys \in [Keys -> Key]
    /\ usage \subseteq Row /\ nextId \in Nat \ {0}
    /\ task \in [Actors -> Task] /\ begun \in Nat

NoRow == [id |-> 0, active |-> FALSE]
IdleTask == [pc |-> "idle", then |-> "serve", verb |-> "proxy", cred |-> "missing",
             slug |-> Default, id |-> 0, target |-> Default, dead |-> FALSE, view |-> {}]

Init ==
    /\ tenants = [s \in Slugs |-> NoRow]
    /\ keys = [k \in Keys |-> [tenant |-> 0, status |-> "none"]]
    /\ usage = {} /\ nextId = 1
    /\ task = [a \in Actors |-> IdleTask] /\ begun = 0

-----------------------------------------------------------------------------
Become(a, t) == task' = [task EXCEPT ![a] = t]
Goto(a, pc) == Become(a, [task[a] EXCEPT !.pc = pc])

\* An answer of any kind, or the end of the process.
Finish(a) == Become(a, IdleTask)

Exists(s) == tenants[s].id # 0

\* Mutant: the tenant's status is not asked for.
Valid_AnyTenant(k, s) == keys[k].status = "active" /\ Exists(s) /\ tenants[s].id = keys[k].tenant

\* ResolveAPIKey's join and WHERE: key k is active, belongs to tenant s, and so is s.
Valid(k, s) ==
    /\ keys[k].status = "active"
    /\ Exists(s) /\ tenants[s].id = keys[k].tenant
    /\ tenants[s].active

-----------------------------------------------------------------------------
(* EnsureTenant: look, insert, and look again if somebody else was first.  *)

\* What EnsureTenant(s) leaves of task t: on to `then` with the tenant's id.
Ensure(a, t, s, then) ==
    Become(a, [t EXCEPT !.pc = "get", !.then = then, !.slug = s, !.id = 0])

Found(a) == Become(a, [task[a] EXCEPT !.pc = task[a].then, !.id = tenants[task[a].slug].id])

\* Not found, or any other error: both lead to the insert.
GetTenant(a) ==
    /\ task[a].pc = "get"
    /\ \/ Exists(task[a].slug) /\ Found(a)
       \/ Goto(a, "create")
    /\ UNCHANGED <<tables, begun>>

\* Mutant: losing the race is taken for winning it.
InsertTenant_OwnId(a) ==
    LET s == task[a].slug IN
    /\ task[a].pc = "create"
    /\ tenants' = IF Exists(s) THEN tenants ELSE [tenants EXCEPT ![s] = [id |-> nextId, active |-> TRUE]]
    /\ nextId' = nextId + 1
    /\ Become(a, [task[a] EXCEPT !.pc = task[a].then, !.id = nextId])
    /\ UNCHANGED <<keys, usage, begun>>

\* The insert; slug is UNIQUE.
InsertTenant(a) ==
    LET s == task[a].slug IN
    /\ task[a].pc = "create"
    /\ \/ /\ ~Exists(s)
          /\ tenants' = [tenants EXCEPT ![s] = [id |-> nextId, active |-> TRUE]]
          /\ nextId' = nextId + 1
          /\ Become(a, [task[a] EXCEPT !.pc = task[a].then, !.id = nextId])
       \/ Exists(s) /\ Goto(a, "getagain") /\ UNCHANGED <<tenants, nextId>>
    /\ UNCHANGED <<keys, usage, begun>>

GetAgain(a) ==
    /\ task[a].pc = "getagain"
    /\ Found(a)
    /\ UNCHANGED <<tables, begun>>

\* A statement fails (SQLite is busy, the client is gone), or the upstream does: 401, an
\* error answer, a usage record that is logged as lost, or the command's error.
Fails(a) ==
    /\ task[a].pc \in {"auth", "touch", "create", "getagain", "serve", "command", "mint", "insert"}
    /\ Finish(a)
    /\ UNCHANGED <<tables, begun>>

-----------------------------------------------------------------------------
(* Requests *)

\* For the history: key k is revoked, or its tenant disabled.
Ended(k) ==
    \/ keys[k].status = "revoked"
    \/ /\ keys[k].status = "active"
       /\ \E s \in Slugs : tenants[s].id = keys[k].tenant /\ ~tenants[s].active

\* A request with credentials of its own choice reaches a proxy that has been started,
\* which includes EnsureTenant(Default).
Arrive(r) ==
    /\ task[r].pc = "idle" /\ begun < MaxBegun /\ Exists(Default)
    /\ \E c \in Creds \ {"cli"}, v \in {"proxy", "report"} :
          Become(r, [IdleTask EXCEPT !.pc = "auth", !.verb = v, !.cred = c,
                        !.dead = c \in Keys /\ Ended(c)])
    /\ begun' = begun + 1
    /\ UNCHANGED tables

\* Without multi-tenancy, or with the bootstrap key, everybody is the default tenant's admin.
Admin(r) == ~MultiTenant \/ task[r].cred = "bootstrap"

AuthDefault(r) ==
    /\ task[r].pc = "auth" /\ Admin(r)
    /\ Ensure(r, task[r], Default, "serve")
    /\ UNCHANGED <<tables, begun>>

\* The SELECT of ResolveAPIKey; no row is 401.
AuthKey(r) ==
    /\ task[r].pc = "auth" /\ ~Admin(r)
    /\ \/ /\ task[r].cred \in Keys
          /\ \E s \in Slugs :
                /\ Valid(task[r].cred, s)
                /\ Become(r, [task[r] EXCEPT !.pc = "touch", !.slug = s, !.id = tenants[s].id])
       \/ /\ task[r].cred \in Keys => \A s \in Slugs : ~Valid(task[r].cred, s)
          /\ Finish(r)
    /\ UNCHANGED <<tables, begun>>

\* UPDATE api_keys SET last_used_at: whatever has become of the key in the meantime.
Touch(r) ==
    /\ task[r].pc = "touch"
    /\ Goto(r, "serve")
    /\ UNCHANGED <<tables, begun>>

\* The proxied answer is there; RecordUsage knows the tenant by its slug only.
Proxied(r) ==
    /\ task[r].pc = "serve" /\ task[r].verb = "proxy"
    /\ Ensure(r, task[r], task[r].slug, "insert")
    /\ UNCHANGED <<tables, begun>>

RowsOf(s) == {row \in usage : row[1] = tenants[s].id}

\* Mutant: any caller may ask for any tenant.
Report_AnyTenant(r) ==
    /\ task[r].pc = "serve" /\ task[r].verb = "report"
    /\ \E asked \in Slugs :
          Become(r, [task[r] EXCEPT !.pc = "reply", !.view = RowsOf(asked)])
    /\ UNCHANGED <<tables, begun>>

\* tenantFilterFromRequest and the query: an admin may ask for any tenant.
Report(r) ==
    /\ task[r].pc = "serve" /\ task[r].verb = "report"
    /\ \E asked \in Slugs :
          /\ Admin(r) \/ asked = task[r].slug
          /\ Become(r, [task[r] EXCEPT !.pc = "reply", !.view = RowsOf(asked)])
    /\ UNCHANGED <<tables, begun>>

Reply(r) ==
    /\ task[r].pc = "reply"
    /\ Finish(r)
    /\ UNCHANGED <<tables, begun>>

-----------------------------------------------------------------------------
(* Commands *)

\* A key just drawn from crypto/rand is nobody else's.
Fresh(k) ==
    keys[k].status = "none" /\ \A q \in Processes : task[q].verb = "mint" => task[q].cred # k

\* Every command starts like the proxy, with EnsureTenant(Default).
Start(p) ==
    /\ task[p].pc = "idle" /\ begun < MaxBegun
    /\ \E v \in Verbs, s \in Slugs, c \in Keys \cup {"cli"} :
          /\ \/ v \in {"create", "disable", "track"} /\ c = "cli"
             \/ v = "mint" /\ c \in Keys /\ Fresh(c)
             \/ v = "revoke" /\ c \in Keys /\ keys[c].status # "none" /\ s = Default
          /\ Ensure(p, [IdleTask EXCEPT !.verb = v, !.cred = c, !.target = s], Default, "command")
    /\ begun' = begun + 1
    /\ UNCHANGED tables

\* Mutant: creating a tenant that is there replaces it.
CreateTenant_Replace(p) ==
    /\ task[p].pc = "command" /\ task[p].verb = "create"
    /\ tenants' = [tenants EXCEPT ![task[p].target] = [id |-> nextId, active |-> TRUE]]
    /\ nextId' = nextId + 1
    /\ Finish(p)
    /\ UNCHANGED <<keys, usage, begun>>

\* Mutant: creating a tenant that is there takes it into use again.
CreateTenant_Reactivate(p) ==
    LET s == task[p].target IN
    /\ task[p].pc = "command" /\ task[p].verb = "create"
    /\ tenants' = IF Exists(s) THEN [tenants EXCEPT ![s].active = TRUE]
                  ELSE [tenants EXCEPT ![s] = [id |-> nextId, active |-> TRUE]]
    /\ nextId' = nextId + 1
    /\ Finish(p)
    /\ UNCHANGED <<keys, usage, begun>>

\* `lcg tenants create`: an error if the slug is taken.
CreateTenant(p) ==
    LET s == task[p].target IN
    /\ task[p].pc = "command" /\ task[p].verb = "create"
    /\ IF Exists(s) THEN UNCHANGED <<tenants, nextId>>
       ELSE /\ tenants' = [tenants EXCEPT ![s] = [id |-> nextId, active |-> TRUE]]
            /\ nextId' = nextId + 1
    /\ Finish(p)
    /\ UNCHANGED <<keys, usage, begun>>

\* `lcg tenants disable`
DisableTenant(p) ==
    /\ task[p].pc = "command" /\ task[p].verb = "disable"
    /\ tenants' = [tenants EXCEPT ![task[p].target].active = FALSE]
    /\ Finish(p)
    /\ UNCHANGED <<keys, usage, nextId, begun>>

\* `lcg api-keys revoke`
RevokeAPIKey(p) ==
    /\ task[p].pc = "command" /\ task[p].verb = "revoke"
    /\ keys' = [keys EXCEPT ![task[p].cred].status = "revoked"]
    /\ Finish(p)
    /\ UNCHANGED <<tenants, usage, nextId, begun>>

\* `lcg api-keys create` and `lcg track`: the tenant they name is found, or created.
ResolveTenant(p) ==
    /\ task[p].pc = "command" /\ task[p].verb \in {"mint", "track"}
    /\ Ensure(p, task[p], task[p].target, IF task[p].verb = "mint" THEN "mint" ELSE "insert")
    /\ UNCHANGED <<tables, begun>>

\* Mutant: the status is stored as the caller left it, empty.
InsertKey_NoStatus(p) ==
    /\ task[p].pc = "mint"
    /\ keys' = [keys EXCEPT ![task[p].cred] = [tenant |-> task[p].id, status |-> ""]]
    /\ Finish(p)
    /\ UNCHANGED <<tenants, usage, nextId, begun>>

\* INSERT INTO api_keys
InsertKey(p) ==
    /\ task[p].pc = "mint"
    /\ keys' = [keys EXCEPT ![task[p].cred] = [tenant |-> task[p].id, status |-> "active"]]
    /\ Finish(p)
    /\ UNCHANGED <<tenants, usage, nextId, begun>>

\* INSERT INTO usage_records, of a request or of `lcg track`
InsertUsage(a) ==
    /\ task[a].pc = "insert"
    /\ usage' = usage \cup {<<task[a].id, task[a].cred>>}
    /\ Finish(a)
    /\ UNCHANGED <<tenants, keys, nextId, begun>>

-----------------------------------------------------------------------------
Request(r) ==
    \/ Arrive(r) \/ AuthDefault(r) \/ AuthKey(r) \/ Touch(r)
    \/ Proxied(r) \/ Report(r) \/ Reply(r)

Command(p) ==
    \/ Start(p) \/ CreateTenant(p) \/ DisableTenant(p) \/ RevokeAPIKey(p)
    \/ ResolveTenant(p) \/ InsertKey(p)

Quiet == (\A a \in Actors : task[a].pc = "idle") /\ UNCHANGED vars

Next ==
    \/ \E r \in Requests : Request(r)
    \/ \E p \in Processes : Command(p)
    \/ \E a \in Actors : GetTenant(a) \/ InsertTenant(a) \/ GetAgain(a) \/ InsertUsage(a) \/ Fails(a)
    \/ Quiet

Spec == Init /\ [][Next]_vars

-----------------------------------------------------------------------------
(* Properties *)

\* EnsureTenant looks and inserts without a transaction (sqlite.go:304-318), and requests
\* and commands race through it: whoever comes out of it with a tenant holds the one row
\* of that slug, and no two slugs share an id.
EnsuredIsTheRow ==
    /\ \A a \in Actors :
          task[a].pc \in {"mint", "insert"} => task[a].id = tenants[task[a].slug].id /\ task[a].id # 0
    /\ \A s, t \in Slugs : Exists(s) /\ tenants[s].id = tenants[t].id => s = t

\* A key names a tenant by id, the identity made of it names the tenant by slug, and the
\* usage row recorded under that identity by an id again, looked up minutes later
\* (sqlite.go:494, handler.go:197, sqlite.go:577).  The three always meet: usage on a key
\* belongs to the tenant the key was minted for.
UsageBelongsToKey ==
    MultiTenant => \A row \in usage : row[2] \in Keys => row[1] = keys[row[2]].tenant

\* A report on a key shows usage of the key's own tenant only, and so nothing that was
\* recorded on another tenant's key (README.md:74: "API-key based tenant isolation").
ReportsAreIsolated ==
    MultiTenant =>
        \A r \in Requests :
            task[r].pc = "reply" /\ task[r].cred \in Keys =>
                \A row \in task[r].view :
                    /\ row[1] = keys[task[r].cred].tenant
                    /\ row[2] \in Keys => keys[row[2]].tenant = keys[task[r].cred].tenant

\* A request that comes in when its key is revoked or its key's tenant disabled is not served
\* on that key, whatever happens to tenants and keys while it is being authenticated.
DeadKeysAreRefused ==
    MultiTenant =>
        \A r \in Requests :
            task[r].pc \in {"touch", "serve", "insert", "reply"} /\ task[r].cred \in Keys =>
                ~task[r].dead

\* The converse: a key is minted for an id that EnsureTenant came out with, perhaps out of a
\* race (sqlite.go:304-318), and resolved by joining that id to the tenants
\* (sqlite.go:494).  Until it is revoked or its tenant disabled the join finds it one
\* tenant, so that only a statement that fails refuses it.
LiveKeysResolve ==
    \A k \in Keys : keys[k].status = "active" =>
        \/ Ended(k)
        \/ \E s \in Slugs : Valid(k, s) /\ \A t \in Slugs : Valid(k, t) => t = s

\* Nothing brings back what an operator has ended: a tenant keeps its id for ever, a
\* disabled one stays disabled, and a revoked key stays revoked, whatever tenants and keys
\* other commands and requests create at the same time.
EndsAreFinal ==
    [][ /\ \A s \in Slugs : Exists(s) =>
              /\ tenants'[s].id = tenants[s].id
              /\ ~tenants[s].active => ~tenants'[s].active
        /\ \A k \in Keys : keys[k].status = "revoked" => keys'[k].status = "revoked" ]_vars
=============================================================================
