------------------------------- MODULE Roles --------------------------------
(***************************************************************************)
(* Roles, their scopes, their holders, and the scopes a user is given:     *)
(* the endpoints under /roles and /users/{id}/roles; POST /register and    *)
(* POST /users, which give a new user the default role; and ScopeExpander, *)
(* which joins the scopes of a user's roles, keeps the result in Redis for *)
(* a minute, and is called by /introspect and by every grant.              *)
(*                                                                         *)
(* Each SQL statement and each Redis command is one step.  Only the        *)
(* deletion of a role runs in a transaction; an update is a sequence of    *)
(* statements on the pool, and the cache keys are deleted after it.        *)
(***************************************************************************)
EXTENDS Integers

CONSTANTS
  User,          \* accounts that exist or may be registered
  InitialUsers,
  Role,          \* ids of the roles that exist or may be created
  DefaultRole,   \* the seeded role with is_default, and so with is_system
  Scope,
  Known,         \* scopes in the table scopes at the start
  DefaultScopes, \* of DefaultRole
  Lists,         \* scope lists that administrators ask for
  Request,       \* requests in flight at once, over all replicas
  NULL,
  TTL,           \* 60 seconds, in ticks
  MaxFaults      \* bound on failed commands and dropped handlers

ASSUME NullAssumption == NULL \notin User \cup Role \cup Scope
ASSUME SeedAssumption ==
  /\ InitialUsers \subseteq User
  /\ DefaultRole \in Role
  /\ DefaultScopes \subseteq Known /\ Known \subseteq Scope
ASSUME ListAssumption == Lists \subseteq (SUBSET Scope) \ {{}}
ASSUME BoundAssumption == TTL \in Nat \ {0} /\ MaxFaults \in Nat

VARIABLES
  users,
  roles,         \* role -> its type; an id is never used again
  scopes,        \* names in the table scopes
  roles_scopes,  \* role -> its scopes
  users_roles,   \* user -> its roles
  scope_expand,  \* the Redis keys scope_expand:<user>
  req,
  faults

tables == <<users, roles, scopes, roles_scopes, users_roles>>
vars   == <<tables, scope_expand, req, faults>>

\* "both" is to these handlers what "user" is: a role that users may hold.
RoleType == {"user", "service_account"}
RoleState == RoleType \cup {"unborn", "deleted"}

\* excused (history): the entry was filled from a failed SELECT or one that
\* a change straddled, or the DEL it was due was lost.
Entry   == [scopes : SUBSET Scope, ttl : 0..TTL, excused : BOOLEAN]
NoEntry == [scopes |-> {}, ttl |-> 0, excused |-> FALSE]

PC == {"idle",
       "get", "select", "setex",                         \* expand
       "set_type", "delete_scopes",                      \* update
       "find_scope", "create_scope", "link",             \* insert_role_scopes
       "select_users", "del",                            \* invalidate
       "assignments", "delete_role",                     \* delete
       "insert_user", "default_role", "insert_role"}     \* register

\* user: of expand and register.  role, type, list: of the role handlers, the
\* list asked for, with left the scopes still to insert and scope the one in
\* hand; in expand, list is what the SELECT returned.  due: the users whose
\* key is to be deleted.  excused (history): see Entry; in the role handlers,
\* that another one wrote the scopes of the role.
Slot == [pc : PC, op : {"none", "create", "update", "register", "create_user"},
         user : User \cup {NULL}, role : Role \cup {NULL}, type : RoleType,
         list : SUBSET Scope, left : SUBSET Scope, scope : Scope \cup {NULL},
         due : SUBSET User, excused : BOOLEAN]

Idle == [pc |-> "idle", op |-> "none", user |-> NULL, role |-> NULL, type |-> "user",
         list |-> {}, left |-> {}, scope |-> NULL, due |-> {}, excused |-> FALSE]

Init ==
  /\ users = InitialUsers
  /\ roles = [ro \in Role |-> IF ro = DefaultRole THEN "user" ELSE "unborn"]
  /\ scopes = Known
  /\ roles_scopes = [ro \in Role |-> IF ro = DefaultRole THEN DefaultScopes ELSE {}]
  /\ users_roles = [u \in User |-> {}]
  /\ scope_expand = [u \in User |-> NoEntry]
  /\ req = [r \in Request |-> Idle]
  /\ faults = 0

At(r, label) == req[r].pc = label
Respond(r) == req' = [req EXCEPT ![r] = Idle]
Goto(r, label) == req' = [req EXCEPT ![r].pc = label]
Fault == faults < MaxFaults /\ faults' = faults + 1

Exists(ro) == roles[ro] \in RoleType
Holders(ro) == {u \in User : ro \in users_roles[u]}
Cached(u) == scope_expand[u].ttl > 0

\* The join of expand.
Granted(u) == UNION {roles_scopes[ro] : ro \in users_roles[u]}

\* The users whose key the handler still has to delete.
Due(r) ==
  IF req[r].op = "update" /\ req[r].pc \in {"find_scope", "create_scope", "link", "select_users"}
    THEN Holders(req[r].role) ELSE req[r].due

\* Entries that no DEL is coming for.
Excuse(U) ==
  scope_expand' = [u \in User |->
    IF u \in U /\ Cached(u) THEN [scope_expand[u] EXCEPT !.excused = TRUE]
                            ELSE scope_expand[u]]

\* Fills that have read what the users in U had, when that changes.
Straddled(slots, U) ==
  [q \in Request |-> IF slots[q].pc = "setex" /\ slots[q].user \in U
                       THEN [slots[q] EXCEPT !.excused = TRUE] ELSE slots[q]]

\* The same, and the other handlers writing the scopes of the role.
Overlapped(r, slots, ro) ==
  LET writing == {"find_scope", "create_scope", "link", "select_users"}
      others == [q \in Request |->
                  IF q # r /\ slots[q].pc \in writing /\ slots[q].role = ro
                    THEN [slots[q] EXCEPT !.excused = TRUE] ELSE slots[q]]
  IN Straddled(others, Holders(ro))

-----------------------------------------------------------------------------
(* ScopeExpander.                                                          *)

\* Mutant: a hit renews the entry.
GetRenewing(r, slot) ==
  /\ \/ /\ ~Cached(slot.user)
        /\ req' = [req EXCEPT ![r] = [slot EXCEPT !.pc = "select"]]
        /\ UNCHANGED scope_expand
     \/ /\ Cached(slot.user)
        /\ Respond(r)
        /\ scope_expand' = [scope_expand EXCEPT ![slot.user].ttl = TTL]
  /\ UNCHANGED <<tables, faults>>

\* GET; a failed GET is a miss, a hit is the answer.
Get(r, slot) ==
  /\ \/ /\ ~Cached(slot.user)
        /\ req' = [req EXCEPT ![r] = [slot EXCEPT !.pc = "select"]]
        /\ UNCHANGED faults
     \/ /\ Cached(slot.user)
        /\ Fault
        /\ req' = [req EXCEPT ![r] = [slot EXCEPT !.pc = "select"]]
     \/ /\ Cached(slot.user)
        /\ Respond(r)
        /\ UNCHANGED faults
  /\ UNCHANGED <<tables, scope_expand>>

\* expand, for /introspect and the grants of a user's tokens.
Expand(r, u) ==
  /\ At(r, "idle")
  /\ u \in users
  /\ Get(r, [Idle EXCEPT !.user = u])

\* expand, for the tokens register issues.
ExpandRegistered(r) == At(r, "get") /\ Get(r, req[r])

\* unwrap_or_default: a failed SELECT is an empty list.
SelectScopes(r) ==
  /\ At(r, "select")
  /\ \/ /\ req' = [req EXCEPT ![r].pc = "setex", ![r].list = Granted(req[r].user)]
        /\ UNCHANGED faults
     \/ /\ Fault
        /\ req' = [req EXCEPT ![r].pc = "setex", ![r].list = {}, ![r].excused = TRUE]
  /\ UNCHANGED <<tables, scope_expand>>

SetCache(r) ==
  /\ At(r, "setex")
  /\ \/ /\ scope_expand' = [scope_expand EXCEPT ![req[r].user] =
             [scopes |-> req[r].list, ttl |-> TTL, excused |-> req[r].excused]]
        /\ UNCHANGED faults
     \/ /\ Fault
        /\ UNCHANGED scope_expand
  /\ Respond(r)
  /\ UNCHANGED tables

\* invalidate, for one of the users it is due for; its failure is ignored.
Invalidate(r, u) ==
  LET left == req[r].due \ {u} IN
  /\ At(r, "del")
  /\ u \in req[r].due
  /\ \/ /\ scope_expand' = [scope_expand EXCEPT ![u] = NoEntry]
        /\ UNCHANGED faults
     \/ /\ Fault
        /\ Excuse({u})
  /\ req' = [req EXCEPT ![r] =
       IF left # {} THEN [req[r] EXCEPT !.due = left]
       ELSE IF req[r].op = "register" THEN [req[r] EXCEPT !.pc = "get", !.due = {}]
       ELSE Idle]
  /\ UNCHANGED tables

-----------------------------------------------------------------------------
(* Holders.                                                                *)

\* INSERT INTO users_roles: a pair that is there already is answered with
\* 204 and a service account's role with 422, and the cache left alone.
Assign(r, u, ro) ==
  /\ At(r, "idle")
  /\ u \in users /\ roles[ro] = "user" /\ ro \notin users_roles[u]
  /\ users_roles' = [users_roles EXCEPT ![u] = @ \cup {ro}]
  /\ req' = Straddled([req EXCEPT ![r] = [Idle EXCEPT !.pc = "del", !.due = {u}]], {u})
  /\ UNCHANGED <<users, roles, scopes, roles_scopes, scope_expand, faults>>

\* DELETE FROM users_roles; no row is a 404.
Remove(r, u, ro) ==
  /\ At(r, "idle")
  /\ ro \in users_roles[u]
  /\ users_roles' = [users_roles EXCEPT ![u] = @ \ {ro}]
  /\ req' = Straddled([req EXCEPT ![r] = [Idle EXCEPT !.pc = "del", !.due = {u}]], {u})
  /\ UNCHANGED <<users, roles, scopes, roles_scopes, scope_expand, faults>>

-----------------------------------------------------------------------------
(* Roles.                                                                  *)

\* INSERT INTO roles; the role can be seen and assigned from here on.
Create(r, ro, type, list) ==
  /\ At(r, "idle")
  /\ roles[ro] = "unborn"
  /\ roles' = [roles EXCEPT ![ro] = type]
  /\ req' = [req EXCEPT ![r] = [Idle EXCEPT !.pc = "find_scope", !.op = "create",
               !.role = ro, !.list = list, !.left = list]]
  /\ UNCHANGED <<users, scopes, roles_scopes, users_roles, scope_expand, faults>>

\* SELECT * FROM roles: system roles are refused.
Update(r, ro, type, list) ==
  /\ At(r, "idle")
  /\ Exists(ro) /\ ro # DefaultRole
  /\ req' = [req EXCEPT ![r] = [Idle EXCEPT !.pc = "set_type", !.op = "update",
               !.role = ro, !.type = type, !.list = list, !.left = list]]
  /\ UNCHANGED <<tables, scope_expand, faults>>

\* UPDATE roles ... RETURNING *: no row is an error.
SetType(r) ==
  LET ro == req[r].role IN
  /\ At(r, "set_type")
  /\ IF Exists(ro)
       THEN /\ roles' = [roles EXCEPT ![ro] = req[r].type]
            /\ req' = [req EXCEPT ![r].pc = "delete_scopes", ![r].type = "user"]
       ELSE /\ Respond(r)
            /\ UNCHANGED roles
  /\ UNCHANGED <<users, scopes, roles_scopes, users_roles, scope_expand, faults>>

\* Mutant: the old scopes are left in place.
DeleteNoScopes(r) ==
  /\ At(r, "delete_scopes")
  /\ Goto(r, "find_scope")
  /\ UNCHANGED <<tables, scope_expand, faults>>

DeleteScopes(r) ==
  LET ro == req[r].role IN
  /\ At(r, "delete_scopes")
  /\ roles_scopes' = [roles_scopes EXCEPT ![ro] = {}]
  /\ req' = Overlapped(r, [req EXCEPT ![r].pc = "find_scope"], ro)
  /\ UNCHANGED <<users, roles, scopes, users_roles, scope_expand, faults>>

\* insert_role_scopes: SELECT id FROM scopes, for the next of the list.
FindScope(r, s) ==
  /\ At(r, "find_scope")
  /\ s \in req[r].left
  /\ req' = [req EXCEPT ![r].pc = IF s \in scopes THEN "link" ELSE "create_scope",
                        ![r].scope = s]
  /\ UNCHANGED <<tables, scope_expand, faults>>

\* A handler that gives up: the error is returned and nothing undone.
GiveUp(r) == Respond(r) /\ Excuse(Due(r))

\* INSERT INTO scopes: another request may have been first.
CreateScope(r) ==
  /\ At(r, "create_scope")
  /\ IF req[r].scope \in scopes
       THEN /\ GiveUp(r)
            /\ UNCHANGED scopes
       ELSE /\ scopes' = scopes \cup {req[r].scope}
            /\ Goto(r, "link")
            /\ UNCHANGED scope_expand
  /\ UNCHANGED <<users, roles, roles_scopes, users_roles, faults>>

\* INSERT INTO roles_scopes ... ON CONFLICT DO NOTHING: the foreign key wants
\* the role.  create deletes no cache key, even if the role has holders by now.
Link(r) ==
  LET ro   == req[r].role
      left == req[r].left \ {req[r].scope}
      next == IF left # {} THEN "find_scope" ELSE "select_users"
      done == req[r].op = "create" /\ left = {}
  IN
  /\ At(r, "link")
  /\ IF Exists(ro)
       THEN /\ roles_scopes' = [roles_scopes EXCEPT ![ro] = @ \cup {req[r].scope}]
            /\ req' = Overlapped(r, [req EXCEPT ![r] =
                 IF done THEN Idle
                 ELSE [req[r] EXCEPT !.pc = next, !.left = left, !.scope = NULL]], ro)
            /\ Excuse(IF req[r].op = "create" THEN Holders(ro) ELSE {})
       ELSE /\ GiveUp(r)
            /\ UNCHANGED roles_scopes
  /\ UNCHANGED <<users, roles, scopes, users_roles, faults>>

\* The SELECT of invalidate_users_with_role; its failure is an empty list.
SelectUsers(r) ==
  LET due == Holders(req[r].role) IN
  /\ At(r, "select_users")
  /\ \/ /\ req' = [req EXCEPT ![r] =
             IF due = {} THEN Idle ELSE [Idle EXCEPT !.pc = "del", !.due = due]]
        /\ UNCHANGED <<scope_expand, faults>>
     \/ /\ Fault
        /\ GiveUp(r)
  /\ UNCHANGED tables

\* delete, one transaction: SELECT the role, then one of its holders.
Delete(r, ro) ==
  /\ At(r, "idle")
  /\ Exists(ro) /\ ro # DefaultRole
  /\ req' = [req EXCEPT ![r] = [Idle EXCEPT !.pc = "assignments", !.role = ro]]
  /\ UNCHANGED <<tables, scope_expand, faults>>

\* SELECT a holder.  A failed SELECT reads as none, but has aborted the
\* transaction, and the handler ends with an error: Abort.
Assignments(r) ==
  /\ At(r, "assignments")
  /\ IF Holders(req[r].role) # {} THEN Respond(r) ELSE Goto(r, "delete_role")
  /\ UNCHANGED <<tables, scope_expand, faults>>

\* Mutant: no foreign key from users_roles.
DeleteRoleAnyway(r) ==
  LET ro == req[r].role IN
  /\ At(r, "delete_role")
  /\ roles' = [roles EXCEPT ![ro] = "deleted"]
  /\ roles_scopes' = [roles_scopes EXCEPT ![ro] = {}]
  /\ req' = Overlapped(r, [req EXCEPT ![r] = Idle], ro)
  /\ UNCHANGED <<users, scopes, users_roles, scope_expand, faults>>

\* DELETE FROM roles_scopes and roles, COMMIT: refused by the foreign key of
\* users_roles if the role has a holder, and a 404 if it is gone.
DeleteRole(r) ==
  LET ro == req[r].role IN
  /\ At(r, "delete_role")
  /\ IF Exists(ro) /\ Holders(ro) = {}
       THEN /\ roles' = [roles EXCEPT ![ro] = "deleted"]
            /\ roles_scopes' = [roles_scopes EXCEPT ![ro] = {}]
       ELSE UNCHANGED <<roles, roles_scopes>>
  /\ req' = IF Exists(ro) /\ Holders(ro) = {}
              THEN Overlapped(r, [req EXCEPT ![r] = Idle], ro)
              ELSE [req EXCEPT ![r] = Idle]
  /\ UNCHANGED <<users, scopes, users_roles, scope_expand, faults>>

-----------------------------------------------------------------------------
(* POST /register and POST /users.                                         *)

\* SELECT EXISTS: the e-mail is free.
Register(r, u) ==
  /\ At(r, "idle")
  /\ u \notin users
  /\ req' = [req EXCEPT ![r] = [Idle EXCEPT !.pc = "insert_user", !.op = "register", !.user = u]]
  /\ UNCHANGED <<tables, scope_expand, faults>>

\* INSERT INTO users: UNIQUE (tenant_id, email) refuses the second.
InsertUser(r) ==
  /\ At(r, "insert_user")
  /\ IF req[r].user \in users
       THEN /\ Respond(r)
            /\ UNCHANGED users
       ELSE /\ users' = users \cup {req[r].user}
            /\ Goto(r, "default_role")
  /\ UNCHANGED <<roles, scopes, roles_scopes, users_roles, scope_expand, faults>>

\* POST /users inserts at once.
CreateUser(r, u) ==
  /\ At(r, "idle")
  /\ u \notin users
  /\ users' = users \cup {u}
  /\ req' = [req EXCEPT ![r] = [Idle EXCEPT !.pc = "default_role", !.op = "create_user", !.user = u]]
  /\ UNCHANGED <<roles, scopes, roles_scopes, users_roles, scope_expand, faults>>

\* What follows the default role: register goes on to issue tokens.
Proceed(r) == IF req[r].op = "register" THEN Goto(r, "get") ELSE Respond(r)

\* SELECT id FROM roles WHERE is_default: its failure is no role.
SelectDefaultRole(r) ==
  /\ At(r, "default_role")
  /\ \/ Goto(r, "insert_role") /\ UNCHANGED faults
     \/ Fault /\ Proceed(r)
  /\ UNCHANGED <<tables, scope_expand>>

\* Mutant: the key is not deleted for an account that is so new.
AssignDefaultRoleKeepCache(r) ==
  LET u == req[r].user IN
  /\ At(r, "insert_role")
  /\ users_roles' = [users_roles EXCEPT ![u] = @ \cup {DefaultRole}]
  /\ req' = Straddled([req EXCEPT ![r].pc = "get"], {u})
  /\ UNCHANGED <<users, roles, scopes, roles_scopes, scope_expand, faults>>

\* INSERT INTO users_roles ... ON CONFLICT DO NOTHING; its failure is logged or
\* dropped, and the handler goes on without the role.  register deletes the key
\* of the account, which may have logged in by now; POST /users does not.
AssignDefaultRole(r) ==
  LET u == req[r].user IN
  /\ At(r, "insert_role")
  /\ \/ /\ users_roles' = [users_roles EXCEPT ![u] = @ \cup {DefaultRole}]
        /\ \/ /\ req[r].op = "register"
              /\ req' = Straddled([req EXCEPT ![r].pc = "del", ![r].due = {u}], {u})
              /\ UNCHANGED scope_expand
           \/ /\ req[r].op = "create_user"
              /\ req' = Straddled([req EXCEPT ![r] = Idle], {u})
              /\ Excuse({u})
        /\ UNCHANGED faults
     \/ /\ Fault
        /\ Proceed(r)
        /\ UNCHANGED <<users_roles, scope_expand>>
  /\ UNCHANGED <<users, roles, scopes, roles_scopes>>

-----------------------------------------------------------------------------
(* Failures, time.                                                         *)

\* A statement fails or the handler is dropped with its connection or process.
Abort(r) ==
  /\ ~At(r, "idle")
  /\ Fault
  /\ GiveUp(r)
  /\ UNCHANGED tables

Tick ==
  /\ \E u \in User : Cached(u)
  /\ scope_expand' = [u \in User |->
       IF scope_expand[u].ttl > 1 THEN [scope_expand[u] EXCEPT !.ttl = @ - 1] ELSE NoEntry]
  /\ UNCHANGED <<tables, req, faults>>

-----------------------------------------------------------------------------
Handler(r) ==
  \/ ExpandRegistered(r) \/ SelectScopes(r) \/ SetCache(r)
  \/ SetType(r) \/ DeleteScopes(r) \/ CreateScope(r) \/ Link(r)
  \/ \E s \in Scope : FindScope(r, s)
  \/ SelectUsers(r)
  \/ \E u \in User : Invalidate(r, u)
  \/ Assignments(r) \/ DeleteRole(r)
  \/ InsertUser(r) \/ SelectDefaultRole(r) \/ AssignDefaultRole(r)

Arrival(r) ==
  \/ \E u \in User : Expand(r, u) \/ Register(r, u) \/ CreateUser(r, u)
  \/ \E u \in User, ro \in Role : Assign(r, u, ro) \/ Remove(r, u, ro)
  \/ \E ro \in Role, type \in RoleType, list \in Lists :
       Create(r, ro, type, list) \/ Update(r, ro, type, list)
  \/ \E ro \in Role : Delete(r, ro)

Next ==
  \/ \E r \in Request : Handler(r) \/ Arrival(r) \/ Abort(r)
  \/ Tick

\* The runtime keeps polling every handler, and time passes.
Fairness == (\A r \in Request : WF_vars(Handler(r))) /\ WF_vars(Tick)

Spec == Init /\ [][Next]_vars /\ Fairness

-----------------------------------------------------------------------------
(* Properties.                                                             *)

\* Tables, entries and slots are well formed; in particular only roles that
\* exist have scopes or holders, only registered users hold roles, and every
\* scope of a role is in the table scopes.
TypeOK ==
  /\ users \subseteq User
  /\ roles \in [Role -> RoleState]
  /\ scopes \subseteq Scope
  /\ roles_scopes \in [Role -> SUBSET scopes]
  /\ users_roles \in [User -> SUBSET Role]
  /\ scope_expand \in [User -> Entry]
  /\ req \in [Request -> Slot]
  /\ faults \in 0..MaxFaults
  /\ \A ro \in Role : ~Exists(ro) => roles_scopes[ro] = {} /\ Holders(ro) = {}
  /\ \A u \in User \ users : users_roles[u] = {}

\* A cached scope list is what the user's roles grant now, unless a handler
\* that changed them is about to delete it, or the entry is excused: a command
\* failed, a handler died, the fill straddled the change, the role was assigned
\* while it was being created, or the change was POST /users giving a user the
\* default role, the last two of which delete no key (scope_expander.rs:38-75;
\* roles.rs:138-139, 187-188, 297-311, 348-382, 438; users.rs:87-105).
CacheFollowsRoles ==
  \A u \in User : Cached(u) =>
    \/ scope_expand[u].scopes = Granted(u)
    \/ scope_expand[u].excused
    \/ \E r \in Request : u \in Due(r)

\* When an update has inserted its last scope the role has exactly the scopes
\* it asked for, unless another handler wrote them at the same time: two
\* updates of one role at once may leave a mixture (roles.rs:432-440).
UpdateReplacesScopes ==
  \A r \in Request : At(r, "select_users") /\ ~req[r].excused
    => roles_scopes[req[r].role] = req[r].list

Stale(u) == Cached(u) /\ scope_expand[u].scopes # Granted(u)

\* Whatever failed or straddled, no stale list outlives its minute: hits do
\* not renew an entry (scope_expander.rs:42-47, 63-65).
StaleScopesFade == \A u \in User : Stale(u) ~> ~Stale(u)

\* The fills that will write another list than the one the user has now.
StaleFills(u) ==
  {q \in Request : At(q, "setex") /\ req[q].user = u /\ req[q].list # Granted(u)}

StaleTTL(u) == IF Stale(u) THEN scope_expand[u].ttl ELSE 0

\* While what a user is granted does not change and no command fails, a stale
\* list stays no longer than the time it has left, and an entry that is there
\* becomes stale, or a stale one younger, only when a fill that had read the
\* old list writes it; no fill is such a one that was not before.  So a role
\* change is seen within a minute of the last SELECT before it
\* (scope_expander.rs:42-47, 49-66).
StaleIsBounded ==
  [][\A u \in User : Granted(u)' = Granted(u) /\ faults' = faults =>
       /\ StaleFills(u)' \subseteq StaleFills(u)
       /\ StaleFills(u)' = StaleFills(u) => StaleTTL(u)' <= StaleTTL(u)]_vars
=============================================================================
