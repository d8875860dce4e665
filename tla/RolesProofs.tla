---------------------------- MODULE RolesProofs -----------------------------
(***************************************************************************)
(* For any number of users, roles, scopes and concurrent requests: the     *)
(* tables of Roles stay consistent, a cached scope list follows the roles, *)
(* an update replaces the scopes of its role, and a stale list only ages.  *)
(***************************************************************************)
EXTENDS Roles, TLAPS

Writing == {"find_scope", "create_scope", "link", "select_users"}
Filling == {"get", "select", "setex"}
Enrolling == {"insert_user", "default_role", "insert_role"}

\* What the pc of a slot says of its other fields.
ShapeIn(s, us, sc) ==
  /\ s.pc \in Filling \cup Enrolling => s.user \in User
  /\ s.pc = "del" /\ s.op = "register" => s.user \in User
  /\ s.pc \in {"default_role", "insert_role"} => s.user \in us
  /\ s.pc \in Enrolling => s.op \in {"register", "create_user"}
  /\ s.pc \in Writing \cup {"set_type", "delete_scopes", "assignments", "delete_role"}
       => s.role \in Role
  /\ s.pc \in {"set_type", "delete_scopes", "assignments", "delete_role"}
       => s.role # DefaultRole
  /\ s.pc \in {"set_type", "delete_scopes", "select_users"} => s.op = "update"
  /\ s.pc \in Writing => s.op \in {"create", "update"}
  /\ s.pc # "del" => s.due = {}
  /\ s.pc \in {"create_scope", "link"} => s.scope \in s.left
  /\ s.pc = "link" => s.scope \in sc
  /\ s.pc \in Writing => s.left \subseteq s.list
  /\ s.pc \in {"set_type", "delete_scopes"} => s.left = s.list
  /\ s.pc = "select_users" => s.left = {}

Shapes == \A q \in Request : ShapeIn(req[q], users, scopes)

\* A fill that nothing straddled holds what its user has now.
Fills ==
  \A q \in Request, u \in User :
    req[q].pc = "setex" /\ ~req[q].excused /\ req[q].user = u => req[q].list = Granted(u)

\* An update that nothing overlapped has written what it has taken off its list.
WrittenIn(s, rs) ==
  s.pc \in Writing /\ s.op = "update" /\ ~s.excused => rs[s.role] = s.list \ s.left
Writes == \A q \in Request : WrittenIn(req[q], roles_scopes)

\* Due, as a function of the slot.
DueIn(s, ur) ==
  IF s.op = "update" /\ s.pc \in Writing THEN {u \in User : s.role \in ur[u]} ELSE s.due

Inv == TypeOK /\ Exists(DefaultRole) /\ Shapes /\ Fills /\ Writes /\ CacheFollowsRoles

\* s is t, but for an excuse.
Alike(s, t) ==
  /\ s.pc = t.pc /\ s.op = t.op /\ s.user = t.user /\ s.role = t.role /\ s.type = t.type
  /\ s.list = t.list /\ s.left = t.left /\ s.scope = t.scope /\ s.due = t.due
  /\ t.excused => s.excused

\* The slot r becomes s, and the others at most excused.
Goes(r, s) ==
  /\ req' \in [Request -> Slot]
  /\ Alike(req'[r], s)
  /\ \A q \in Request \ {r} : Alike(req'[q], req[q])

LEMMA DueIs ==
  ASSUME NEW q \in Request
  PROVE  Due(q) = DueIn(req[q], users_roles)
BY DEF Due, DueIn, Holders, Writing

LEMMA DueIsNext ==
  ASSUME NEW q \in Request
  PROVE  Due(q)' = DueIn(req'[q], users_roles')
BY DEF Due, DueIn, Holders, Writing

LEMMA AlikeShape ==
  ASSUME NEW s, NEW t, Alike(s, t), NEW us, NEW sc, NEW us2, NEW sc2,
         us \subseteq us2, sc \subseteq sc2, ShapeIn(t, us, sc)
  PROVE  ShapeIn(s, us2, sc2)
BY DEF Alike, ShapeIn

LEMMA AlikeDue ==
  ASSUME NEW s, NEW t, Alike(s, t), NEW ur
  PROVE  DueIn(s, ur) = DueIn(t, ur)
BY DEF Alike, DueIn

LEMMA AlikeSelf ==
  ASSUME NEW s
  PROVE  Alike(s, s)
BY DEF Alike

\* A step of one slot preserves the invariant if it excuses the fills and the
\* updates it disturbs, and is due to delete, or excuses, the entries it makes
\* stale.
LEMMA Step ==
  ASSUME Inv, NEW r \in Request, NEW s \in Slot, Goes(r, s),
         TypeOK', Exists(DefaultRole)',
         users \subseteq users', scopes \subseteq scopes', ShapeIn(s, users', scopes'),
         \A q \in Request \ {r}, u \in User :
           req[q].pc = "setex" /\ req[q].user = u /\ ~req'[q].excused
             => Granted(u)' = Granted(u),
         \A u \in User : s.pc = "setex" /\ ~s.excused /\ s.user = u => s.list = Granted(u)',
         \A q \in Request \ {r} :
           req[q].pc \in Writing /\ ~req'[q].excused
             => roles_scopes'[req[q].role] = roles_scopes[req[q].role],
         WrittenIn(s, roles_scopes'),
         \A u \in User : scope_expand'[u].ttl > 0 =>
           \/ scope_expand'[u].excused
           \/ u \in DueIn(s, users_roles')
           \/ scope_expand'[u].scopes = Granted(u)'
           \/ /\ scope_expand[u].ttl > 0
              /\ scope_expand'[u].scopes = scope_expand[u].scopes
              /\ scope_expand[u].excused => scope_expand'[u].excused
              /\ Granted(u)' = Granted(u)
              /\ u \notin DueIn(req[r], users_roles)
              /\ \A ro \in Role : ro \in users_roles[u] => ro \in users_roles'[u]
  PROVE  Inv'
<1>1. Shapes'
  <2>1. ASSUME NEW q \in Request
        PROVE  ShapeIn(req'[q], users', scopes')
    <3>1. CASE q = r
      BY <3>1, AlikeShape DEF Goes
    <3>2. CASE q # r
      <4>1. ShapeIn(req[q], users, scopes) /\ Alike(req'[q], req[q])
        BY <3>2 DEF Goes, Inv, Shapes
      <4> QED
        BY <4>1, AlikeShape
    <3> QED
      BY <3>1, <3>2
  <2> QED
    BY <2>1 DEF Shapes
<1>2. Fills'
  <2>1. ASSUME NEW q \in Request, NEW u \in User,
               req'[q].pc = "setex", ~req'[q].excused, req'[q].user = u
        PROVE  req'[q].list = Granted(u)'
    <3>1. CASE q = r
      BY <2>1, <3>1 DEF Goes, Alike
    <3>2. CASE q # r
      <4>1. Alike(req'[q], req[q])
        BY <3>2 DEF Goes
      <4>2. /\ req[q].pc = "setex" /\ ~req[q].excused /\ req[q].user = u
            /\ req'[q].list = req[q].list
        BY <2>1, <4>1 DEF Alike
      <4>3. req[q].list = Granted(u)
        BY <4>2 DEF Inv, Fills
      <4>4. Granted(u)' = Granted(u)
        BY <2>1, <3>2, <4>2
      <4> QED
        BY <4>2, <4>3, <4>4
    <3> QED
      BY <3>1, <3>2
  <2> QED
    BY <2>1 DEF Fills
<1>3. Writes'
  <2>1. ASSUME NEW q \in Request
        PROVE  WrittenIn(req'[q], roles_scopes')
    <3>1. CASE q = r
      BY <3>1 DEF Goes, Alike, WrittenIn
    <3>2. CASE q # r
      <4>1. Alike(req'[q], req[q]) /\ WrittenIn(req[q], roles_scopes)
        BY <3>2 DEF Goes, Inv, Writes
      <4>2. req[q].pc \in Writing /\ ~req'[q].excused
              => roles_scopes'[req[q].role] = roles_scopes[req[q].role]
        BY <3>2
      <4> QED
        BY <4>1, <4>2 DEF Alike, WrittenIn
    <3> QED
      BY <3>1, <3>2
  <2> QED
    BY <2>1 DEF Writes
<1>4. CacheFollowsRoles'
  <2>1. ASSUME NEW u \in User, scope_expand'[u].ttl > 0
        PROVE  \/ scope_expand'[u].scopes = Granted(u)'
               \/ scope_expand'[u].excused
               \/ \E q \in Request : u \in DueIn(req'[q], users_roles')
    <3>1. CASE u \in DueIn(s, users_roles')
      <4>1. DueIn(req'[r], users_roles') = DueIn(s, users_roles')
        BY AlikeDue DEF Goes
      <4> QED
        BY <3>1, <4>1
    <3>2. CASE /\ scope_expand[u].ttl > 0
               /\ scope_expand'[u].scopes = scope_expand[u].scopes
               /\ scope_expand[u].excused => scope_expand'[u].excused
               /\ Granted(u)' = Granted(u)
               /\ u \notin DueIn(req[r], users_roles)
               /\ \A ro \in Role : ro \in users_roles[u] => ro \in users_roles'[u]
      <4>1. \/ scope_expand[u].scopes = Granted(u)
            \/ scope_expand[u].excused
            \/ \E q \in Request : u \in DueIn(req[q], users_roles)
        BY <3>2, DueIs DEF Inv, CacheFollowsRoles, Cached
      <4>2. ASSUME NEW q \in Request, u \in DueIn(req[q], users_roles)
            PROVE  u \in DueIn(req'[q], users_roles')
        <5>1. q # r
          BY <3>2, <4>2
        <5>2. Alike(req'[q], req[q])
          BY <5>1 DEF Goes
        <5>3. DueIn(req'[q], users_roles') = DueIn(req[q], users_roles')
          BY <5>2, AlikeDue
        <5>4. CASE req[q].op = "update" /\ req[q].pc \in Writing
          <6>1. req[q].role \in Role
            BY <5>4 DEF Inv, Shapes, ShapeIn
          <6>2. req[q].role \in users_roles[u]
            BY <4>2, <5>4 DEF DueIn
          <6> QED
            BY <3>2, <5>3, <5>4, <6>1, <6>2 DEF DueIn
        <5>5. CASE ~(req[q].op = "update" /\ req[q].pc \in Writing)
          BY <4>2, <5>3, <5>5 DEF DueIn
        <5> QED
          BY <5>4, <5>5
      <4> QED
        BY <3>2, <4>1, <4>2
    <3> QED
      BY <2>1, <3>1, <3>2
  <2> QED
    BY <2>1, DueIsNext DEF CacheFollowsRoles, Cached
<1> QED
  BY <1>1, <1>2, <1>3, <1>4 DEF Inv
-----------------------------------------------------------------------------
(* Steps that change nobody's grants.                                      *)

LEMMA Quiet ==
  ASSUME Inv, NEW r \in Request, NEW s \in Slot,
         req' = [req EXCEPT ![r] = s],
         UNCHANGED <<roles_scopes, users_roles>>,
         users \subseteq users', users' \subseteq User,
         scopes \subseteq scopes', scopes' \subseteq Scope,
         roles' \in [Role -> RoleState],
         \A ro \in Role : Exists(ro) => Exists(ro)',
         scope_expand' \in [User -> Entry],
         faults' \in 0..MaxFaults,
         ShapeIn(s, users', scopes'),
         s.pc = "setex" /\ ~s.excused => s.list = Granted(s.user),
         WrittenIn(s, roles_scopes),
         \A u \in User : scope_expand'[u].ttl > 0 =>
           \/ scope_expand'[u].excused
           \/ u \in DueIn(s, users_roles)
           \/ scope_expand'[u].scopes = Granted(u)
           \/ scope_expand'[u] = scope_expand[u] /\ u \notin DueIn(req[r], users_roles)
  PROVE  Inv'
<1>1. TypeOK'
  <2>1. req' \in [Request -> Slot]
    BY DEF Inv, TypeOK
  <2>2. roles_scopes' \in [Role -> SUBSET scopes']
    BY DEF Inv, TypeOK
  <2>3. \A ro \in Role : ~Exists(ro)' => roles_scopes'[ro] = {} /\ Holders(ro)' = {}
    BY DEF Inv, TypeOK, Holders
  <2>4. \A u \in User \ users' : users_roles'[u] = {}
    BY DEF Inv, TypeOK
  <2> QED
    BY <2>1, <2>2, <2>3, <2>4 DEF Inv, TypeOK
<1>2. Exists(DefaultRole)'
  BY SeedAssumption DEF Inv
<1>3. Goes(r, s)
  BY <1>1, AlikeSelf DEF Goes, Inv, TypeOK
<1>4. \A u \in User : Granted(u)' = Granted(u)
  BY DEF Granted
<1>5. roles_scopes' = roles_scopes /\ users_roles' = users_roles
  OBVIOUS
<1>6. \A u \in User : scope_expand'[u] = scope_expand[u] =>
        /\ scope_expand'[u].ttl = scope_expand[u].ttl
        /\ scope_expand'[u].scopes = scope_expand[u].scopes
        /\ scope_expand'[u].excused = scope_expand[u].excused
  OBVIOUS
<1>7. \A u \in User : scope_expand'[u].ttl > 0 =>
           \/ scope_expand'[u].excused
           \/ u \in DueIn(s, users_roles')
           \/ scope_expand'[u].scopes = Granted(u)'
           \/ /\ scope_expand[u].ttl > 0
              /\ scope_expand'[u].scopes = scope_expand[u].scopes
              /\ scope_expand[u].excused => scope_expand'[u].excused
              /\ Granted(u)' = Granted(u)
              /\ u \notin DueIn(req[r], users_roles)
              /\ \A ro \in Role : ro \in users_roles[u] => ro \in users_roles'[u]
  BY <1>4, <1>5, <1>6
<1> QED
  BY <1>1, <1>2, <1>3, <1>4, <1>5, <1>7, Step

\* The same, when the entries are left alone.
LEMMA Still ==
  ASSUME Inv, NEW r \in Request, NEW s \in Slot,
         req' = [req EXCEPT ![r] = s],
         UNCHANGED <<roles_scopes, users_roles, scope_expand>>,
         users \subseteq users', users' \subseteq User,
         scopes \subseteq scopes', scopes' \subseteq Scope,
         roles' \in [Role -> RoleState],
         \A ro \in Role : Exists(ro) => Exists(ro)',
         faults' \in 0..MaxFaults,
         ShapeIn(s, users', scopes'),
         s.pc = "setex" /\ ~s.excused => s.list = Granted(s.user),
         WrittenIn(s, roles_scopes),
         DueIn(req[r], users_roles) \subseteq DueIn(s, users_roles)
  PROVE  Inv'
<1>1. scope_expand' \in [User -> Entry]
  BY DEF Inv, TypeOK
<1> QED
  BY <1>1, Quiet

\* GiveUp, whatever the statement that failed.
LEMMA ExcuseKeeps ==
  ASSUME Inv, NEW U, Excuse(U)
  PROVE  /\ scope_expand' \in [User -> Entry]
         /\ \A u \in User : /\ scope_expand'[u].ttl = scope_expand[u].ttl
                            /\ scope_expand'[u].scopes = scope_expand[u].scopes
                            /\ scope_expand[u].excused => scope_expand'[u].excused
                            /\ u \in U /\ Cached(u) => scope_expand'[u].excused
                            /\ u \notin U => scope_expand'[u] = scope_expand[u]
<1>1. \A u \in User : scope_expand[u] \in Entry
  BY DEF Inv, TypeOK
<1>2. \A u \in User : scope_expand'[u] =
        IF u \in U /\ Cached(u) THEN [scope_expand[u] EXCEPT !.excused = TRUE]
                                ELSE scope_expand[u]
  BY DEF Excuse
<1>3. \A u \in User : scope_expand'[u] \in Entry
  BY <1>1, <1>2 DEF Entry
<1>4. scope_expand' \in [User -> Entry]
  BY <1>3 DEF Excuse
<1>5. ASSUME NEW u \in User
      PROVE  /\ scope_expand'[u].ttl = scope_expand[u].ttl
             /\ scope_expand'[u].scopes = scope_expand[u].scopes
             /\ scope_expand[u].excused => scope_expand'[u].excused
             /\ u \in U /\ Cached(u) => scope_expand'[u].excused
             /\ u \notin U => scope_expand'[u] = scope_expand[u]
  BY <1>1, <1>2 DEF Entry
<1> QED
  BY <1>4, <1>5

LEMMA IdleIs ==
  Idle \in Slot /\ \A us, sc, ur, rs : /\ ShapeIn(Idle, us, sc)
                                       /\ WrittenIn(Idle, rs)
                                       /\ DueIn(Idle, ur) = {}
<1>1. Idle \in Slot
  BY DEF Idle, Slot, PC, RoleType
<1>2. ASSUME NEW us, NEW sc, NEW ur, NEW rs
      PROVE  ShapeIn(Idle, us, sc) /\ WrittenIn(Idle, rs) /\ DueIn(Idle, ur) = {}
  BY DEF Idle, ShapeIn, WrittenIn, DueIn, Writing, Filling, Enrolling
<1> QED
  BY <1>1, <1>2

LEMMA GiveUpKeeps ==
  ASSUME Inv, NEW r \in Request, GiveUp(r), UNCHANGED tables, faults' \in 0..MaxFaults
  PROVE  Inv'
<1>1. /\ Idle \in Slot /\ ShapeIn(Idle, users', scopes') /\ WrittenIn(Idle, roles_scopes)
      /\ Idle.pc = "idle"
  BY IdleIs DEF Idle
<1>2. /\ users \subseteq users' /\ users' \subseteq User
      /\ scopes \subseteq scopes' /\ scopes' \subseteq Scope
      /\ roles' \in [Role -> RoleState]
      /\ \A ro \in Role : Exists(ro) => Exists(ro)'
      /\ UNCHANGED <<roles_scopes, users_roles>>
      /\ req' = [req EXCEPT ![r] = Idle]
  BY DEF Inv, TypeOK, tables, Exists, GiveUp, Respond
<1>3. Due(r) = DueIn(req[r], users_roles)
  BY DueIs
<1>4. /\ scope_expand' \in [User -> Entry]
      /\ \A u \in User : scope_expand'[u].ttl > 0 =>
           \/ scope_expand'[u].excused
           \/ scope_expand'[u] = scope_expand[u] /\ u \notin DueIn(req[r], users_roles)
  BY <1>3, ExcuseKeeps DEF GiveUp, Cached
<1> QED
  BY <1>1, <1>2, <1>4, Quiet

-----------------------------------------------------------------------------
(* Steps that change what some users are granted.                          *)

LEMMA Excused ==
  ASSUME NEW s \in Slot
  PROVE  /\ [s EXCEPT !.excused = TRUE] \in Slot
         /\ Alike([s EXCEPT !.excused = TRUE], s)
         /\ [s EXCEPT !.excused = TRUE].excused
<1> DEFINE t == [s EXCEPT !.excused = TRUE]
<1>1. t \in Slot /\ t.excused
  BY DEF Slot
<1>2. Alike(t, s)
  BY DEF Slot, Alike
<1> QED
  BY <1>1, <1>2

LEMMA StraddledGoes ==
  ASSUME Inv, NEW r \in Request, NEW s \in Slot, NEW U,
         req' = Straddled([req EXCEPT ![r] = s], U)
  PROVE  /\ Goes(r, s)
         /\ \A q \in Request \ {r} :
              req[q].pc = "setex" /\ req[q].user \in U => req'[q].excused
<1> DEFINE f == [req EXCEPT ![r] = s]
<1>1. f \in [Request -> Slot] /\ f[r] = s /\ \A q \in Request \ {r} : f[q] = req[q]
  BY DEF Inv, TypeOK
<1>2. req' = Straddled(f, U)
  OBVIOUS
<1> HIDE DEF f
<1>3. \A q \in Request : f[q] \in Slot
  BY <1>1
<1>4. \A q \in Request : req'[q] = IF f[q].pc = "setex" /\ f[q].user \in U
                                     THEN [f[q] EXCEPT !.excused = TRUE] ELSE f[q]
  BY <1>2 DEF Straddled
<1>5. \A q \in Request : req'[q] \in Slot /\ Alike(req'[q], f[q])
  BY <1>3, <1>4, Excused, AlikeSelf
<1>6. req' \in [Request -> Slot]
  BY <1>2, <1>5 DEF Straddled
<1>7. \A q \in Request : f[q].pc = "setex" /\ f[q].user \in U => req'[q].excused
  BY <1>3, <1>4, Excused
<1> QED
  BY <1>1, <1>5, <1>6, <1>7 DEF Goes

LEMMA OverlappedGoes ==
  ASSUME Inv, NEW r \in Request, NEW s \in Slot, NEW ro \in Role,
         req' = Overlapped(r, [req EXCEPT ![r] = s], ro)
  PROVE  /\ Goes(r, s)
         /\ \A q \in Request \ {r} :
              /\ req[q].pc = "setex" /\ req[q].user \in Holders(ro) => req'[q].excused
              /\ req[q].pc \in Writing /\ req[q].role = ro => req'[q].excused
<1> DEFINE f == [req EXCEPT ![r] = s]
           g == [q \in Request |->
                  IF q # r /\ f[q].pc \in Writing /\ f[q].role = ro
                    THEN [f[q] EXCEPT !.excused = TRUE] ELSE f[q]]
<1>1. f \in [Request -> Slot] /\ f[r] = s /\ \A q \in Request \ {r} : f[q] = req[q]
  BY DEF Inv, TypeOK
<1>2. req' = Straddled(g, Holders(ro))
  BY DEF Overlapped, Writing
<1> HIDE DEF f
<1>3. \A q \in Request : f[q] \in Slot
  BY <1>1
<1>4. \A q \in Request : /\ g[q] \in Slot
                         /\ Alike(g[q], f[q])
                         /\ q # r /\ f[q].pc \in Writing /\ f[q].role = ro => g[q].excused
  BY <1>3, Excused, AlikeSelf
<1> HIDE DEF g
<1>5. \A q \in Request : req'[q] = IF g[q].pc = "setex" /\ g[q].user \in Holders(ro)
                                     THEN [g[q] EXCEPT !.excused = TRUE] ELSE g[q]
  BY <1>2 DEF Straddled
<1>6. \A q \in Request : /\ req'[q] \in Slot
                         /\ Alike(req'[q], g[q])
                         /\ g[q].pc = "setex" /\ g[q].user \in Holders(ro) => req'[q].excused
  BY <1>4, <1>5, Excused, AlikeSelf
<1>7. req' \in [Request -> Slot]
  BY <1>2, <1>6 DEF Straddled
<1>8. \A q \in Request : Alike(req'[q], f[q])
  <2> TAKE q \in Request
  <2>1. Alike(g[q], f[q]) /\ Alike(req'[q], g[q])
    BY <1>4, <1>6
  <2> QED
    BY <2>1 DEF Alike
<1>9. \A q \in Request \ {r} :
        /\ f[q].pc = "setex" /\ f[q].user \in Holders(ro) => req'[q].excused
        /\ f[q].pc \in Writing /\ f[q].role = ro => req'[q].excused
  <2> TAKE q \in Request \ {r}
  <2>1. Alike(g[q], f[q]) /\ Alike(req'[q], g[q])
    BY <1>4, <1>6
  <2>2. f[q].pc = "setex" /\ f[q].user \in Holders(ro) => req'[q].excused
    BY <1>6, <2>1 DEF Alike
  <2>3. f[q].pc \in Writing /\ f[q].role = ro => req'[q].excused
    BY <1>4, <2>1 DEF Alike
  <2> QED
    BY <2>2, <2>3
<1> QED
  BY <1>1, <1>7, <1>8, <1>9 DEF Goes

\* The roles of one user change.
LEMMA Grant ==
  ASSUME Inv, NEW r \in Request, NEW s \in Slot, NEW u \in User, NEW X \in SUBSET Role,
         req' = Straddled([req EXCEPT ![r] = s], {u}),
         users_roles' = [users_roles EXCEPT ![u] = X],
         \A ro \in X : Exists(ro), u \in users,
         UNCHANGED <<users, roles, scopes, roles_scopes>>,
         scope_expand' \in [User -> Entry],
         faults' \in 0..MaxFaults,
         ShapeIn(s, users, scopes), s.pc # "setex", s.pc \notin Writing,
         DueIn(req[r], users_roles) = {},
         \A v \in User \ {u} : scope_expand'[v] = scope_expand[v],
         scope_expand'[u].ttl > 0 => u \in DueIn(s, users_roles') \/ scope_expand'[u].excused
  PROVE  Inv'
<1>1. /\ Goes(r, s)
      /\ \A q \in Request \ {r} : req[q].pc = "setex" /\ req[q].user = u => req'[q].excused
  BY StraddledGoes
<1>2. users_roles'[u] = X /\ \A v \in User \ {u} : users_roles'[v] = users_roles[v]
  BY DEF Inv, TypeOK
<1>3. \A v \in User \ {u} : Granted(v)' = Granted(v)
  BY <1>2 DEF Granted
<1>4. TypeOK'
  <2>1. users_roles' \in [User -> SUBSET Role]
    BY DEF Inv, TypeOK
  <2>2. \A ro \in Role : ~Exists(ro)' => roles_scopes'[ro] = {} /\ Holders(ro)' = {}
    BY <1>2 DEF Inv, TypeOK, Exists, Holders
  <2>3. \A v \in User \ users' : users_roles'[v] = {}
    BY <1>2 DEF Inv, TypeOK
  <2> QED
    BY <1>1, <2>1, <2>2, <2>3 DEF Inv, TypeOK, Goes
<1>5. Exists(DefaultRole)'
  BY DEF Inv, Exists
<1>6. \A v \in User \ {u} : /\ scope_expand'[v].ttl = scope_expand[v].ttl
                            /\ scope_expand'[v].scopes = scope_expand[v].scopes
                            /\ scope_expand'[v].excused = scope_expand[v].excused
  OBVIOUS
<1>7. \A v \in User : scope_expand'[v].ttl > 0 =>
           \/ scope_expand'[v].excused
           \/ v \in DueIn(s, users_roles')
           \/ scope_expand'[v].scopes = Granted(v)'
           \/ /\ scope_expand[v].ttl > 0
              /\ scope_expand'[v].scopes = scope_expand[v].scopes
              /\ scope_expand[v].excused => scope_expand'[v].excused
              /\ Granted(v)' = Granted(v)
              /\ v \notin DueIn(req[r], users_roles)
              /\ \A ro \in Role : ro \in users_roles[v] => ro \in users_roles'[v]
  BY <1>2, <1>3, <1>6
<1>8. WrittenIn(s, roles_scopes')
  BY DEF WrittenIn
<1>9. \A q \in Request \ {r}, v \in User :
        req[q].pc = "setex" /\ req[q].user = v /\ ~req'[q].excused => Granted(v)' = Granted(v)
  BY <1>1, <1>3
<1>10. \A v \in User : s.pc = "setex" /\ ~s.excused /\ s.user = v => s.list = Granted(v)'
  OBVIOUS
<1>11. \A q \in Request \ {r} :
         req[q].pc \in Writing /\ ~req'[q].excused
           => roles_scopes'[req[q].role] = roles_scopes[req[q].role]
  OBVIOUS
<1>12. /\ users \subseteq users' /\ scopes \subseteq scopes'
       /\ ShapeIn(s, users', scopes')
  OBVIOUS
<1> QED
  BY <1>1, <1>4, <1>5, <1>7, <1>8, <1>9, <1>10, <1>11, <1>12, Step

\* The scopes of one role change.
LEMMA Rewrite ==
  ASSUME Inv, NEW r \in Request, NEW s \in Slot, NEW ro \in Role, NEW X \in SUBSET scopes,
         req' = Overlapped(r, [req EXCEPT ![r] = s], ro),
         roles_scopes' = [roles_scopes EXCEPT ![ro] = X],
         UNCHANGED <<users, scopes, users_roles>>,
         roles' \in [Role -> RoleState],
         \A p \in Role \ {ro} : roles'[p] = roles[p],
         ~Exists(ro)' => X = {} /\ Holders(ro) = {} /\ ro # DefaultRole,
         scope_expand' \in [User -> Entry],
         faults' \in 0..MaxFaults,
         ShapeIn(s, users, scopes), s.pc # "setex",
         WrittenIn(s, roles_scopes'),
         DueIn(req[r], users_roles) \subseteq DueIn(s, users_roles),
         \A u \in User : /\ scope_expand'[u].ttl = scope_expand[u].ttl
                         /\ scope_expand'[u].scopes = scope_expand[u].scopes
                         /\ scope_expand[u].excused => scope_expand'[u].excused,
         \A u \in Holders(ro) : scope_expand'[u].ttl > 0 =>
           u \in DueIn(s, users_roles) \/ scope_expand'[u].excused
  PROVE  Inv'
<1>1. /\ Goes(r, s)
      /\ \A q \in Request \ {r} :
           /\ req[q].pc = "setex" /\ req[q].user \in Holders(ro) => req'[q].excused
           /\ req[q].pc \in Writing /\ req[q].role = ro => req'[q].excused
  BY OverlappedGoes
<1>2. roles_scopes'[ro] = X /\ \A p \in Role \ {ro} : roles_scopes'[p] = roles_scopes[p]
  BY DEF Inv, TypeOK
<1>3. \A u \in User : users_roles[u] \subseteq Role
  BY DEF Inv, TypeOK
<1>4. \A u \in User : u \notin Holders(ro) => Granted(u)' = Granted(u)
  <2> SUFFICES ASSUME NEW u \in User, u \notin Holders(ro)
               PROVE  Granted(u)' = Granted(u)
    OBVIOUS
  <2>1. \A p \in users_roles[u] : roles_scopes'[p] = roles_scopes[p]
    BY <1>2, <1>3 DEF Holders
  <2>2. {roles_scopes'[p] : p \in users_roles[u]} = {roles_scopes[p] : p \in users_roles[u]}
    BY <2>1
  <2>3. users_roles'[u] = users_roles[u]
    OBVIOUS
  <2> QED
    BY <2>2, <2>3 DEF Granted
<1>5. TypeOK'
  <2>1. roles_scopes' \in [Role -> SUBSET scopes']
    BY DEF Inv, TypeOK
  <2>2. \A p \in Role : ~Exists(p)' => roles_scopes'[p] = {} /\ Holders(p)' = {}
    BY <1>2 DEF Inv, TypeOK, Exists, Holders
  <2> QED
    BY <1>1, <2>1, <2>2 DEF Inv, TypeOK, Goes
<1>6. Exists(DefaultRole)'
  BY SeedAssumption DEF Inv, Exists
<1>7. users_roles' = users_roles
  OBVIOUS
<1>8. \A u \in User : scope_expand'[u].ttl > 0 =>
           \/ scope_expand'[u].excused
           \/ u \in DueIn(s, users_roles')
           \/ scope_expand'[u].scopes = Granted(u)'
           \/ /\ scope_expand[u].ttl > 0
              /\ scope_expand'[u].scopes = scope_expand[u].scopes
              /\ scope_expand[u].excused => scope_expand'[u].excused
              /\ Granted(u)' = Granted(u)
              /\ u \notin DueIn(req[r], users_roles)
              /\ \A p \in Role : p \in users_roles[u] => p \in users_roles'[u]
  BY <1>4, <1>7
<1>9. \A q \in Request \ {r} :
        req[q].pc \in Writing /\ ~req'[q].excused
          => roles_scopes'[req[q].role] = roles_scopes[req[q].role]
  <2> SUFFICES ASSUME NEW q \in Request \ {r}, req[q].pc \in Writing, ~req'[q].excused
               PROVE  roles_scopes'[req[q].role] = roles_scopes[req[q].role]
    OBVIOUS
  <2>1. req[q].role # ro
    BY <1>1
  <2>2. req[q].role \in Role
    BY DEF Inv, Shapes, ShapeIn
  <2> QED
    BY <1>2, <2>1, <2>2
<1>10. \A q \in Request \ {r}, u \in User :
         req[q].pc = "setex" /\ req[q].user = u /\ ~req'[q].excused => Granted(u)' = Granted(u)
  BY <1>1, <1>4
<1>11. \A u \in User : s.pc = "setex" /\ ~s.excused /\ s.user = u => s.list = Granted(u)'
  OBVIOUS
<1>12. /\ users \subseteq users' /\ scopes \subseteq scopes'
       /\ ShapeIn(s, users', scopes')
  OBVIOUS
<1> QED
  BY <1>1, <1>5, <1>6, <1>8, <1>9, <1>10, <1>11, <1>12, Step

-----------------------------------------------------------------------------
(* The initial states, and each action.                                    *)

LEMMA InitInv == Init => Inv
<1> SUFFICES ASSUME Init PROVE Inv
  OBVIOUS
<1>1. Idle \in Slot /\ \A q \in Request : req[q] = Idle
  BY IdleIs DEF Init
<1>2. TypeOK
  <2>1. scope_expand \in [User -> Entry]
    BY BoundAssumption DEF Init, NoEntry, Entry
  <2>2. roles \in [Role -> RoleState] /\ roles_scopes \in [Role -> SUBSET scopes]
    BY SeedAssumption DEF Init, RoleState, RoleType
  <2>3. \A ro \in Role : ~Exists(ro) => roles_scopes[ro] = {} /\ Holders(ro) = {}
    BY DEF Init, Exists, Holders, RoleType
  <2>4. faults \in 0..MaxFaults
    BY BoundAssumption DEF Init
  <2>5. req \in [Request -> Slot] /\ users_roles \in [User -> SUBSET Role]
    BY <1>1 DEF Init
  <2> QED
    BY <2>1, <2>2, <2>3, <2>4, <2>5, SeedAssumption DEF Init, TypeOK
<1>3. Exists(DefaultRole)
  BY SeedAssumption DEF Init, Exists, RoleType
<1>4. Shapes /\ Writes
  BY <1>1, IdleIs DEF Shapes, Writes
<1>5. Fills
  BY <1>1 DEF Fills, Idle
<1>6. CacheFollowsRoles
  BY DEF Init, CacheFollowsRoles, Cached, NoEntry
<1> QED
  BY <1>2, <1>3, <1>4, <1>5, <1>6 DEF Inv

LEMMA NotDue ==
  ASSUME Inv, NEW r \in Request, req[r].pc # "del",
         req[r].pc \notin Writing \/ req[r].op # "update"
  PROVE  DueIn(req[r], users_roles) = {}
BY DEF Inv, Shapes, ShapeIn, DueIn

\* Where tables and entries stay, and nothing is due.
LEMMA Moves ==
  ASSUME Inv, NEW r \in Request, NEW s \in Slot,
         req' = [req EXCEPT ![r] = s], UNCHANGED <<tables, scope_expand>>,
         faults' \in 0..MaxFaults,
         ShapeIn(s, users, scopes), WrittenIn(s, roles_scopes),
         s.pc = "setex" /\ ~s.excused => s.list = Granted(s.user),
         DueIn(req[r], users_roles) \subseteq DueIn(s, users_roles)
  PROVE  Inv'
<1>1. /\ users \subseteq users' /\ users' \subseteq User
      /\ scopes \subseteq scopes' /\ scopes' \subseteq Scope
      /\ roles' \in [Role -> RoleState]
      /\ \A ro \in Role : Exists(ro) => Exists(ro)'
      /\ UNCHANGED <<roles_scopes, users_roles, scope_expand>>
      /\ ShapeIn(s, users', scopes')
  BY DEF Inv, TypeOK, tables, Exists
<1> QED
  BY <1>1, Still

LEMMA FaultBound ==
  ASSUME Inv, Fault
  PROVE  faults' \in 0..MaxFaults
BY BoundAssumption DEF Inv, TypeOK, Fault

LEMMA SameFaults ==
  ASSUME Inv, UNCHANGED faults
  PROVE  faults' \in 0..MaxFaults
BY DEF Inv, TypeOK

LEMMA Responds ==
  ASSUME Inv, NEW r \in Request, Respond(r), UNCHANGED <<tables, scope_expand>>,
         faults' \in 0..MaxFaults, DueIn(req[r], users_roles) = {}
  PROVE  Inv'
<1>1. /\ Idle \in Slot /\ ShapeIn(Idle, users, scopes) /\ WrittenIn(Idle, roles_scopes)
      /\ Idle.pc = "idle"
  BY IdleIs DEF Idle
<1> QED
  BY <1>1, Moves DEF Respond

LEMMA GetKeeps ==
  ASSUME Inv, NEW r \in Request, NEW slot \in Slot, slot.user \in User,
         slot.due = {}, slot.pc \in {"idle", "get"}, req[r].pc \in {"idle", "get"},
         Get(r, slot)
  PROVE  Inv'
<1> DEFINE s == [slot EXCEPT !.pc = "select"]
<1>1. /\ s \in Slot /\ s.pc = "select" /\ s.user \in User /\ s.due = {}
  BY DEF Slot, PC
<1>2. req' = [req EXCEPT ![r] = s] \/ Respond(r)
  BY DEF Get
<1> HIDE DEF s
<1>3. faults' \in 0..MaxFaults
  BY FaultBound, SameFaults DEF Get
<1>4. ShapeIn(s, users, scopes) /\ WrittenIn(s, roles_scopes)
  BY <1>1 DEF ShapeIn, WrittenIn, Writing, Filling, Enrolling
<1>5. DueIn(req[r], users_roles) = {}
  BY NotDue DEF Writing
<1>6. UNCHANGED <<tables, scope_expand>>
  BY DEF Get
<1>7. CASE req' = [req EXCEPT ![r] = s]
  BY <1>1, <1>3, <1>4, <1>5, <1>6, <1>7, Moves
<1>8. CASE Respond(r)
  BY <1>3, <1>5, <1>6, <1>8, Responds
<1> QED
  BY <1>2, <1>7, <1>8

LEMMA ExpandKeeps ==
  ASSUME Inv, NEW r \in Request, NEW u \in User, Expand(r, u)
  PROVE  Inv'
<1>1. /\ [Idle EXCEPT !.user = u] \in Slot
      /\ [Idle EXCEPT !.user = u].user = u
      /\ [Idle EXCEPT !.user = u].due = {}
      /\ [Idle EXCEPT !.user = u].pc = "idle"
  BY IdleIs DEF Idle, Slot
<1>2. req[r].pc = "idle" /\ Get(r, [Idle EXCEPT !.user = u])
  BY DEF Expand, At
<1> QED
  BY <1>1, <1>2, GetKeeps

LEMMA ExpandRegisteredKeeps ==
  ASSUME Inv, NEW r \in Request, ExpandRegistered(r)
  PROVE  Inv'
<1>1. req[r] \in Slot /\ req[r].user \in User /\ req[r].due = {} /\ req[r].pc = "get"
  BY DEF ExpandRegistered, At, Inv, TypeOK, Shapes, ShapeIn, Filling
<1> QED
  BY <1>1, GetKeeps DEF ExpandRegistered

LEMMA SelectScopesKeeps ==
  ASSUME Inv, NEW r \in Request, SelectScopes(r)
  PROVE  Inv'
<1>1. /\ req \in [Request -> Slot] /\ req[r] \in Slot /\ req[r].pc = "select"
      /\ req[r].user \in User /\ req[r].due = {}
  BY DEF SelectScopes, At, Inv, TypeOK, Shapes, ShapeIn, Filling
<1>2. DueIn(req[r], users_roles) = {}
  BY <1>1, NotDue DEF Writing
<1>3. UNCHANGED <<tables, scope_expand>>
  BY DEF SelectScopes
<1>4. CASE /\ req' = [req EXCEPT ![r].pc = "setex", ![r].list = Granted(req[r].user)]
           /\ UNCHANGED faults
  <2> DEFINE s == [req[r] EXCEPT !.pc = "setex", !.list = Granted(req[r].user)]
  <2>1. Granted(req[r].user) \subseteq Scope
    BY <1>1 DEF Granted, Inv, TypeOK
  <2>2. /\ s \in Slot /\ s.pc = "setex" /\ s.user = req[r].user /\ s.due = {}
        /\ s.list = Granted(req[r].user)
    BY <1>1, <2>1 DEF Slot, PC
  <2>3. req' = [req EXCEPT ![r] = s]
    BY <1>1, <1>4
  <2> HIDE DEF s
  <2>4. ShapeIn(s, users, scopes) /\ WrittenIn(s, roles_scopes)
    BY <1>1, <2>2 DEF ShapeIn, WrittenIn, Writing, Filling, Enrolling
  <2> QED
    BY <1>2, <1>3, <1>4, <2>2, <2>3, <2>4, SameFaults, Moves
<1>5. CASE /\ Fault
           /\ req' = [req EXCEPT ![r].pc = "setex", ![r].list = {}, ![r].excused = TRUE]
  <2> DEFINE s == [req[r] EXCEPT !.pc = "setex", !.list = {}, !.excused = TRUE]
  <2>1. /\ s \in Slot /\ s.pc = "setex" /\ s.user = req[r].user /\ s.due = {} /\ s.excused
    BY <1>1 DEF Slot, PC
  <2>2. req' = [req EXCEPT ![r] = s]
    BY <1>1, <1>5
  <2> HIDE DEF s
  <2>3. ShapeIn(s, users, scopes) /\ WrittenIn(s, roles_scopes)
    BY <1>1, <2>1 DEF ShapeIn, WrittenIn, Writing, Filling, Enrolling
  <2> QED
    BY <1>2, <1>3, <1>5, <2>1, <2>2, <2>3, FaultBound, Moves
<1> QED
  BY <1>4, <1>5 DEF SelectScopes

LEMMA SetCacheKeeps ==
  ASSUME Inv, NEW r \in Request, SetCache(r)
  PROVE  Inv'
<1>1. /\ req[r] \in Slot /\ req[r].pc = "setex" /\ req[r].user \in User
      /\ UNCHANGED tables /\ Respond(r)
  BY DEF SetCache, At, Inv, TypeOK, Shapes, ShapeIn, Filling
<1>2. DueIn(req[r], users_roles) = {}
  BY <1>1, NotDue DEF Writing
<1>3. CASE /\ scope_expand' = [scope_expand EXCEPT ![req[r].user] =
                [scopes |-> req[r].list, ttl |-> TTL, excused |-> req[r].excused]]
           /\ UNCHANGED faults
  <2> DEFINE e == [scopes |-> req[r].list, ttl |-> TTL, excused |-> req[r].excused]
  <2>1. /\ e \in Entry /\ e.scopes = req[r].list /\ e.excused = req[r].excused
    BY <1>1, BoundAssumption DEF Slot, Entry
  <2>7. scope_expand' = [scope_expand EXCEPT ![req[r].user] = e]
    BY <1>3
  <2> HIDE DEF e
  <2>2. /\ scope_expand' \in [User -> Entry]
        /\ scope_expand'[req[r].user] = e
        /\ \A u \in User \ {req[r].user} : scope_expand'[u] = scope_expand[u]
    BY <1>1, <2>1, <2>7 DEF Inv, TypeOK
  <2>3. ~req[r].excused => req[r].list = Granted(req[r].user)
    BY <1>1 DEF Inv, Fills
  <2>4. \A u \in User : scope_expand'[u].ttl > 0 =>
           \/ scope_expand'[u].excused
           \/ u \in DueIn(Idle, users_roles)
           \/ scope_expand'[u].scopes = Granted(u)
           \/ scope_expand'[u] = scope_expand[u] /\ u \notin DueIn(req[r], users_roles)
    BY <1>2, <2>1, <2>2, <2>3
  <2>5. /\ Idle \in Slot /\ ShapeIn(Idle, users', scopes') /\ WrittenIn(Idle, roles_scopes)
        /\ Idle.pc = "idle"
    BY IdleIs DEF Idle
  <2>6. /\ users \subseteq users' /\ users' \subseteq User
        /\ scopes \subseteq scopes' /\ scopes' \subseteq Scope
        /\ roles' \in [Role -> RoleState]
        /\ \A ro \in Role : Exists(ro) => Exists(ro)'
        /\ UNCHANGED <<roles_scopes, users_roles>>
        /\ req' = [req EXCEPT ![r] = Idle]
    BY <1>1 DEF Inv, TypeOK, tables, Exists, Respond
  <2>8. faults' \in 0..MaxFaults /\ scope_expand' \in [User -> Entry]
    BY <1>3, <2>2, SameFaults
  <2> QED
    BY <2>4, <2>5, <2>6, <2>8, Quiet
<1>4. CASE Fault /\ UNCHANGED scope_expand
  BY <1>1, <1>2, <1>4, FaultBound, Responds
<1> QED
  BY <1>3, <1>4 DEF SetCache

\* The lemma Quiet, for a slot that has nothing left to do.
LEMMA Finishes ==
  ASSUME Inv, NEW r \in Request, Respond(r), UNCHANGED tables, faults' \in 0..MaxFaults,
         scope_expand' \in [User -> Entry],
         \A u \in User : scope_expand'[u].ttl > 0 =>
           \/ scope_expand'[u].excused
           \/ scope_expand'[u] = scope_expand[u] /\ u \notin DueIn(req[r], users_roles)
  PROVE  Inv'
<1>1. /\ Idle \in Slot /\ ShapeIn(Idle, users', scopes') /\ WrittenIn(Idle, roles_scopes)
      /\ Idle.pc = "idle"
  BY IdleIs DEF Idle
<1>2. /\ users \subseteq users' /\ users' \subseteq User
      /\ scopes \subseteq scopes' /\ scopes' \subseteq Scope
      /\ roles' \in [Role -> RoleState]
      /\ \A ro \in Role : Exists(ro) => Exists(ro)'
      /\ UNCHANGED <<roles_scopes, users_roles>>
      /\ req' = [req EXCEPT ![r] = Idle]
  BY DEF Inv, TypeOK, tables, Exists, Respond
<1> QED
  BY <1>1, <1>2, Quiet

LEMMA InvalidateKeeps ==
  ASSUME Inv, NEW r \in Request, NEW u \in User, Invalidate(r, u)
  PROVE  Inv'
<1> DEFINE left == req[r].due \ {u}
           go   == [req[r] EXCEPT !.pc = "get", !.due = {}]
           stay == [req[r] EXCEPT !.due = left]
           s    == IF left # {} THEN stay
                   ELSE IF req[r].op = "register" THEN go ELSE Idle
<1>1. /\ req[r] \in Slot /\ req[r].pc = "del" /\ UNCHANGED tables
      /\ req[r].op = "register" => req[r].user \in User
      /\ req[r].due \subseteq User
  BY DEF Invalidate, At, Inv, TypeOK, Shapes, ShapeIn, Slot
<1>2. req' = [req EXCEPT ![r] = s]
  BY DEF Invalidate
<1>3. /\ stay \in Slot /\ stay.pc = "del" /\ stay.due = left
      /\ stay.op = req[r].op /\ stay.user = req[r].user
      /\ go \in Slot /\ go.pc = "get" /\ go.due = {} /\ go.user = req[r].user
  BY <1>1 DEF Slot, PC
<1>4. DueIn(req[r], users_roles) = req[r].due
  BY <1>1 DEF DueIn, Writing
<1> HIDE DEF go, stay
<1>5. /\ ShapeIn(stay, users, scopes) /\ WrittenIn(stay, roles_scopes)
      /\ DueIn(stay, users_roles) = left
  BY <1>1, <1>3 DEF ShapeIn, WrittenIn, DueIn, Writing, Filling, Enrolling
<1>6. req[r].op = "register" =>
        ShapeIn(go, users, scopes) /\ WrittenIn(go, roles_scopes) /\ DueIn(go, users_roles) = {}
  BY <1>1, <1>3 DEF ShapeIn, WrittenIn, DueIn, Writing, Filling, Enrolling
<1>7. /\ s \in Slot /\ s.pc # "setex" /\ ShapeIn(s, users, scopes)
      /\ WrittenIn(s, roles_scopes) /\ DueIn(s, users_roles) = left
  <2>1. CASE left # {}
    BY <1>3, <1>5, <2>1
  <2>2. CASE left = {} /\ req[r].op = "register"
    BY <1>3, <1>6, <2>2
  <2>3. CASE left = {} /\ req[r].op # "register"
    <3>1. s = Idle
      BY <2>3
    <3>2. Idle.pc # "setex"
      BY DEF Idle
    <3> QED
      BY <2>3, <3>1, <3>2, IdleIs
  <2> QED
    BY <2>1, <2>2, <2>3
<1> HIDE DEF s
<1>8. \A v \in User : v # u => (v \in left <=> v \in req[r].due)
  OBVIOUS
<1> HIDE DEF left
<1>9. /\ scope_expand' \in [User -> Entry] /\ faults' \in 0..MaxFaults
      /\ \A v \in User : scope_expand'[v].ttl > 0 =>
           \/ scope_expand'[v].excused
           \/ v # u /\ scope_expand'[v] = scope_expand[v]
  <2>1. CASE scope_expand' = [scope_expand EXCEPT ![u] = NoEntry] /\ UNCHANGED faults
    <3>1. NoEntry \in Entry /\ NoEntry.ttl = 0
      BY BoundAssumption DEF NoEntry, Entry
    <3>2. /\ scope_expand' \in [User -> Entry] /\ scope_expand'[u] = NoEntry
          /\ \A v \in User \ {u} : scope_expand'[v] = scope_expand[v]
      BY <2>1, <3>1 DEF Inv, TypeOK
    <3> QED
      BY <2>1, <3>1, <3>2, SameFaults
  <2>2. CASE Fault /\ Excuse({u})
    BY <2>2, ExcuseKeeps, FaultBound DEF Cached
  <2> QED
    BY <2>1, <2>2 DEF Invalidate
<1>10. \A v \in User : scope_expand'[v].ttl > 0 =>
         \/ scope_expand'[v].excused
         \/ v \in DueIn(s, users_roles)
         \/ scope_expand'[v].scopes = Granted(v)
         \/ scope_expand'[v] = scope_expand[v] /\ v \notin DueIn(req[r], users_roles)
  BY <1>4, <1>7, <1>8, <1>9
<1>11. /\ users \subseteq users' /\ users' \subseteq User
       /\ scopes \subseteq scopes' /\ scopes' \subseteq Scope
       /\ roles' \in [Role -> RoleState]
       /\ \A ro \in Role : Exists(ro) => Exists(ro)'
       /\ UNCHANGED <<roles_scopes, users_roles>>
       /\ ShapeIn(s, users', scopes')
  BY <1>1, <1>7 DEF Inv, TypeOK, tables, Exists
<1> QED
  BY <1>2, <1>7, <1>9, <1>10, <1>11, Quiet

LEMMA Ages ==
  ASSUME NEW e \in Entry, e.ttl > 1
  PROVE  /\ e.ttl > 0
         /\ [e EXCEPT !.ttl = @ - 1] \in Entry
         /\ [e EXCEPT !.ttl = @ - 1].scopes = e.scopes
         /\ [e EXCEPT !.ttl = @ - 1].excused = e.excused
BY BoundAssumption DEF Entry

LEMMA TickKeeps ==
  ASSUME Inv, Tick
  PROVE  Inv'
<1>1. UNCHANGED <<users, roles, scopes, roles_scopes, users_roles, req, faults>>
  BY DEF Tick, tables
<1>2. \A u \in User : scope_expand[u] \in Entry
  BY DEF Inv, TypeOK
<1>3. \A u \in User : scope_expand'[u] =
        IF scope_expand[u].ttl > 1 THEN [scope_expand[u] EXCEPT !.ttl = @ - 1] ELSE NoEntry
  BY DEF Tick
<1>4. NoEntry \in Entry /\ NoEntry.ttl = 0
  BY BoundAssumption DEF NoEntry, Entry
<1>5. ASSUME NEW u \in User
      PROVE  /\ scope_expand'[u] \in Entry
             /\ scope_expand'[u].ttl > 0 =>
                  /\ scope_expand[u].ttl > 0
                  /\ scope_expand'[u].scopes = scope_expand[u].scopes
                  /\ scope_expand'[u].excused = scope_expand[u].excused
  <2>1. CASE scope_expand[u].ttl > 1
    <3> DEFINE f == [scope_expand[u] EXCEPT !.ttl = @ - 1]
    <3>1. scope_expand'[u] = f
      BY <1>3, <2>1
    <3>2. scope_expand[u] \in Entry
      BY <1>2
    <3>3. /\ scope_expand[u].ttl > 0
          /\ f \in Entry
          /\ f.scopes = scope_expand[u].scopes
          /\ f.excused = scope_expand[u].excused
      BY <2>1, <3>2, Ages
    <3> HIDE DEF f
    <3> QED
      BY <3>1, <3>3
  <2>2. CASE ~(scope_expand[u].ttl > 1)
    <3>1. scope_expand'[u] = NoEntry
      BY <1>3, <2>2
    <3>2. ~(NoEntry.ttl > 0)
      BY <1>4
    <3> QED
      BY <1>4, <3>1, <3>2
  <2> QED
    BY <2>1, <2>2
<1>6. scope_expand' \in [User -> Entry]
  BY <1>5 DEF Tick
<1>7. TypeOK'
  BY <1>1, <1>6 DEF Inv, TypeOK, Exists, Holders
<1>8. Exists(DefaultRole)' /\ Shapes' /\ Fills' /\ Writes'
  BY <1>1 DEF Inv, Exists, Shapes, Fills, Writes, Granted
<1>9. CacheFollowsRoles'
  BY <1>1, <1>5 DEF Inv, CacheFollowsRoles, Cached, Granted, Due, Holders
<1> QED
  BY <1>7, <1>8, <1>9 DEF Inv

\* The slot of a handler that has just begun.
LEMMA AssignKeeps ==
  ASSUME Inv, NEW r \in Request, NEW u \in User, NEW ro \in Role,
         Assign(r, u, ro) \/ Remove(r, u, ro)
  PROVE  Inv'
<1> DEFINE s == [Idle EXCEPT !.pc = "del", !.due = {u}]
           X == users_roles'[u]
<1>1. s \in Slot /\ s.pc = "del" /\ s.op = "none" /\ s.due = {u}
  BY DEF Slot, PC, Idle, RoleType
<1>2. /\ req' = Straddled([req EXCEPT ![r] = s], {u}) /\ req[r].pc = "idle"
      /\ UNCHANGED <<users, roles, scopes, roles_scopes, scope_expand, faults>>
  BY DEF Assign, Remove, At
<1>3. /\ users_roles' = [users_roles EXCEPT ![u] = X] /\ X \in SUBSET Role
      /\ \A p \in X : Exists(p)
      /\ u \in users
  <2>1. /\ users_roles \in [User -> SUBSET Role]
        /\ \A p \in users_roles[u] : Exists(p)
        /\ users_roles[u] # {} => u \in users
    BY DEF Inv, TypeOK, Holders
  <2>2. CASE Assign(r, u, ro)
    <3>1. /\ users_roles' = [users_roles EXCEPT ![u] = @ \cup {ro}]
          /\ Exists(ro) /\ u \in users
      BY <2>2 DEF Assign, Exists, RoleType
    <3> QED
      BY <2>1, <3>1
  <2>3. CASE Remove(r, u, ro)
    <3>1. /\ users_roles' = [users_roles EXCEPT ![u] = @ \ {ro}]
          /\ ro \in users_roles[u]
      BY <2>3 DEF Remove
    <3> QED
      BY <2>1, <3>1
  <2> QED
    BY <2>2, <2>3
<1> HIDE DEF s, X
<1>4. ShapeIn(s, users, scopes) /\ u \in DueIn(s, users_roles') /\ s.pc \notin Writing
  BY <1>1 DEF ShapeIn, DueIn, Writing, Filling, Enrolling
<1>5. DueIn(req[r], users_roles) = {}
  BY <1>2, NotDue DEF Writing
<1>6. scope_expand' \in [User -> Entry] /\ faults' \in 0..MaxFaults
  BY <1>2, SameFaults DEF Inv, TypeOK
<1>7. \A v \in User \ {u} : scope_expand'[v] = scope_expand[v]
  BY <1>2
<1> QED
  BY <1>1, <1>2, <1>3, <1>4, <1>5, <1>6, <1>7, Grant

LEMMA CreateKeeps ==
  ASSUME Inv, NEW r \in Request, NEW ro \in Role, NEW type \in RoleType, NEW list \in Lists,
         Create(r, ro, type, list)
  PROVE  Inv'
<1> DEFINE s == [Idle EXCEPT !.pc = "find_scope", !.op = "create", !.role = ro,
                             !.list = list, !.left = list]
<1>1. /\ s \in Slot /\ s.pc = "find_scope" /\ s.op = "create" /\ s.role = ro
      /\ s.left = list /\ s.list = list /\ s.due = {}
  BY ListAssumption DEF Slot, PC, Idle, RoleType
<1>2. /\ req' = [req EXCEPT ![r] = s] /\ req[r].pc = "idle" /\ roles[ro] = "unborn"
      /\ roles' = [roles EXCEPT ![ro] = type]
      /\ UNCHANGED <<users, scopes, roles_scopes, users_roles, scope_expand, faults>>
  BY DEF Create, At
<1> HIDE DEF s
<1>3. ShapeIn(s, users', scopes') /\ WrittenIn(s, roles_scopes)
  BY <1>1 DEF ShapeIn, WrittenIn, Writing, Filling, Enrolling
<1>4. DueIn(req[r], users_roles) = {}
  BY <1>2, NotDue DEF Writing
<1>5. /\ users \subseteq users' /\ users' \subseteq User
      /\ scopes \subseteq scopes' /\ scopes' \subseteq Scope
      /\ roles' \in [Role -> RoleState]
      /\ \A p \in Role : Exists(p) => Exists(p)'
  BY <1>2 DEF Inv, TypeOK, Exists, RoleState, RoleType
<1>6. UNCHANGED <<roles_scopes, users_roles, scope_expand>> /\ faults' \in 0..MaxFaults
  BY <1>2, SameFaults
<1> QED
  BY <1>1, <1>2, <1>3, <1>4, <1>5, <1>6, Still

LEMMA UpdateKeeps ==
  ASSUME Inv, NEW r \in Request, NEW ro \in Role, NEW type \in RoleType, NEW list \in Lists,
         Update(r, ro, type, list)
  PROVE  Inv'
<1> DEFINE s == [Idle EXCEPT !.pc = "set_type", !.op = "update",
                   !.role = ro, !.type = type, !.list = list, !.left = list]
<1>1. /\ s \in Slot /\ s.pc = "set_type" /\ s.op = "update" /\ s.role = ro
      /\ s.left = list /\ s.list = list /\ s.due = {}
  BY ListAssumption DEF Slot, PC, Idle, RoleType
<1>2. /\ req' = [req EXCEPT ![r] = s] /\ req[r].pc = "idle" /\ ro # DefaultRole
      /\ UNCHANGED <<tables, scope_expand, faults>>
  BY DEF Update, At
<1> HIDE DEF s
<1>3. ShapeIn(s, users, scopes) /\ WrittenIn(s, roles_scopes)
  BY <1>1, <1>2 DEF ShapeIn, WrittenIn, Writing, Filling, Enrolling
<1>4. DueIn(req[r], users_roles) = {}
  BY <1>2, NotDue DEF Writing
<1> QED
  BY <1>1, <1>2, <1>3, <1>4, SameFaults, Moves

LEMMA SetTypeKeeps ==
  ASSUME Inv, NEW r \in Request, SetType(r)
  PROVE  Inv'
<1> DEFINE ro == req[r].role
           s == [req[r] EXCEPT !.pc = "delete_scopes", !.type = "user"]
<1>1. /\ req[r] \in Slot /\ req[r].pc = "set_type" /\ req[r].op = "update" /\ ro \in Role
      /\ ro # DefaultRole /\ req[r].left = req[r].list /\ req[r].due = {}
  BY DEF SetType, At, Inv, TypeOK, Shapes, ShapeIn
<1>2. DueIn(req[r], users_roles) = {}
  BY <1>1, NotDue DEF Writing
<1>3. CASE Exists(ro)
  <2>1. /\ s \in Slot /\ s.pc = "delete_scopes" /\ s.op = "update" /\ s.role = ro
        /\ s.left = s.list /\ s.due = {}
    BY <1>1 DEF Slot, PC, RoleType
  <2>2. /\ req' = [req EXCEPT ![r] = s]
        /\ roles' = [roles EXCEPT ![ro] = req[r].type]
        /\ UNCHANGED <<users, scopes, roles_scopes, users_roles, scope_expand, faults>>
    BY <1>1, <1>3 DEF SetType, Inv, TypeOK
  <2> HIDE DEF s
  <2>3. ShapeIn(s, users', scopes') /\ WrittenIn(s, roles_scopes)
    BY <1>1, <2>1 DEF ShapeIn, WrittenIn, Writing, Filling, Enrolling
  <2>4. req[r].type \in RoleType
    BY <1>1 DEF Slot
  <2>5. /\ users \subseteq users' /\ users' \subseteq User
        /\ scopes \subseteq scopes' /\ scopes' \subseteq Scope
        /\ roles' \in [Role -> RoleState]
        /\ \A p \in Role : Exists(p) => Exists(p)'
    BY <1>1, <2>2, <2>4 DEF Inv, TypeOK, Exists, RoleState
  <2>6. UNCHANGED <<roles_scopes, users_roles, scope_expand>> /\ faults' \in 0..MaxFaults
    BY <2>2, SameFaults
  <2> QED
    BY <1>2, <2>1, <2>2, <2>3, <2>5, <2>6, Still
<1>4. CASE ~Exists(ro)
  <2>1. Respond(r) /\ UNCHANGED <<tables, scope_expand, faults>>
    BY <1>4 DEF SetType, tables
  <2> QED
    BY <1>2, <2>1, SameFaults, Responds
<1> QED
  BY <1>3, <1>4

LEMMA DeleteScopesKeeps ==
  ASSUME Inv, NEW r \in Request, DeleteScopes(r)
  PROVE  Inv'
<1> DEFINE s == [req[r] EXCEPT !.pc = "find_scope"]
<1>0. PICK ro \in Role : ro = req[r].role
  BY DEF DeleteScopes, At, Inv, TypeOK, Shapes, ShapeIn
<1>1. /\ req \in [Request -> Slot] /\ req[r] \in Slot /\ req[r].pc = "delete_scopes"
      /\ req[r].op = "update" /\ ro = req[r].role /\ req[r].left = req[r].list /\ req[r].due = {}
      /\ ro # DefaultRole
  BY <1>0 DEF DeleteScopes, At, Inv, TypeOK, Shapes, ShapeIn
<1>2. DueIn(req[r], users_roles) = {}
  BY <1>1, NotDue DEF Writing
<1>3. /\ s \in Slot /\ s.pc = "find_scope" /\ s.op = "update" /\ s.role = ro
      /\ s.left = s.list /\ s.due = {}
  BY <1>1 DEF Slot, PC
<1>4. [req EXCEPT ![r].pc = "find_scope"] = [req EXCEPT ![r] = s]
  BY <1>1
<1> HIDE DEF s
<1>5. /\ req' = Overlapped(r, [req EXCEPT ![r] = s], ro)
      /\ roles_scopes' = [roles_scopes EXCEPT ![ro] = {}]
      /\ UNCHANGED <<users, roles, scopes, users_roles, scope_expand, faults>>
  <2>1. req' = Overlapped(r, [req EXCEPT ![r].pc = "find_scope"], ro)
    BY <1>0 DEF DeleteScopes
  <2> QED
    BY <1>0, <1>4, <2>1 DEF DeleteScopes
<1>6. roles_scopes'[ro] = {} /\ {} \in SUBSET scopes
  BY <1>1, <1>5 DEF Inv, TypeOK
<1>7. ShapeIn(s, users, scopes)
  BY <1>1, <1>3 DEF ShapeIn, Writing, Filling, Enrolling
<1>8. WrittenIn(s, roles_scopes')
  <2>1. s.list \ s.left = {}
    BY <1>3
  <2> QED
    BY <1>3, <1>6, <2>1 DEF WrittenIn
<1>9. DueIn(s, users_roles) = Holders(ro)
  BY <1>3 DEF DueIn, Holders, Writing
<1>10. ~Exists(ro)' => Holders(ro) = {} /\ ro # DefaultRole
  BY <1>1, <1>5 DEF Inv, TypeOK, Exists
<1>11. /\ roles' \in [Role -> RoleState] /\ \A p \in Role \ {ro} : roles'[p] = roles[p]
       /\ scope_expand' \in [User -> Entry] /\ faults' \in 0..MaxFaults
       /\ \A u \in User : /\ scope_expand'[u].ttl = scope_expand[u].ttl
                          /\ scope_expand'[u].scopes = scope_expand[u].scopes
                          /\ scope_expand[u].excused => scope_expand'[u].excused
  BY <1>5 DEF Inv, TypeOK
<1> QED
  <2>1. s.pc # "setex" /\ UNCHANGED <<users, scopes, users_roles>>
    BY <1>3, <1>5
  <2>2. DueIn(req[r], users_roles) \subseteq DueIn(s, users_roles)
    BY <1>2
  <2>3. \A u \in Holders(ro) : u \in DueIn(s, users_roles)
    BY <1>9
  <2>4. ~Exists(ro)' => {} = {} /\ Holders(ro) = {} /\ ro # DefaultRole
    BY <1>10
  <2> QED
    BY <1>3, <1>5, <1>6, <1>7, <1>8, <1>11, <2>1, <2>2, <2>3, <2>4, Rewrite

LEMMA FindScopeKeeps ==
  ASSUME Inv, NEW r \in Request, NEW sc \in Scope, FindScope(r, sc)
  PROVE  Inv'
<1> DEFINE next == IF sc \in scopes THEN "link" ELSE "create_scope"
           s == [req[r] EXCEPT !.pc = next, !.scope = sc]
<1>1. /\ req \in [Request -> Slot] /\ req[r] \in Slot /\ req[r].pc = "find_scope"
      /\ req[r].op \in {"create", "update"} /\ req[r].role \in Role /\ req[r].due = {}
      /\ req[r].left \subseteq req[r].list /\ sc \in req[r].left
  BY DEF FindScope, At, Inv, TypeOK, Shapes, ShapeIn, Writing
<1>2. next \in {"link", "create_scope"} /\ (next = "link" => sc \in scopes)
  OBVIOUS
<1>3. req' = [req EXCEPT ![r] = s] /\ UNCHANGED <<tables, scope_expand, faults>>
  BY <1>1 DEF FindScope
<1> HIDE DEF next
<1>4. /\ s \in Slot /\ s.pc = next /\ s.scope = sc /\ s.op = req[r].op /\ s.due = {}
      /\ s.role = req[r].role /\ s.left = req[r].left /\ s.list = req[r].list
      /\ s.excused = req[r].excused
  BY <1>1, <1>2 DEF Slot, PC
<1> HIDE DEF s
<1>5. ShapeIn(s, users, scopes)
  BY <1>1, <1>2, <1>4 DEF ShapeIn, Writing, Filling, Enrolling
<1>6. WrittenIn(s, roles_scopes)
  <2>1. WrittenIn(req[r], roles_scopes)
    BY DEF Inv, Writes
  <2> QED
    BY <1>1, <1>2, <1>4, <2>1 DEF WrittenIn, Writing
<1>7. DueIn(s, users_roles) = DueIn(req[r], users_roles)
  BY <1>1, <1>2, <1>4 DEF DueIn, Writing
<1>8. s.pc # "setex"
  BY <1>2, <1>4
<1> QED
  BY <1>3, <1>4, <1>5, <1>6, <1>7, <1>8, SameFaults, Moves

LEMMA AbortKeeps ==
  ASSUME Inv, NEW r \in Request, Abort(r)
  PROVE  Inv'
BY FaultBound, GiveUpKeeps DEF Abort

LEMMA CreateScopeKeeps ==
  ASSUME Inv, NEW r \in Request, CreateScope(r)
  PROVE  Inv'
<1> DEFINE s == [req[r] EXCEPT !.pc = "link"]
<1>1. /\ req[r] \in Slot /\ req[r].pc = "create_scope"
      /\ req[r].op \in {"create", "update"} /\ req[r].role \in Role /\ req[r].due = {}
      /\ req[r].left \subseteq req[r].list /\ req[r].scope \in req[r].left
      /\ req[r].scope \in Scope
  BY DEF CreateScope, At, Inv, TypeOK, Shapes, ShapeIn, Writing, Slot
<1>2. CASE req[r].scope \in scopes
  <2>1. GiveUp(r) /\ UNCHANGED tables /\ UNCHANGED faults
    BY <1>2 DEF CreateScope, tables
  <2> QED
    BY <2>1, SameFaults, GiveUpKeeps
<1>3. CASE req[r].scope \notin scopes
  <2>1. /\ req' = [req EXCEPT ![r] = s] /\ scopes' = scopes \cup {req[r].scope}
        /\ UNCHANGED <<users, roles, roles_scopes, users_roles, scope_expand, faults>>
    BY <1>1, <1>3 DEF CreateScope, Goto
  <2>2. /\ s \in Slot /\ s.pc = "link" /\ s.op = req[r].op /\ s.scope = req[r].scope
        /\ s.role = req[r].role /\ s.left = req[r].left /\ s.list = req[r].list
        /\ s.excused = req[r].excused /\ s.due = {}
    BY <1>1 DEF Slot, PC
  <2> HIDE DEF s
  <2>3. ShapeIn(s, users', scopes')
    BY <1>1, <2>1, <2>2 DEF ShapeIn, Writing, Filling, Enrolling
  <2>4. WrittenIn(s, roles_scopes)
    <3>1. WrittenIn(req[r], roles_scopes)
      BY DEF Inv, Writes
    <3> QED
      BY <1>1, <2>2, <3>1 DEF WrittenIn, Writing
  <2>5. DueIn(s, users_roles) = DueIn(req[r], users_roles)
    BY <1>1, <2>2 DEF DueIn, Writing
  <2>6. /\ users \subseteq users' /\ users' \subseteq User
        /\ scopes \subseteq scopes' /\ scopes' \subseteq Scope
        /\ roles' \in [Role -> RoleState]
        /\ \A p \in Role : Exists(p) => Exists(p)'
        /\ faults' \in 0..MaxFaults
    BY <1>1, <2>1, SameFaults DEF Inv, TypeOK, Exists
  <2> QED
    BY <2>1, <2>2, <2>3, <2>4, <2>5, <2>6, Still
<1> QED
  BY <1>2, <1>3

LEMMA LinkKeeps ==
  ASSUME Inv, NEW r \in Request, Link(r)
  PROVE  Inv'
<1>0. PICK ro \in Role : ro = req[r].role
  BY DEF Link, At, Inv, TypeOK, Shapes, ShapeIn, Writing
<1> DEFINE left == req[r].left \ {req[r].scope}
           next == IF left # {} THEN "find_scope" ELSE "select_users"
           t == [req[r] EXCEPT !.pc = next, !.left = left, !.scope = NULL]
           done == req[r].op = "create" /\ left = {}
           s == IF done THEN Idle ELSE t
           X == roles_scopes[ro] \cup {req[r].scope}
<1>1. /\ req[r] \in Slot /\ req[r].pc = "link" /\ ro = req[r].role
      /\ req[r].op \in {"create", "update"} /\ req[r].due = {}
      /\ req[r].left \subseteq req[r].list /\ req[r].scope \in req[r].left
      /\ req[r].scope \in scopes
  BY <1>0 DEF Link, At, Inv, TypeOK, Shapes, ShapeIn, Writing
<1>2. CASE ~Exists(ro)
  <2>1. GiveUp(r) /\ UNCHANGED tables /\ UNCHANGED faults
    BY <1>0, <1>2 DEF Link, tables
  <2> QED
    BY <2>1, SameFaults, GiveUpKeeps
<1>3. CASE Exists(ro)
  <2>1. /\ roles_scopes' = [roles_scopes EXCEPT ![ro] = X]
        /\ req' = Overlapped(r, [req EXCEPT ![r] = s], ro)
        /\ Excuse(IF req[r].op = "create" THEN Holders(ro) ELSE {})
        /\ UNCHANGED <<users, roles, scopes, users_roles, faults>>
    BY <1>0, <1>3 DEF Link
  <2>2. next \in {"find_scope", "select_users"} /\ (next = "select_users" => left = {})
    OBVIOUS
  <2> HIDE DEF next
  <2>3. /\ t \in Slot /\ t.pc = next /\ t.op = req[r].op /\ t.role = ro /\ t.due = {}
        /\ t.left = left /\ t.list = req[r].list /\ t.excused = req[r].excused
    BY <1>1, <2>2 DEF Slot, PC
  <2>4. X \in SUBSET scopes /\ roles_scopes'[ro] = X
    BY <1>1, <2>1 DEF Inv, TypeOK
  <2> HIDE DEF t
  <2>5. done \/ (next = "select_users" => req[r].op = "update")
    BY <1>1, <2>2
  <2>6. ~done => ShapeIn(t, users, scopes)
    BY <1>1, <2>2, <2>3, <2>5 DEF ShapeIn, Writing, Filling, Enrolling
  <2>7. WrittenIn(t, roles_scopes')
    <3>1. WrittenIn(req[r], roles_scopes)
      BY DEF Inv, Writes
    <3>2. req[r].op = "update" /\ ~req[r].excused =>
            roles_scopes[ro] = req[r].list \ req[r].left
      BY <1>1, <3>1 DEF WrittenIn, Writing
    <3>3. req[r].op = "update" /\ ~req[r].excused => X = req[r].list \ left
      BY <1>1, <3>2
    <3> QED
      BY <2>3, <2>4, <3>3 DEF WrittenIn
  <2>8. /\ s \in Slot /\ s.pc # "setex" /\ ShapeIn(s, users, scopes)
        /\ WrittenIn(s, roles_scopes')
    <3>1. CASE done
      <4>1. s = Idle
        BY <3>1
      <4>2. Idle.pc # "setex"
        BY DEF Idle
      <4> HIDE DEF s
      <4> QED
        BY <4>1, <4>2, IdleIs
    <3>2. CASE ~done
      BY <2>2, <2>3, <2>6, <2>7, <3>2
    <3> QED
      BY <3>1, <3>2
  <2>9. DueIn(req[r], users_roles) \subseteq DueIn(s, users_roles)
    <3>1. CASE req[r].op = "create"
      BY <1>1, <3>1, NotDue
    <3>2. CASE req[r].op = "update"
      <4>1. s = t
        BY <3>2
      <4>2. DueIn(t, users_roles) = DueIn(req[r], users_roles)
        BY <1>1, <2>2, <2>3, <3>2 DEF DueIn, Writing
      <4> QED
        BY <4>1, <4>2
    <3> QED
      BY <1>1, <3>1, <3>2
  <2>10. /\ scope_expand' \in [User -> Entry]
         /\ \A u \in User : /\ scope_expand'[u].ttl = scope_expand[u].ttl
                            /\ scope_expand'[u].scopes = scope_expand[u].scopes
                            /\ scope_expand[u].excused => scope_expand'[u].excused
                            /\ /\ u \in (IF req[r].op = "create" THEN Holders(ro) ELSE {})
                               /\ Cached(u)
                               => scope_expand'[u].excused
    BY <2>1, ExcuseKeeps
  <2>11. \A u \in Holders(ro) : scope_expand'[u].ttl > 0 =>
           u \in DueIn(s, users_roles) \/ scope_expand'[u].excused
    <3>1. CASE req[r].op = "create"
      BY <2>10, <3>1 DEF Cached, Holders
    <3>2. CASE req[r].op = "update"
      <4>1. DueIn(req[r], users_roles) = Holders(ro)
        BY <1>1, <3>2 DEF DueIn, Holders, Writing
      <4> QED
        BY <2>9, <4>1
    <3> QED
      BY <1>1, <3>1, <3>2
  <2> HIDE DEF s
  <2>12. /\ roles' \in [Role -> RoleState] /\ \A p \in Role \ {ro} : roles'[p] = roles[p]
         /\ faults' \in 0..MaxFaults /\ Exists(ro)'
    BY <1>3, <2>1, SameFaults DEF Inv, TypeOK, Exists
  <2> HIDE DEF X
  <2> QED
    BY <2>1, <2>4, <2>8, <2>9, <2>10, <2>11, <2>12, Rewrite
<1> QED
  BY <1>2, <1>3

LEMMA SelectUsersKeeps ==
  ASSUME Inv, NEW r \in Request, SelectUsers(r)
  PROVE  Inv'
<1> DEFINE due == Holders(req[r].role)
           t == [Idle EXCEPT !.pc = "del", !.due = due]
<1>1. req[r] \in Slot /\ req[r].pc = "select_users" /\ req[r].op = "update"
  BY DEF SelectUsers, At, Inv, TypeOK, Shapes, ShapeIn
<1>2. CASE Fault /\ GiveUp(r)
  BY <1>2, FaultBound, GiveUpKeeps DEF SelectUsers
<1>3. CASE /\ req' = [req EXCEPT ![r] = IF due = {} THEN Idle ELSE t]
           /\ UNCHANGED <<scope_expand, faults>>
  <2>1. /\ t \in Slot /\ t.pc = "del" /\ t.op = "none" /\ t.due = due
    BY DEF Slot, PC, Idle, RoleType, Holders
  <2>2. DueIn(req[r], users_roles) = due
    BY <1>1 DEF DueIn, Holders, Writing
  <2> HIDE DEF t
  <2>3. /\ ShapeIn(t, users, scopes) /\ WrittenIn(t, roles_scopes)
        /\ DueIn(t, users_roles) = due
    BY <2>1 DEF ShapeIn, WrittenIn, DueIn, Writing, Filling, Enrolling
  <2>4. CASE due = {}
    <3>1. Respond(r) /\ UNCHANGED <<tables, scope_expand, faults>>
      BY <1>3, <2>4 DEF Respond, SelectUsers
    <3> QED
      BY <2>2, <2>4, <3>1, SameFaults, Responds
  <2>5. CASE due # {}
    <3>1. req' = [req EXCEPT ![r] = t] /\ UNCHANGED <<tables, scope_expand, faults>>
      BY <1>3, <2>5 DEF SelectUsers
    <3> QED
      BY <2>1, <2>2, <2>3, <3>1, SameFaults, Moves
  <2> QED
    BY <2>4, <2>5
<1> QED
  BY <1>2, <1>3 DEF SelectUsers

LEMMA DeleteKeeps ==
  ASSUME Inv, NEW r \in Request, NEW ro \in Role, Delete(r, ro)
  PROVE  Inv'
<1> DEFINE s == [Idle EXCEPT !.pc = "assignments", !.role = ro]
<1>1. s \in Slot /\ s.pc = "assignments" /\ s.role = ro /\ s.due = {} /\ s.op = "none"
  BY DEF Slot, PC, Idle, RoleType
<1>2. /\ req' = [req EXCEPT ![r] = s] /\ req[r].pc = "idle" /\ ro # DefaultRole
      /\ UNCHANGED <<tables, scope_expand, faults>>
  BY DEF Delete, At
<1> HIDE DEF s
<1>3. ShapeIn(s, users, scopes) /\ WrittenIn(s, roles_scopes)
  BY <1>1, <1>2 DEF ShapeIn, WrittenIn, Writing, Filling, Enrolling
<1>4. DueIn(req[r], users_roles) = {}
  BY <1>2, NotDue DEF Writing
<1> QED
  BY <1>1, <1>2, <1>3, <1>4, SameFaults, Moves

LEMMA AssignmentsKeeps ==
  ASSUME Inv, NEW r \in Request, Assignments(r)
  PROVE  Inv'
<1> DEFINE s == [req[r] EXCEPT !.pc = "delete_role"]
<1>1. /\ req[r] \in Slot /\ req[r].pc = "assignments" /\ req[r].role \in Role
      /\ req[r].role # DefaultRole /\ req[r].due = {}
      /\ UNCHANGED <<tables, scope_expand>>
  BY DEF Assignments, At, Inv, TypeOK, Shapes, ShapeIn
<1>2. DueIn(req[r], users_roles) = {}
  BY <1>1, NotDue DEF Writing
<1>3. s \in Slot /\ s.pc = "delete_role" /\ s.role = req[r].role /\ s.due = {}
  BY <1>1 DEF Slot, PC
<1>4. faults' \in 0..MaxFaults /\ (Respond(r) \/ req' = [req EXCEPT ![r] = s])
  BY SameFaults DEF Assignments, Goto
<1> HIDE DEF s
<1>5. ShapeIn(s, users, scopes) /\ WrittenIn(s, roles_scopes)
  BY <1>1, <1>3 DEF ShapeIn, WrittenIn, Writing, Filling, Enrolling
<1>6. CASE Respond(r)
  BY <1>1, <1>2, <1>4, <1>6, Responds
<1>7. CASE req' = [req EXCEPT ![r] = s]
  BY <1>1, <1>2, <1>3, <1>4, <1>5, <1>7, Moves
<1> QED
  BY <1>4, <1>6, <1>7

LEMMA DeleteRoleKeeps ==
  ASSUME Inv, NEW r \in Request, DeleteRole(r)
  PROVE  Inv'
<1>0. PICK ro \in Role : ro = req[r].role
  BY DEF DeleteRole, At, Inv, TypeOK, Shapes, ShapeIn
<1>1. /\ req[r].pc = "delete_role" /\ ro # DefaultRole
      /\ UNCHANGED <<users, scopes, users_roles, scope_expand, faults>>
  BY <1>0 DEF DeleteRole, At, Inv, TypeOK, Shapes, ShapeIn
<1>2. DueIn(req[r], users_roles) = {}
  BY <1>1, NotDue DEF Writing
<1>3. CASE Exists(ro) /\ Holders(ro) = {}
  <2>1. /\ roles' = [roles EXCEPT ![ro] = "deleted"]
        /\ roles_scopes' = [roles_scopes EXCEPT ![ro] = {}]
        /\ req' = Overlapped(r, [req EXCEPT ![r] = Idle], ro)
    BY <1>0, <1>3 DEF DeleteRole
  <2>2. /\ roles' \in [Role -> RoleState] /\ \A p \in Role \ {ro} : roles'[p] = roles[p]
    BY <2>1 DEF Inv, TypeOK, RoleState
  <2>3. /\ scope_expand' \in [User -> Entry] /\ faults' \in 0..MaxFaults
        /\ \A u \in User : /\ scope_expand'[u].ttl = scope_expand[u].ttl
                           /\ scope_expand'[u].scopes = scope_expand[u].scopes
                           /\ scope_expand[u].excused => scope_expand'[u].excused
    BY <1>1, SameFaults DEF Inv, TypeOK
  <2>4. /\ Idle \in Slot /\ ShapeIn(Idle, users, scopes) /\ WrittenIn(Idle, roles_scopes')
        /\ Idle.pc # "setex" /\ {} \in SUBSET scopes
    BY IdleIs DEF Idle
  <2>5. ~Exists(ro)' => {} = {} /\ Holders(ro) = {} /\ ro # DefaultRole
    BY <1>1, <1>3
  <2>6. \A u \in Holders(ro) : scope_expand'[u].ttl > 0 =>
          u \in DueIn(Idle, users_roles) \/ scope_expand'[u].excused
    BY <1>3
  <2>7. DueIn(req[r], users_roles) \subseteq DueIn(Idle, users_roles)
    BY <1>2
  <2> QED
    BY <1>1, <2>1, <2>2, <2>3, <2>4, <2>5, <2>6, <2>7, Rewrite
<1>4. CASE ~(Exists(ro) /\ Holders(ro) = {})
  <2>1. Respond(r) /\ UNCHANGED <<tables, scope_expand, faults>>
    BY <1>0, <1>1, <1>4 DEF DeleteRole, Respond, tables
  <2> QED
    BY <1>2, <2>1, SameFaults, Responds
<1> QED
  BY <1>3, <1>4

LEMMA RegisterKeeps ==
  ASSUME Inv, NEW r \in Request, NEW u \in User, Register(r, u)
  PROVE  Inv'
<1> DEFINE s == [Idle EXCEPT !.pc = "insert_user", !.op = "register", !.user = u]
<1>1. s \in Slot /\ s.pc = "insert_user" /\ s.op = "register" /\ s.user = u /\ s.due = {}
  BY DEF Slot, PC, Idle, RoleType
<1>2. /\ req' = [req EXCEPT ![r] = s] /\ req[r].pc = "idle"
      /\ UNCHANGED <<tables, scope_expand, faults>>
  BY DEF Register, At
<1> HIDE DEF s
<1>3. ShapeIn(s, users, scopes) /\ WrittenIn(s, roles_scopes)
  BY <1>1, <1>2 DEF ShapeIn, WrittenIn, Writing, Filling, Enrolling
<1>4. DueIn(req[r], users_roles) = {}
  BY <1>2, NotDue DEF Writing
<1> QED
  BY <1>1, <1>2, <1>3, <1>4, SameFaults, Moves

\* A user is inserted, and its default role looked up next.
LEMMA Enrols ==
  ASSUME Inv, NEW r \in Request, NEW s \in Slot, NEW u \in User,
         req' = [req EXCEPT ![r] = s], users' = users \cup {u},
         UNCHANGED <<roles, scopes, roles_scopes, users_roles, scope_expand, faults>>,
         s.pc = "default_role", s.op \in {"register", "create_user"}, s.user = u, s.due = {},
         DueIn(req[r], users_roles) = {}
  PROVE  Inv'
<1>1. ShapeIn(s, users', scopes') /\ WrittenIn(s, roles_scopes)
  BY DEF ShapeIn, WrittenIn, Writing, Filling, Enrolling
<1>2. /\ users \subseteq users' /\ users' \subseteq User
      /\ scopes \subseteq scopes' /\ scopes' \subseteq Scope
      /\ roles' \in [Role -> RoleState]
      /\ \A p \in Role : Exists(p) => Exists(p)'
      /\ faults' \in 0..MaxFaults
      /\ UNCHANGED <<roles_scopes, users_roles, scope_expand>>
  BY SameFaults DEF Inv, TypeOK, Exists
<1> QED
  BY <1>1, <1>2, Still

LEMMA InsertUserKeeps ==
  ASSUME Inv, NEW r \in Request, InsertUser(r)
  PROVE  Inv'
<1> DEFINE s == [req[r] EXCEPT !.pc = "default_role"]
<1>1. /\ req[r] \in Slot /\ req[r].pc = "insert_user" /\ req[r].user \in User
      /\ req[r].op \in {"register", "create_user"} /\ req[r].due = {}
  BY DEF InsertUser, At, Inv, TypeOK, Shapes, ShapeIn, Enrolling
<1>2. DueIn(req[r], users_roles) = {}
  BY <1>1, NotDue DEF Writing
<1>3. CASE req[r].user \in users
  <2>1. Respond(r) /\ UNCHANGED <<tables, scope_expand, faults>>
    BY <1>3 DEF InsertUser, tables
  <2> QED
    BY <1>2, <2>1, SameFaults, Responds
<1>4. CASE req[r].user \notin users
  <2>1. /\ s \in Slot /\ s.pc = "default_role" /\ s.op = req[r].op
        /\ s.user = req[r].user /\ s.due = {}
    BY <1>1 DEF Slot, PC
  <2>2. /\ req' = [req EXCEPT ![r] = s] /\ users' = users \cup {req[r].user}
        /\ UNCHANGED <<roles, scopes, roles_scopes, users_roles, scope_expand, faults>>
    BY <1>4 DEF InsertUser, Goto
  <2> HIDE DEF s
  <2> QED
    BY <1>1, <1>2, <2>1, <2>2, Enrols
<1> QED
  BY <1>3, <1>4

LEMMA CreateUserKeeps ==
  ASSUME Inv, NEW r \in Request, NEW u \in User, CreateUser(r, u)
  PROVE  Inv'
<1> DEFINE s == [Idle EXCEPT !.pc = "default_role", !.op = "create_user", !.user = u]
<1>1. s \in Slot /\ s.pc = "default_role" /\ s.op = "create_user" /\ s.user = u /\ s.due = {}
  BY DEF Slot, PC, Idle, RoleType
<1>2. /\ req' = [req EXCEPT ![r] = s] /\ req[r].pc = "idle" /\ users' = users \cup {u}
      /\ UNCHANGED <<roles, scopes, roles_scopes, users_roles, scope_expand, faults>>
  BY DEF CreateUser, At
<1>3. DueIn(req[r], users_roles) = {}
  BY <1>2, NotDue DEF Writing
<1> HIDE DEF s
<1> QED
  BY <1>1, <1>2, <1>3, Enrols

\* Where registration goes on without the role.
LEMMA ProceedKeeps ==
  ASSUME Inv, NEW r \in Request, Proceed(r), UNCHANGED <<tables, scope_expand>>,
         faults' \in 0..MaxFaults, req[r].pc \in {"default_role", "insert_role"}
  PROVE  Inv'
<1> DEFINE s == [req[r] EXCEPT !.pc = "get"]
<1>1. /\ req[r] \in Slot /\ req[r].user \in User /\ req[r].due = {}
  BY DEF Inv, TypeOK, Shapes, ShapeIn, Enrolling
<1>2. DueIn(req[r], users_roles) = {}
  BY NotDue DEF Writing
<1>3. s \in Slot /\ s.pc = "get" /\ s.user = req[r].user /\ s.due = {}
  BY <1>1 DEF Slot, PC
<1>4. Respond(r) \/ req' = [req EXCEPT ![r] = s]
  BY DEF Proceed, Goto
<1> HIDE DEF s
<1>5. ShapeIn(s, users, scopes) /\ WrittenIn(s, roles_scopes)
  BY <1>1, <1>3 DEF ShapeIn, WrittenIn, Writing, Filling, Enrolling
<1>6. CASE Respond(r)
  BY <1>2, <1>6, Responds
<1>7. CASE req' = [req EXCEPT ![r] = s]
  BY <1>2, <1>3, <1>5, <1>7, Moves
<1> QED
  BY <1>4, <1>6, <1>7

LEMMA SelectDefaultRoleKeeps ==
  ASSUME Inv, NEW r \in Request, SelectDefaultRole(r)
  PROVE  Inv'
<1> DEFINE s == [req[r] EXCEPT !.pc = "insert_role"]
<1>1. /\ req[r] \in Slot /\ req[r].user \in users /\ req[r].user \in User /\ req[r].due = {}
      /\ req[r].pc = "default_role" /\ req[r].op \in {"register", "create_user"}
      /\ UNCHANGED <<tables, scope_expand>>
  BY DEF SelectDefaultRole, At, Inv, TypeOK, Shapes, ShapeIn, Enrolling
<1>2. DueIn(req[r], users_roles) = {}
  BY <1>1, NotDue DEF Writing
<1>3. CASE Fault /\ Proceed(r)
  BY <1>1, <1>3, FaultBound, ProceedKeeps
<1>4. CASE Goto(r, "insert_role") /\ UNCHANGED faults
  <2>1. s \in Slot /\ s.pc = "insert_role" /\ s.user = req[r].user /\ s.op = req[r].op /\ s.due = {}
    BY <1>1 DEF Slot, PC
  <2>2. req' = [req EXCEPT ![r] = s]
    BY <1>4 DEF Goto
  <2> HIDE DEF s
  <2>3. ShapeIn(s, users, scopes) /\ WrittenIn(s, roles_scopes)
    BY <1>1, <2>1 DEF ShapeIn, WrittenIn, Writing, Filling, Enrolling
  <2> QED
    BY <1>1, <1>2, <1>4, <2>1, <2>2, <2>3, SameFaults, Moves
<1> QED
  BY <1>3, <1>4 DEF SelectDefaultRole

LEMMA AssignDefaultRoleKeeps ==
  ASSUME Inv, NEW r \in Request, AssignDefaultRole(r)
  PROVE  Inv'
<1>0. PICK u \in User : u = req[r].user
  BY DEF AssignDefaultRole, At, Inv, Shapes, ShapeIn, Enrolling
<1> DEFINE t == [req[r] EXCEPT !.pc = "del", !.due = {u}]
           X == users_roles[u] \cup {DefaultRole}
<1>1. /\ req \in [Request -> Slot] /\ req[r] \in Slot /\ u \in users /\ req[r].due = {}
      /\ req[r].pc = "insert_role" /\ UNCHANGED <<users, roles, scopes, roles_scopes>>
  BY <1>0 DEF AssignDefaultRole, At, Inv, TypeOK, Shapes, ShapeIn, Enrolling
<1>2. DueIn(req[r], users_roles) = {}
  BY <1>1, NotDue DEF Writing
<1>3. X \in SUBSET Role /\ \A p \in X : Exists(p)
  BY SeedAssumption DEF Inv, TypeOK, Holders
<1>4. CASE /\ users_roles' = [users_roles EXCEPT ![u] = X]
           /\ req[r].op = "register"
           /\ req' = Straddled([req EXCEPT ![r].pc = "del", ![r].due = {u}], {u})
           /\ UNCHANGED <<scope_expand, faults>>
  <2>1. [req EXCEPT ![r].pc = "del", ![r].due = {u}] = [req EXCEPT ![r] = t]
    BY <1>1
  <2>2. req' = Straddled([req EXCEPT ![r] = t], {u})
    BY <1>4, <2>1
  <2>3. t \in Slot /\ t.pc = "del" /\ t.op = req[r].op /\ t.user = u /\ t.due = {u}
    BY <1>0, <1>1 DEF Slot, PC
  <2> HIDE DEF t
  <2>4. ShapeIn(t, users, scopes) /\ t.pc \notin Writing /\ u \in DueIn(t, users_roles')
    BY <2>3 DEF ShapeIn, DueIn, Writing, Filling, Enrolling
  <2>5. scope_expand' \in [User -> Entry] /\ faults' \in 0..MaxFaults
    BY <1>4, SameFaults DEF Inv, TypeOK
  <2>6. \A v \in User \ {u} : scope_expand'[v] = scope_expand[v]
    BY <1>4
  <2> HIDE DEF X
  <2> QED
    BY <1>1, <1>2, <1>3, <1>4, <2>2, <2>3, <2>4, <2>5, <2>6, Grant
<1>5. CASE /\ users_roles' = [users_roles EXCEPT ![u] = X]
           /\ req' = Straddled([req EXCEPT ![r] = Idle], {u})
           /\ Excuse({u})
           /\ UNCHANGED faults
  <2>1. /\ scope_expand' \in [User -> Entry] /\ faults' \in 0..MaxFaults
        /\ \A v \in User \ {u} : scope_expand'[v] = scope_expand[v]
        /\ scope_expand'[u].ttl > 0 => scope_expand'[u].excused
    BY <1>5, ExcuseKeeps, SameFaults DEF Cached
  <2>2. Idle \in Slot /\ ShapeIn(Idle, users, scopes) /\ Idle.pc = "idle"
    BY IdleIs DEF Idle
  <2>3. Idle.pc # "setex" /\ Idle.pc \notin Writing
    BY <2>2 DEF Writing
  <2> HIDE DEF X
  <2> QED
    BY <1>1, <1>2, <1>3, <1>5, <2>1, <2>2, <2>3, Grant
<1>6. CASE Fault /\ Proceed(r) /\ UNCHANGED <<users_roles, scope_expand>>
  <2>1. UNCHANGED <<tables, scope_expand>>
    BY <1>1, <1>6 DEF tables
  <2> QED
    BY <1>1, <1>6, <2>1, FaultBound, ProceedKeeps
<1> QED
  BY <1>0, <1>4, <1>5, <1>6 DEF AssignDefaultRole

-----------------------------------------------------------------------------
(* Every step, and the theorems.                                           *)

LEMMA StutterKeeps ==
  ASSUME Inv, UNCHANGED vars
  PROVE  Inv'
BY DEF vars, tables, Inv, TypeOK, Exists, Holders, Shapes, Fills, Writes, Granted,
       CacheFollowsRoles, Cached, Due

LEMMA NextKeeps ==
  ASSUME Inv, [Next]_vars
  PROVE  Inv'
<1>1. CASE UNCHANGED vars
  BY <1>1, StutterKeeps
<1>2. CASE Tick
  BY <1>2, TickKeeps
<1>3. ASSUME NEW r \in Request, Handler(r) PROVE Inv'
  BY <1>3, ExpandRegisteredKeeps, SelectScopesKeeps, SetCacheKeeps, SetTypeKeeps,
     DeleteScopesKeeps, CreateScopeKeeps, LinkKeeps, FindScopeKeeps, SelectUsersKeeps,
     InvalidateKeeps, AssignmentsKeeps, DeleteRoleKeeps, InsertUserKeeps,
     SelectDefaultRoleKeeps, AssignDefaultRoleKeeps DEF Handler
<1>4. ASSUME NEW r \in Request, Arrival(r) PROVE Inv'
  BY <1>4, ExpandKeeps, RegisterKeeps, CreateUserKeeps, AssignKeeps, CreateKeeps,
     UpdateKeeps, DeleteKeeps DEF Arrival
<1>5. ASSUME NEW r \in Request, Abort(r) PROVE Inv'
  BY <1>5, AbortKeeps
<1> QED
  BY <1>1, <1>2, <1>3, <1>4, <1>5 DEF Next

THEOREM InvHolds == Spec => []Inv
<1>1. Init => Inv
  BY InitInv
<1>2. Inv /\ [Next]_vars => Inv'
  BY NextKeeps
<1> QED
  BY <1>1, <1>2, PTL DEF Spec

\* Tables, cache and slots stay well formed under any interleaving of the role,
\* registration and introspection handlers: only roles that exist have scopes or
\* holders (roles.rs:443-502), only registered users hold roles.
THEOREM TypeCorrect == Spec => []TypeOK
<1>1. Inv => TypeOK
  BY DEF Inv
<1> QED
  BY <1>1, InvHolds, PTL

\* Any number of replicas, users and handlers: a cached scope list that differs
\* from what the roles grant is about to be deleted, or is excused
\* (scope_expander.rs:38-75, roles.rs:297-311).
THEOREM CacheCorrect == Spec => []CacheFollowsRoles
<1>1. Inv => CacheFollowsRoles
  BY DEF Inv
<1> QED
  BY <1>1, InvHolds, PTL

\* An update that no other handler overlaps gives the role exactly the scopes
\* asked for, whatever fails in between (roles.rs:417-440).
THEOREM UpdateCorrect == Spec => []UpdateReplacesScopes
<1>1. Inv => UpdateReplacesScopes
  <2> SUFFICES ASSUME Inv, NEW r \in Request, req[r].pc = "select_users", ~req[r].excused
               PROVE  roles_scopes[req[r].role] = req[r].list
    BY DEF UpdateReplacesScopes, At
  <2>1. req[r].op = "update" /\ req[r].left = {}
    BY DEF Inv, Shapes, ShapeIn
  <2>2. roles_scopes[req[r].role] = req[r].list \ req[r].left
    BY <2>1 DEF Inv, Writes, WrittenIn, Writing
  <2> QED
    BY <2>1, <2>2
<1> QED
  BY <1>1, InvHolds, PTL

-----------------------------------------------------------------------------
(* A stale entry ages.                                                     *)

\* No fill takes up another list than the one its user has.
FillsAlike ==
  \A q \in Request : req'[q].pc = "setex" =>
    \/ req[q].pc = "setex" /\ req'[q].user = req[q].user /\ req'[q].list = req[q].list
    \/ req'[q].list = Granted(req'[q].user)

\* No entry is renewed.
EntriesAge ==
  \A u \in User :
    \/ scope_expand'[u].ttl = 0
    \/ /\ scope_expand'[u].ttl <= scope_expand[u].ttl
       /\ scope_expand'[u].scopes = scope_expand[u].scopes

\* StaleIsBounded, for one user and one step.
Bounded(u) ==
  Granted(u)' = Granted(u) /\ faults' = faults =>
    /\ StaleFills(u)' \subseteq StaleFills(u)
    /\ StaleFills(u)' = StaleFills(u) => StaleTTL(u)' <= StaleTTL(u)

LEMMA FillsBounded ==
  ASSUME NEW u \in User, Granted(u)' = Granted(u), FillsAlike
  PROVE  StaleFills(u)' \subseteq StaleFills(u)
<1> SUFFICES ASSUME NEW q \in Request, req'[q].pc = "setex", req'[q].user = u,
                    req'[q].list # Granted(u)
             PROVE  req[q].pc = "setex" /\ req[q].user = u /\ req[q].list # Granted(u)
  BY DEF StaleFills, At
<1> QED
  BY DEF FillsAlike

LEMMA AgeBounded ==
  ASSUME Inv, TypeOK', NEW u \in User, FillsAlike, EntriesAge
  PROVE  Bounded(u)
<1> SUFFICES ASSUME Granted(u)' = Granted(u)
             PROVE  /\ StaleFills(u)' \subseteq StaleFills(u)
                    /\ StaleTTL(u)' <= StaleTTL(u)
  BY DEF Bounded
<1>1. scope_expand[u].ttl \in 0..TTL /\ scope_expand'[u].ttl \in 0..TTL
  BY DEF Inv, TypeOK, Entry
<1>2. \/ scope_expand'[u].ttl = 0
      \/ /\ scope_expand'[u].ttl <= scope_expand[u].ttl
         /\ scope_expand'[u].scopes = scope_expand[u].scopes
  BY DEF EntriesAge
<1>3. StaleTTL(u)' <= StaleTTL(u)
  BY <1>1, <1>2, BoundAssumption DEF StaleTTL, Stale, Cached
<1> QED
  BY <1>3, FillsBounded

LEMMA TTLs ==
  ASSUME Inv, NEW u \in User
  PROVE  scope_expand[u].ttl \in 0..TTL
BY DEF Inv, TypeOK, Entry

LEMMA EntriesSame ==
  ASSUME Inv, UNCHANGED scope_expand
  PROVE  EntriesAge
BY TTLs, BoundAssumption DEF EntriesAge

LEMMA EntriesExcused ==
  ASSUME Inv, NEW U, Excuse(U)
  PROVE  EntriesAge
BY TTLs, ExcuseKeeps, BoundAssumption DEF EntriesAge

LEMMA FillsGo ==
  ASSUME NEW r \in Request, NEW s, Goes(r, s), s.pc # "setex"
  PROVE  FillsAlike
BY DEF Goes, Alike, FillsAlike

\* One slot moves on, and not to its SETEX.
LEMMA FillsMove ==
  ASSUME Inv, NEW r \in Request, NEW s, req' = [req EXCEPT ![r] = s], s.pc # "setex"
  PROVE  FillsAlike
<1>1. req'[r] = s /\ \A q \in Request \ {r} : req'[q] = req[q]
  BY DEF Inv, TypeOK
<1> QED
  BY <1>1 DEF FillsAlike

LEMMA FillsRespond ==
  ASSUME Inv, NEW r \in Request, Respond(r)
  PROVE  FillsAlike
<1>1. Idle.pc # "setex"
  BY DEF Idle
<1> QED
  BY <1>1, FillsMove DEF Respond

LEMMA FillsGoto ==
  ASSUME Inv, NEW r \in Request, NEW label, label # "setex", Goto(r, label)
  PROVE  FillsAlike
<1>1. req[r] \in Slot
  BY DEF Inv, TypeOK
<1>2. [req[r] EXCEPT !.pc = label].pc = label
  BY <1>1 DEF Slot
<1> QED
  BY <1>2, FillsMove DEF Goto

LEMMA GiveUpAges ==
  ASSUME Inv, NEW r \in Request, GiveUp(r)
  PROVE  FillsAlike /\ EntriesAge
BY FillsRespond, EntriesExcused DEF GiveUp

LEMMA GetAges ==
  ASSUME Inv, NEW r \in Request, NEW slot \in Slot, Get(r, slot)
  PROVE  FillsAlike /\ EntriesAge
<1>1. [slot EXCEPT !.pc = "select"].pc # "setex"
  BY DEF Slot
<1> QED
  BY <1>1, FillsMove, FillsRespond, EntriesSame DEF Get

LEMMA SetTypeAges ==
  ASSUME Inv, NEW r \in Request, SetType(r)
  PROVE  FillsAlike /\ EntriesAge
<1> DEFINE s == [req[r] EXCEPT !.pc = "delete_scopes", !.type = "user"]
<1>1. req \in [Request -> Slot] /\ req[r] \in Slot
  BY DEF Inv, TypeOK
<1>2. s.pc # "setex"
  BY <1>1 DEF Slot
<1>3. Respond(r) \/ req' = [req EXCEPT ![r] = s]
  BY <1>1 DEF SetType
<1> HIDE DEF s
<1> QED
  BY <1>2, <1>3, FillsMove, FillsRespond, EntriesSame DEF SetType

LEMMA DeleteScopesAges ==
  ASSUME Inv, NEW r \in Request, DeleteScopes(r)
  PROVE  FillsAlike /\ EntriesAge
<1> DEFINE s == [req[r] EXCEPT !.pc = "find_scope"]
<1>0. PICK ro \in Role : ro = req[r].role
  BY DEF DeleteScopes, At, Inv, Shapes, ShapeIn
<1>1. req \in [Request -> Slot] /\ req[r] \in Slot
  BY DEF Inv, TypeOK
<1>2. s \in Slot /\ s.pc # "setex"
  BY <1>1 DEF Slot, PC
<1>3. req' = Overlapped(r, [req EXCEPT ![r] = s], ro)
  BY <1>0, <1>1 DEF DeleteScopes
<1> HIDE DEF s
<1> QED
  BY <1>2, <1>3, OverlappedGoes, FillsGo, EntriesSame DEF DeleteScopes

LEMMA FindScopeAges ==
  ASSUME Inv, NEW r \in Request, NEW c \in Scope, FindScope(r, c)
  PROVE  FillsAlike /\ EntriesAge
<1> DEFINE s == [req[r] EXCEPT !.pc = IF c \in scopes THEN "link" ELSE "create_scope",
                               !.scope = c]
<1>1. req \in [Request -> Slot] /\ req[r] \in Slot
  BY DEF Inv, TypeOK
<1>2. s.pc # "setex"
  BY <1>1 DEF Slot
<1>3. req' = [req EXCEPT ![r] = s]
  BY <1>1 DEF FindScope
<1> HIDE DEF s
<1> QED
  BY <1>2, <1>3, FillsMove, EntriesSame DEF FindScope

LEMMA CreateScopeAges ==
  ASSUME Inv, NEW r \in Request, CreateScope(r)
  PROVE  FillsAlike /\ EntriesAge
<1>1. GiveUp(r) \/ (Goto(r, "link") /\ UNCHANGED scope_expand)
  BY DEF CreateScope
<1> QED
  BY <1>1, GiveUpAges, FillsGoto, EntriesSame

LEMMA LinkAges ==
  ASSUME Inv, NEW r \in Request, Link(r)
  PROVE  FillsAlike /\ EntriesAge
<1>0. PICK ro \in Role : ro = req[r].role
  BY DEF Link, At, Inv, Shapes, ShapeIn, Writing
<1>1. req \in [Request -> Slot] /\ req[r] \in Slot
  BY DEF Inv, TypeOK
<1>2. CASE ~Exists(ro)
  BY <1>0, <1>2, GiveUpAges DEF Link
<1>3. CASE Exists(ro)
  <2> DEFINE left == req[r].left \ {req[r].scope}
             next == IF left # {} THEN "find_scope" ELSE "select_users"
             t == [req[r] EXCEPT !.pc = next, !.left = left, !.scope = NULL]
             s == IF req[r].op = "create" /\ left = {} THEN Idle ELSE t
  <2>0. next \in {"find_scope", "select_users"}
    OBVIOUS
  <2> HIDE DEF next
  <2>1. t \in Slot /\ t.pc # "setex"
    BY <1>1, <2>0 DEF Slot, PC
  <2>2. s \in Slot /\ s.pc # "setex"
    BY <2>1, IdleIs DEF Idle
  <2> USE DEF next
  <2>3. /\ req' = Overlapped(r, [req EXCEPT ![r] = s], ro)
        /\ \E U : Excuse(U)
    BY <1>0, <1>3 DEF Link
  <2> HIDE DEF s
  <2> QED
    BY <2>2, <2>3, OverlappedGoes, FillsGo, EntriesExcused
<1> QED
  BY <1>2, <1>3

LEMMA SelectUsersAges ==
  ASSUME Inv, NEW r \in Request, SelectUsers(r)
  PROVE  FillsAlike /\ EntriesAge
<1> DEFINE due == Holders(req[r].role)
           t == [Idle EXCEPT !.pc = "del", !.due = due]
           s == IF due = {} THEN Idle ELSE t
<1>1. s.pc # "setex"
  BY DEF Idle
<1>2. GiveUp(r) \/ (req' = [req EXCEPT ![r] = s] /\ UNCHANGED scope_expand)
  BY DEF SelectUsers
<1> HIDE DEF s
<1> QED
  BY <1>1, <1>2, GiveUpAges, FillsMove, EntriesSame

LEMMA InvalidateAges ==
  ASSUME Inv, NEW r \in Request, NEW u \in User, Invalidate(r, u)
  PROVE  FillsAlike /\ EntriesAge
<1> DEFINE left == req[r].due \ {u}
           s == IF left # {} THEN [req[r] EXCEPT !.due = left]
                ELSE IF req[r].op = "register" THEN [req[r] EXCEPT !.pc = "get", !.due = {}]
                ELSE Idle
<1>1. req[r] \in Slot /\ req[r].pc = "del"
  BY DEF Inv, TypeOK, Invalidate, At
<1>2. s.pc # "setex"
  BY <1>1 DEF Slot, Idle
<1>3. req' = [req EXCEPT ![r] = s]
  BY DEF Invalidate
<1> HIDE DEF s
<1>4. EntriesAge
  <2>1. CASE Excuse({u})
    BY <2>1, EntriesExcused
  <2>2. CASE scope_expand' = [scope_expand EXCEPT ![u] = NoEntry]
    <3>1. scope_expand'[u].ttl = 0
      BY <2>2 DEF Inv, TypeOK, NoEntry
    <3>2. \A v \in User \ {u} : scope_expand'[v] = scope_expand[v]
      BY <2>2 DEF Inv, TypeOK
    <3> QED
      BY <3>1, <3>2, TTLs, BoundAssumption DEF EntriesAge
  <2> QED
    BY <2>1, <2>2 DEF Invalidate
<1> QED
  BY <1>2, <1>3, <1>4, FillsMove

LEMMA DeleteRoleAges ==
  ASSUME Inv, NEW r \in Request, DeleteRole(r)
  PROVE  FillsAlike /\ EntriesAge
<1>0. PICK ro \in Role : ro = req[r].role
  BY DEF DeleteRole, At, Inv, Shapes, ShapeIn
<1>1. \/ req' = Overlapped(r, [req EXCEPT ![r] = Idle], ro)
      \/ Respond(r)
  BY <1>0 DEF DeleteRole, Respond
<1>2. Idle \in Slot /\ Idle.pc # "setex"
  BY IdleIs DEF Idle
<1> QED
  BY <1>1, <1>2, OverlappedGoes, FillsGo, FillsRespond, EntriesSame DEF DeleteRole

LEMMA ProceedAges ==
  ASSUME Inv, NEW r \in Request, Proceed(r)
  PROVE  FillsAlike
BY FillsRespond, FillsGoto DEF Proceed

LEMMA AssignDefaultRoleAges ==
  ASSUME Inv, NEW r \in Request, AssignDefaultRole(r)
  PROVE  FillsAlike /\ EntriesAge
<1> DEFINE u == req[r].user
           t == [req[r] EXCEPT !.pc = "del", !.due = {u}]
<1>1. req \in [Request -> Slot] /\ req[r] \in Slot /\ u \in User
  BY DEF Inv, TypeOK, Shapes, ShapeIn, AssignDefaultRole, At, Enrolling
<1>2. t \in Slot /\ t.pc # "setex" /\ Idle \in Slot /\ Idle.pc # "setex"
  BY <1>1, IdleIs DEF Slot, PC, Idle
<1>3. \/ req' = Straddled([req EXCEPT ![r] = t], {u}) /\ UNCHANGED scope_expand
      \/ req' = Straddled([req EXCEPT ![r] = Idle], {u}) /\ Excuse({u})
      \/ Proceed(r) /\ UNCHANGED scope_expand
  BY <1>1 DEF AssignDefaultRole
<1> HIDE DEF t, u
<1> QED
  BY <1>2, <1>3, StraddledGoes, FillsGo, ProceedAges, EntriesSame, EntriesExcused

LEMMA AssignAges ==
  ASSUME Inv, NEW r \in Request, NEW u \in User, NEW ro \in Role,
         Assign(r, u, ro) \/ Remove(r, u, ro)
  PROVE  FillsAlike /\ EntriesAge
<1> DEFINE s == [Idle EXCEPT !.pc = "del", !.due = {u}]
<1>1. s \in Slot /\ s.pc # "setex"
  BY DEF Slot, PC, Idle, RoleType
<1>2. req' = Straddled([req EXCEPT ![r] = s], {u}) /\ UNCHANGED scope_expand
  BY DEF Assign, Remove
<1> HIDE DEF s
<1> QED
  BY <1>1, <1>2, StraddledGoes, FillsGo, EntriesSame

\* The handlers whose first step changes no entry.
LEMMA ArrivalAges ==
  ASSUME Inv, NEW r \in Request, Arrival(r)
  PROVE  FillsAlike /\ EntriesAge
<1>1. ASSUME NEW u \in User, Expand(r, u) PROVE FillsAlike /\ EntriesAge
  <2>1. [Idle EXCEPT !.user = u] \in Slot
    BY DEF Idle, Slot, PC, RoleType
  <2> QED
    BY <1>1, <2>1, GetAges DEF Expand
<1>2. ASSUME NEW u \in User, Register(r, u) \/ CreateUser(r, u)
      PROVE  FillsAlike /\ EntriesAge
  <2> DEFINE s == [Idle EXCEPT !.pc = "insert_user", !.op = "register", !.user = u]
             t == [Idle EXCEPT !.pc = "default_role", !.op = "create_user", !.user = u]
  <2>0. s.pc # "setex" /\ t.pc # "setex"
    BY DEF Idle
  <2>1. req' = [req EXCEPT ![r] = s] \/ req' = [req EXCEPT ![r] = t]
    BY <1>2 DEF Register, CreateUser
  <2> HIDE DEF s, t
  <2> QED
    BY <1>2, <2>0, <2>1, FillsMove, EntriesSame DEF Register, CreateUser
<1>3. ASSUME NEW ro \in Role, NEW type \in RoleType, NEW list \in Lists,
             Create(r, ro, type, list) \/ Update(r, ro, type, list)
      PROVE  FillsAlike /\ EntriesAge
  <2> DEFINE s == [Idle EXCEPT !.pc = "find_scope", !.op = "create",
                               !.role = ro, !.list = list, !.left = list]
             t == [Idle EXCEPT !.pc = "set_type", !.op = "update",
                               !.role = ro, !.type = type, !.list = list, !.left = list]
  <2>0. s.pc # "setex" /\ t.pc # "setex"
    BY DEF Idle
  <2>1. req' = [req EXCEPT ![r] = s] \/ req' = [req EXCEPT ![r] = t]
    BY <1>3 DEF Create, Update
  <2> HIDE DEF s, t
  <2> QED
    BY <1>3, <2>0, <2>1, FillsMove, EntriesSame DEF Create, Update
<1>4. ASSUME NEW ro \in Role, Delete(r, ro)
      PROVE  FillsAlike /\ EntriesAge
  <2> DEFINE s == [Idle EXCEPT !.pc = "assignments", !.role = ro]
  <2>0. s.pc # "setex"
    BY DEF Idle
  <2>1. req' = [req EXCEPT ![r] = s]
    BY <1>4 DEF Delete
  <2> HIDE DEF s
  <2> QED
    BY <1>4, <2>0, <2>1, FillsMove, EntriesSame DEF Delete
<1> QED
  BY <1>1, <1>2, <1>3, <1>4, AssignAges DEF Arrival

LEMMA SelectScopesAges ==
  ASSUME Inv, NEW r \in Request, SelectScopes(r), UNCHANGED faults
  PROVE  FillsAlike /\ EntriesAge
<1> DEFINE s == [req[r] EXCEPT !.pc = "setex", !.list = Granted(req[r].user)]
<1>0. ~Fault
  BY BoundAssumption DEF Inv, TypeOK, Fault
<1>1. req \in [Request -> Slot] /\ req[r] \in Slot
  BY DEF Inv, TypeOK
<1>2. req' = [req EXCEPT ![r] = s]
  BY <1>0, <1>1 DEF SelectScopes
<1>3. s.user = req[r].user /\ s.list = Granted(req[r].user)
  BY <1>1 DEF Slot
<1> HIDE DEF s
<1>4. req'[r] = s /\ \A q \in Request \ {r} : req'[q] = req[q]
  BY <1>1, <1>2
<1>5. FillsAlike
  <2> SUFFICES ASSUME NEW q \in Request, req'[q].pc = "setex"
               PROVE  \/ /\ req[q].pc = "setex" /\ req'[q].user = req[q].user
                         /\ req'[q].list = req[q].list
                      \/ req'[q].list = Granted(req'[q].user)
    BY DEF FillsAlike
  <2>1. CASE q = r
    <3>1. req'[r].user = req[r].user /\ req'[r].list = Granted(req[r].user)
      BY <1>3, <1>4
    <3> QED
      BY <2>1, <3>1
  <2>2. CASE q # r
    BY <1>4, <2>2
  <2> QED
    BY <2>1, <2>2
<1> QED
  BY <1>5, EntriesSame DEF SelectScopes

\* SETEX, the one step that renews an entry.
LEMMA SetCacheBounded ==
  ASSUME Inv, TypeOK', NEW r \in Request, SetCache(r), NEW u \in User
  PROVE  Bounded(u)
<1>1. FillsAlike
  BY FillsRespond DEF SetCache
<1>2. CASE UNCHANGED scope_expand
  BY <1>1, <1>2, EntriesSame, AgeBounded
<1>3. CASE scope_expand' = [scope_expand EXCEPT ![req[r].user] =
             [scopes |-> req[r].list, ttl |-> TTL, excused |-> req[r].excused]]
  <2> SUFFICES ASSUME Granted(u)' = Granted(u)
               PROVE  /\ StaleFills(u)' \subseteq StaleFills(u)
                      /\ StaleFills(u)' = StaleFills(u) => StaleTTL(u)' <= StaleTTL(u)
    BY DEF Bounded
  <2>1. StaleFills(u)' \subseteq StaleFills(u)
    BY <1>1, FillsBounded
  <2>2. CASE req[r].user # u
    <3>1. scope_expand'[u] = scope_expand[u]
      BY <1>3, <2>2 DEF Inv, TypeOK
    <3>2. StaleTTL(u)' = StaleTTL(u)
      BY <3>1 DEF StaleTTL, Stale, Cached
    <3>3. StaleTTL(u) \in 0..TTL
      BY TTLs, BoundAssumption DEF StaleTTL
    <3> QED
      BY <2>1, <3>2, <3>3, BoundAssumption
  <2>3. CASE req[r].user = u /\ req[r].list = Granted(u)
    <3>1. scope_expand'[u].scopes = Granted(u)
      BY <1>3, <2>3 DEF Inv, TypeOK
    <3>2. StaleTTL(u)' = 0
      BY <3>1 DEF StaleTTL, Stale
    <3>3. StaleTTL(u) \in 0..TTL
      BY TTLs, BoundAssumption DEF StaleTTL
    <3> QED
      BY <2>1, <3>2, <3>3, BoundAssumption
  <2>4. CASE req[r].user = u /\ req[r].list # Granted(u)
    <3>1. r \in StaleFills(u)
      BY <2>4 DEF StaleFills, SetCache
    <3>2. req'[r].pc = "idle"
      BY DEF SetCache, Respond, Idle, Inv, TypeOK
    <3>3. r \notin StaleFills(u)'
      BY <3>2 DEF StaleFills, At
    <3> QED
      BY <2>1, <3>1, <3>3
  <2> QED
    BY <2>2, <2>3, <2>4
<1> QED
  BY <1>2, <1>3 DEF SetCache

LEMMA TickAges ==
  ASSUME Inv, Tick
  PROVE  FillsAlike /\ EntriesAge
<1>1. FillsAlike
  BY DEF Tick, FillsAlike
<1>2. ASSUME NEW u \in User
      PROVE  \/ scope_expand'[u].ttl = 0
             \/ /\ scope_expand'[u].ttl <= scope_expand[u].ttl
                /\ scope_expand'[u].scopes = scope_expand[u].scopes
  <2>1. scope_expand[u] \in Entry
    BY DEF Inv, TypeOK
  <2>2. scope_expand'[u] = IF scope_expand[u].ttl > 1
          THEN [scope_expand[u] EXCEPT !.ttl = @ - 1] ELSE NoEntry
    BY DEF Tick
  <2> QED
    BY <2>1, <2>2, BoundAssumption DEF Entry, NoEntry
<1> QED
  BY <1>1, <1>2 DEF EntriesAge

LEMMA HandlerBounded ==
  ASSUME Inv, TypeOK', NEW r \in Request, Handler(r), UNCHANGED faults, NEW u \in User
  PROVE  Bounded(u)
<1>1. CASE ExpandRegistered(r)
  <2>1. req[r] \in Slot
    BY DEF Inv, TypeOK
  <2> QED
    BY <1>1, <2>1, GetAges, AgeBounded DEF ExpandRegistered
<1>2. CASE SetCache(r)
  BY <1>2, SetCacheBounded
<1>3. CASE SelectScopes(r)
  BY <1>3, SelectScopesAges, AgeBounded
<1>4. CASE \/ SetType(r) \/ DeleteScopes(r) \/ CreateScope(r) \/ Link(r)
           \/ \E s \in Scope : FindScope(r, s)
           \/ SelectUsers(r)
           \/ \E v \in User : Invalidate(r, v)
           \/ DeleteRole(r) \/ AssignDefaultRole(r)
  <2>1. FillsAlike /\ EntriesAge
    BY <1>4, SetTypeAges, DeleteScopesAges, CreateScopeAges, LinkAges, FindScopeAges,
       SelectUsersAges, InvalidateAges, DeleteRoleAges, AssignDefaultRoleAges
  <2> QED
    BY <2>1, AgeBounded
<1>5. CASE Assignments(r) \/ InsertUser(r) \/ SelectDefaultRole(r)
  <2>1. UNCHANGED scope_expand
    BY <1>5 DEF Assignments, InsertUser, SelectDefaultRole
  <2>2. \/ Respond(r) \/ Goto(r, "delete_role") \/ Goto(r, "default_role")
        \/ Goto(r, "insert_role") \/ Proceed(r)
    BY <1>5 DEF Assignments, InsertUser, SelectDefaultRole
  <2>3. FillsAlike
    BY <2>2, FillsRespond, FillsGoto, ProceedAges
  <2> QED
    BY <2>1, <2>3, EntriesSame, AgeBounded
<1> QED
  BY <1>1, <1>2, <1>3, <1>4, <1>5 DEF Handler

LEMMA NextBounded ==
  ASSUME Inv, [Next]_vars, UNCHANGED faults, NEW u \in User
  PROVE  Bounded(u)
<1>0. TypeOK'
  BY NextKeeps DEF Inv
<1>1. CASE UNCHANGED vars
  <2>1. FillsAlike /\ UNCHANGED scope_expand
    BY <1>1 DEF vars, FillsAlike
  <2> QED
    BY <1>0, <2>1, EntriesSame, AgeBounded
<1>2. CASE Tick
  BY <1>0, <1>2, TickAges, AgeBounded
<1>3. ASSUME NEW r \in Request, Handler(r) PROVE Bounded(u)
  BY <1>0, <1>3, HandlerBounded
<1>4. ASSUME NEW r \in Request, Arrival(r) PROVE Bounded(u)
  BY <1>0, <1>4, ArrivalAges, AgeBounded
<1>5. ASSUME NEW r \in Request, Abort(r) PROVE Bounded(u)
  BY <1>0, <1>5, GiveUpAges, AgeBounded DEF Abort
<1> QED
  BY <1>1, <1>2, <1>3, <1>4, <1>5 DEF Next

\* Whatever is in flight, an entry that differs from what its user is granted
\* only ages, save for the fills that had read the old roles: hits do not
\* renew it, and no later SELECT reads the old list (scope_expander.rs:42-66).
THEOREM StaleIsBoundedHolds == Spec => StaleIsBounded
<1>1. Inv /\ [Next]_vars =>
        [\A u \in User : Granted(u)' = Granted(u) /\ faults' = faults =>
           /\ StaleFills(u)' \subseteq StaleFills(u)
           /\ StaleFills(u)' = StaleFills(u) => StaleTTL(u)' <= StaleTTL(u)]_vars
  <2> SUFFICES ASSUME Inv, [Next]_vars, NEW u \in User, Granted(u)' = Granted(u),
                      faults' = faults
               PROVE  /\ StaleFills(u)' \subseteq StaleFills(u)
                      /\ StaleFills(u)' = StaleFills(u) => StaleTTL(u)' <= StaleTTL(u)
    OBVIOUS
  <2> QED
    BY NextBounded DEF Bounded
<1> QED
  BY <1>1, InvHolds, PTL DEF Spec, StaleIsBounded

=============================================================================
