---------------------------- MODULE ApiKeysProofs ----------------------------
(***************************************************************************)
(* Theorems about ApiKeys, for any number of keys and concurrent requests, *)
(* any lifetimes, any cap and share of the cache, any number of faults.    *)
(***************************************************************************)
EXTENDS ApiKeys, TLAPS

-----------------------------------------------------------------------------
(* How a step changes the slot of its request.                             *)

OthersKeep(r) ==
  /\ req' \in [Request -> Slot]
  /\ \A s \in Request \ {r} : req'[s] = req[s]

\* The handler goes on at another statement, with what it carries.
Moved(r, label) ==
  /\ OthersKeep(r)
  /\ req'[r].pc = label
  /\ req'[r].key = req[r].key /\ req'[r].child = req[r].child
  /\ req'[r].expires_in = req[r].expires_in
  /\ req'[r].lapsed = req[r].lapsed

\* It has responded.
Left(r) == OthersKeep(r) /\ req'[r] = Idle

LEMMA IdleSlot ==
  /\ Idle \in Slot
  /\ Idle.pc = "idle" /\ Idle.key = NULL /\ Idle.child = NULL /\ ~Idle.lapsed
  BY CacheAssumption DEF Idle, Slot, PC

LEMMA Occupied ==
  ASSUME req \in [Request -> Slot], NEW r \in Request, NEW t \in Slot,
         req' = [req EXCEPT ![r] = t]
  PROVE  OthersKeep(r) /\ req'[r] = t
  BY DEF OthersKeep

LEMMA Answered ==
  ASSUME req \in [Request -> Slot], NEW r \in Request, Respond(r)
  PROVE  Left(r)
  BY IdleSlot, Occupied DEF Respond, Left

\* The EXCEPTs of the handlers that change their label, or that and the ttl.
LEMMA Relabelled ==
  ASSUME req \in [Request -> Slot], NEW r \in Request, NEW label \in PC,
         NEW ttl \in 0..MaxTTL,
         \/ req' = [req EXCEPT ![r].pc = label]
         \/ req' = [req EXCEPT ![r].pc = label, ![r].ttl = ttl]
         \/ req' = [req EXCEPT ![r] = [req[r] EXCEPT !.pc = label]]
  PROVE  Moved(r, label)
<1> DEFINE t == [req[r] EXCEPT !.pc = label]
           u == [req[r] EXCEPT !.pc = label, !.ttl = ttl]
<1>1. req[r] \in Slot
  OBVIOUS
<1>2. /\ t \in Slot /\ t.pc = label /\ t.key = req[r].key /\ t.child = req[r].child
      /\ t.expires_in = req[r].expires_in /\ t.lapsed = req[r].lapsed
  BY <1>1 DEF Slot
<1>3. /\ u \in Slot /\ u.pc = label /\ u.key = req[r].key /\ u.child = req[r].child
      /\ u.expires_in = req[r].expires_in /\ u.lapsed = req[r].lapsed
  BY <1>1 DEF Slot
<1>4. req' = [req EXCEPT ![r] = t] \/ req' = [req EXCEPT ![r] = u]
  OBVIOUS
<1> HIDE DEF t, u
<1>5. OthersKeep(r) /\ req'[r] \in {t, u}
  BY <1>2, <1>3, <1>4, Occupied
<1> QED
  BY <1>2, <1>3, <1>5 DEF Moved

\* An accepted key: the caller is answered, or goes on to its new token.
LEMMA Accepted ==
  ASSUME req \in [Request -> Slot], NEW r \in Request, NEW slot \in Slot, Accept(r, slot)
  PROVE  \/ Left(r)
         \/ /\ OthersKeep(r) /\ slot.child # NULL
            /\ req'[r].pc = "insert"
            /\ req'[r].key = slot.key /\ req'[r].child = slot.child
            /\ req'[r].expires_in = slot.expires_in /\ req'[r].lapsed = slot.lapsed
<1>1. CASE slot.child = NULL
  BY <1>1, Answered DEF Accept, Respond
<1>2. CASE slot.child # NULL
  <2> DEFINE t == [slot EXCEPT !.pc = "insert"]
  <2>1. /\ t \in Slot /\ t.pc = "insert" /\ t.key = slot.key /\ t.child = slot.child
        /\ t.expires_in = slot.expires_in /\ t.lapsed = slot.lapsed
    BY DEF Slot, PC
  <2>2. req' = [req EXCEPT ![r] = t]
    BY <1>2 DEF Accept
  <2> HIDE DEF t
  <2> QED
    BY <1>2, <2>1, <2>2, Occupied
<1> QED
  BY <1>1, <1>2

\* compute_cache_ttl stays between 0 and the cap.
LEMMA CacheTTLBounded ==
  ASSUME NEW k \in Key, api_keys \in [Key -> Row]
  PROVE  CacheTTL(k) \in 0..MaxTTL
<1>1. api_keys[k].expires_in \in Nat \cup {NULL}
  BY DEF Row
<1>2. ASSUME NEW n \in Nat PROVE n \div Share \in Nat
  BY CacheAssumption
<1> QED
  BY <1>1, <1>2, CacheAssumption DEF CacheTTL

-----------------------------------------------------------------------------
(* Type correctness.                                                       *)

\* What a handler is about is in its slot.
Carries(r) ==
  /\ At(r, "insert") => req[r].child # NULL
  /\ req[r].pc \notin {"idle", "insert"} => req[r].key # NULL

TypeInv == TypeOK /\ \A r \in Request : Carries(r)

\* An arriving request: what it occupies its slot with.
LEMMA Arrived ==
  ASSUME TypeOK, NEW r \in Request, Arrival(r)
  PROVE  /\ At(r, "idle") /\ OthersKeep(r)
         /\ UNCHANGED <<api_keys, introspect, history>>
         /\ faults' \in 0..MaxFaults
         /\ \/ Left(r)
            \/ /\ req'[r].pc = "insert" /\ ~req'[r].lapsed
               /\ req'[r].child \in Key /\ Fresh(req'[r].child)
            \/ /\ req'[r].pc = "find_by_hash"
               /\ req'[r].key \in Key /\ api_keys[req'[r].key].issued
               /\ req'[r].child # NULL => Fresh(req'[r].child)
               /\ req'[r].lapsed => Expired(req'[r].key)
            \/ /\ req'[r].pc \in {"revoke", "token_revoke"} /\ ~req'[r].lapsed
               /\ req'[r].key \in Key /\ api_keys[req'[r].key].issued
               /\ req'[r].child = NULL
<1>0. req \in [Request -> Slot] /\ faults \in 0..MaxFaults
  BY DEF TypeOK
<1>1. ASSUME NEW k \in Key, NEW child \in Key \cup {NULL}, Verify(r, k, child)
      PROVE  /\ OthersKeep(r)
             /\ faults' \in 0..MaxFaults
             /\ \/ Left(r)
                \/ /\ req'[r].pc = "insert" /\ ~req'[r].lapsed
                   /\ req'[r].child \in Key /\ Fresh(req'[r].child)
                \/ /\ req'[r].pc = "find_by_hash" /\ req'[r].key = k /\ req'[r].child = child
                   /\ req'[r].lapsed => Expired(k)
  <2> DEFINE slot == [Idle EXCEPT !.pc = "find_by_hash", !.key = k, !.child = child,
                        !.expires_in = IF child = NULL THEN NULL ELSE OpaqueTTL,
                        !.lapsed = Expired(k)]
  <2>1. /\ slot \in Slot /\ slot.pc = "find_by_hash" /\ slot.key = k /\ slot.child = child
        /\ slot.lapsed = Expired(k)
    <3>1. /\ (IF child = NULL THEN NULL ELSE OpaqueTTL) \in Nat \cup {NULL}
          /\ Expired(k) \in BOOLEAN
      BY LifetimeAssumption DEF Expired
    <3> QED
      BY <3>1, IdleSlot DEF Slot, PC
  <2>2. \/ Hit(k) /\ Accept(r, slot) /\ UNCHANGED faults
        \/ req' = [req EXCEPT ![r] = slot] /\ (Fault \/ UNCHANGED faults)
    BY <1>1 DEF Verify
  <2>3. child # NULL => Fresh(child)
    BY <1>1 DEF Verify
  <2> HIDE DEF slot
  <2>4. faults' \in 0..MaxFaults
    BY <1>0, <2>2, BoundAssumption DEF Fault
  <2>5. CASE Hit(k) /\ Accept(r, slot)
    <3>1. ~slot.lapsed
      BY <2>1, <2>5 DEF Hit
    <3> QED
      BY <1>0, <2>1, <2>3, <2>4, <2>5, <3>1, Accepted DEF Left
  <2>6. CASE req' = [req EXCEPT ![r] = slot]
    BY <1>0, <2>1, <2>4, <2>6, Occupied
  <2> QED
    BY <2>2, <2>5, <2>6
<1>2. CASE \E k \in Key, child \in Key \cup {NULL} : Verify(r, k, child)
  <2>1. PICK k \in Key, child \in Key \cup {NULL} : Verify(r, k, child)
    BY <1>2
  <2>2. /\ At(r, "idle") /\ api_keys[k].issued /\ (child # NULL => Fresh(child))
        /\ UNCHANGED <<api_keys, introspect, history>>
    BY <2>1 DEF Verify
  <2> QED
    BY <1>1, <2>1, <2>2
<1>3. CASE \E k \in Key, life \in Lifetime \cup {NULL} : Create(r, k, life)
  <2>1. PICK k \in Key, life \in Lifetime \cup {NULL} : Create(r, k, life)
    BY <1>3
  <2> DEFINE t == [Idle EXCEPT !.pc = "insert", !.child = k, !.expires_in = life]
  <2>2. t \in Slot /\ t.pc = "insert" /\ t.child = k /\ ~t.lapsed
    <3>1. life \in Nat \cup {NULL}
      BY LifetimeAssumption
    <3> QED
      BY <3>1, IdleSlot DEF Slot, PC
  <2>3. req' = [req EXCEPT ![r] = t]
    BY <2>1 DEF Create
  <2> HIDE DEF t
  <2>4. OthersKeep(r) /\ req'[r] = t
    BY <1>0, <2>2, <2>3, Occupied
  <2> QED
    BY <1>0, <2>1, <2>2, <2>4 DEF Create
<1>4. CASE \E k \in Key : RevokeById(r, k) \/ RevokeByToken(r, k)
  <2>1. PICK k \in Key : RevokeById(r, k) \/ RevokeByToken(r, k)
    BY <1>4
  <2>2. PICK label \in {"revoke", "token_revoke"} :
          req' = [req EXCEPT ![r] = [Idle EXCEPT !.pc = label, !.key = k]]
    BY <2>1 DEF RevokeById, RevokeByToken
  <2> DEFINE t == [Idle EXCEPT !.pc = label, !.key = k]
  <2>3. t \in Slot /\ t.pc = label /\ t.key = k /\ t.child = NULL /\ ~t.lapsed
    BY IdleSlot DEF Slot, PC
  <2>4. req' = [req EXCEPT ![r] = t]
    BY <2>2
  <2> HIDE DEF t
  <2>5. OthersKeep(r) /\ req'[r] = t
    BY <1>0, <2>3, <2>4, Occupied
  <2> QED
    BY <1>0, <2>1, <2>3, <2>5 DEF RevokeById, RevokeByToken
<1> QED
  BY <1>2, <1>3, <1>4 DEF Arrival

\* Where each handler step leads.
LEMMA Routes ==
  ASSUME TypeInv, NEW r \in Request
  PROVE  /\ FindByHash(r) => \/ Left(r)
                             \/ Moved(r, "set") /\ Good(req[r].key)
         /\ SetCache(r) => \/ Left(r)
                           \/ Moved(r, "insert") /\ req[r].child # NULL
         /\ Insert(r) \/ TokenRevoke(r) \/ Invalidate(r) \/ Abort(r) => Left(r)
         /\ Revoke(r) => \/ Left(r) /\ api_keys[req[r].key].revoked
                         \/ Moved(r, "invalidate") /\ ~api_keys[req[r].key].revoked
<1>0. /\ req \in [Request -> Slot] /\ api_keys \in [Key -> Row]
      /\ {"set", "insert", "invalidate"} \subseteq PC
  BY DEF TypeInv, TypeOK, PC
<1>1. ASSUME FindByHash(r) PROVE Left(r) \/ (Moved(r, "set") /\ Good(req[r].key))
  <2>1. req[r].key \in Key
    BY <1>0, <1>1 DEF TypeInv, Carries, FindByHash, At, Slot
  <2>2. CacheTTL(req[r].key) \in 0..MaxTTL
    BY <1>0, <2>1, CacheTTLBounded
  <2> QED
    BY <1>0, <1>1, <2>2, Relabelled, Answered DEF FindByHash
<1>2. ASSUME SetCache(r) PROVE Left(r) \/ (Moved(r, "insert") /\ req[r].child # NULL)
  BY <1>0, <1>2, Accepted DEF SetCache, Moved
<1>3. ASSUME Revoke(r)
      PROVE  \/ Left(r) /\ api_keys[req[r].key].revoked
             \/ Moved(r, "invalidate") /\ ~api_keys[req[r].key].revoked
  <2>1. 0 \in 0..MaxTTL
    BY CacheAssumption
  <2> QED
    BY <1>0, <1>3, <2>1, Relabelled, Answered DEF Revoke
<1>4. ASSUME Insert(r) \/ TokenRevoke(r) \/ Invalidate(r) \/ Abort(r) PROVE Left(r)
  BY <1>0, <1>4, Answered DEF Insert, TokenRevoke, Invalidate, Abort
<1> QED
  BY <1>1, <1>2, <1>3, <1>4

\* A handler that leaves or moves on still carries what its statement needs.
LEMMA CarriesOn ==
  ASSUME TypeInv, NEW r \in Request,
         \/ Left(r)
         \/ Moved(r, "set") /\ ~At(r, "insert") /\ ~At(r, "idle")
         \/ Moved(r, "invalidate") /\ ~At(r, "insert") /\ ~At(r, "idle")
         \/ Moved(r, "insert") /\ req[r].child # NULL
  PROVE  req' \in [Request -> Slot] /\ \A s \in Request : Carries(s)'
<1>1. OthersKeep(r)
  BY DEF Left, Moved
<1>2. Carries(r)'
  <2>1. CASE Left(r)
    BY <2>1, IdleSlot DEF Left, Carries, At
  <2>2. CASE ~Left(r)
    BY <2>2 DEF Moved, Carries, At, TypeInv
  <2> QED
    BY <2>1, <2>2
<1>3. ASSUME NEW s \in Request, s # r PROVE Carries(s)'
  <2>1. Carries(s) /\ req'[s] = req[s]
    BY <1>1, <1>3 DEF OthersKeep, TypeInv
  <2> QED
    BY <2>1 DEF Carries, At
<1> QED
  BY <1>1, <1>2, <1>3 DEF OthersKeep

\* Initially there are no keys, no entries and no handlers.
LEMMA InitTypeInv == Init => TypeInv
<1> SUFFICES ASSUME Init PROVE TypeInv
  OBVIOUS
<1>1. api_keys \in [Key -> Row]
  BY DEF Init, Row
<1>2. introspect \in [Key -> 0..MaxTTL]
  BY CacheAssumption DEF Init
<1>3. req \in [Request -> Slot] /\ \A r \in Request : Carries(r)
  BY IdleSlot DEF Init, Carries, At
<1>4. faults \in 0..MaxFaults /\ withdrawn = {} /\ straddled = {}
  BY BoundAssumption DEF Init
<1> QED
  BY <1>1, <1>2, <1>3, <1>4 DEF TypeInv, TypeOK

\* Every step preserves the types.
LEMMA NextTypeInv == TypeInv /\ [Next]_vars => TypeInv'
<1> SUFFICES ASSUME TypeInv, [Next]_vars PROVE TypeInv'
  OBVIOUS
<1>0. /\ api_keys \in [Key -> Row] /\ introspect \in [Key -> 0..MaxTTL]
      /\ req \in [Request -> Slot] /\ faults \in 0..MaxFaults
      /\ withdrawn \subseteq Key /\ straddled \subseteq Key
  BY DEF TypeInv, TypeOK
<1>1. ASSUME Fault PROVE faults' \in 0..MaxFaults
  BY <1>0, <1>1, BoundAssumption DEF Fault
<1>2. ASSUME NEW k \in Key, RevokeRow(k)
      PROVE  api_keys' \in [Key -> Row] /\ straddled' \subseteq Key
  BY <1>0, <1>2 DEF RevokeRow, Row
<1>3. ASSUME NEW r \in Request, FindByHash(r) PROVE TypeInv'
  <2>1. req' \in [Request -> Slot] /\ \A s \in Request : Carries(s)'
    BY <1>3, Routes, CarriesOn DEF FindByHash, At
  <2> QED
    BY <1>0, <1>3, <2>1 DEF FindByHash, TypeInv, TypeOK, history
<1>4. ASSUME NEW r \in Request, SetCache(r) PROVE TypeInv'
  <2>1. req' \in [Request -> Slot] /\ \A s \in Request : Carries(s)'
    BY <1>4, Routes, CarriesOn
  <2>2. req[r].ttl \in 0..MaxTTL
    BY <1>0 DEF Slot
  <2>3. introspect' \in [Key -> 0..MaxTTL] /\ faults' \in 0..MaxFaults
    BY <1>0, <1>1, <1>4, <2>2 DEF SetCache
  <2> QED
    BY <1>0, <1>4, <2>1, <2>3 DEF SetCache, TypeInv, TypeOK, history
<1>5. ASSUME NEW r \in Request, Insert(r) PROVE TypeInv'
  <2>1. req' \in [Request -> Slot] /\ \A s \in Request : Carries(s)'
    BY <1>5, Routes, CarriesOn
  <2>2. [issued |-> TRUE, revoked |-> FALSE, expires_in |-> req[r].expires_in] \in Row
    BY <1>0 DEF Slot, Row
  <2>3. api_keys' \in [Key -> Row]
    BY <1>0, <1>5, <2>2 DEF Insert
  <2> QED
    BY <1>0, <1>5, <2>1, <2>3 DEF Insert, TypeInv, TypeOK, history
<1>6. ASSUME NEW r \in Request, Revoke(r) \/ TokenRevoke(r) PROVE TypeInv'
  <2>1. req' \in [Request -> Slot] /\ \A s \in Request : Carries(s)'
    BY <1>6, Routes, CarriesOn DEF Revoke, At
  <2>2. req[r].key \in Key
    BY <1>0, <1>6 DEF Revoke, TokenRevoke, At, TypeInv, Carries, Slot
  <2>3. api_keys' \in [Key -> Row] /\ straddled' \subseteq Key
    BY <1>2, <1>6, <2>2 DEF Revoke, TokenRevoke
  <2>4. UNCHANGED <<introspect, faults, withdrawn>>
    BY <1>6 DEF Revoke, TokenRevoke
  <2> QED
    BY <1>0, <2>1, <2>3, <2>4 DEF TypeInv, TypeOK
<1>7. ASSUME NEW r \in Request, Invalidate(r) PROVE TypeInv'
  <2>1. req' \in [Request -> Slot] /\ \A s \in Request : Carries(s)'
    BY <1>7, Routes, CarriesOn
  <2>2. req[r].key \in Key
    BY <1>0, <1>7 DEF Invalidate, At, TypeInv, Carries, Slot
  <2>3. /\ introspect' \in [Key -> 0..MaxTTL] /\ faults' \in 0..MaxFaults
        /\ withdrawn' \subseteq Key
    BY <1>0, <1>1, <1>7, <2>2, CacheAssumption DEF Invalidate
  <2> QED
    BY <1>0, <1>7, <2>1, <2>3 DEF Invalidate, TypeInv, TypeOK
<1>8. ASSUME NEW r \in Request, Arrival(r) PROVE TypeInv'
  <2>1. TypeOK /\ NULL \notin Key
    BY NullAssumption DEF TypeInv
  <2>2. OthersKeep(r) /\ Carries(r)'
    BY <1>8, <2>1, Arrived, IdleSlot DEF Left, Carries, At
  <2>3. \A s \in Request : Carries(s)'
    BY <2>2 DEF OthersKeep, Carries, At, TypeInv
  <2>4. UNCHANGED <<api_keys, introspect, history>> /\ faults' \in 0..MaxFaults
    BY <1>8, <2>1, Arrived
  <2> QED
    BY <1>0, <2>2, <2>3, <2>4 DEF OthersKeep, TypeInv, TypeOK, history
<1>9. ASSUME NEW r \in Request, Abort(r) PROVE TypeInv'
  <2>1. req' \in [Request -> Slot] /\ \A s \in Request : Carries(s)'
    BY <1>9, Routes, CarriesOn
  <2> QED
    BY <1>0, <1>1, <1>9, <2>1 DEF Abort, TypeInv, TypeOK, history
<1>10. CASE Tick
  <2>1. introspect' \in [Key -> 0..MaxTTL]
    BY <1>0, <1>10, CacheAssumption DEF Tick, Cached
  <2>2. api_keys' \in [Key -> Row]
    <3>1. ASSUME NEW k \in Key, NEW e \in Nat \cup {NULL} PROVE [api_keys[k] EXCEPT !.expires_in = e] \in Row
      BY <1>0 DEF Row
    <3>2. \A k \in Key : api_keys[k].expires_in \in Nat \cup {NULL}
      BY <1>0 DEF Row
    <3>3. ASSUME NEW e \in Nat \cup {NULL}
          PROVE  (IF e \in {NULL, 0} THEN e ELSE e - 1) \in Nat \cup {NULL}
      OBVIOUS
    <3> QED
      BY <1>10, <3>1, <3>2, <3>3 DEF Tick
  <2>3. \A s \in Request : Carries(s)'
    BY <1>10 DEF Tick, Carries, At, TypeInv
  <2> QED
    BY <1>0, <1>10, <2>1, <2>2, <2>3 DEF Tick, TypeInv, TypeOK, history
<1>11. CASE UNCHANGED vars
  BY <1>11 DEF vars, history, TypeInv, TypeOK, Carries, At
<1> QED
  BY <1>3, <1>4, <1>5, <1>6, <1>7, <1>8, <1>9, <1>10, <1>11 DEF Next, Handler

\* Type correctness: rows, entries, slots and histories of the API key
\* endpoints and of ApiKeyVerifier stay well formed; the lifetime computed for
\* an entry is between 0 and the cap.
THEOREM TypeCorrect == Spec => []TypeOK
<1>1. TypeInv => TypeOK
  BY DEF TypeInv
<1> QED
  BY <1>1, InitTypeInv, NextTypeInv, PTL DEF Spec

-----------------------------------------------------------------------------
(* The invariant behind the safety properties.                             *)

\* What a handler knows of the keys it carries, by the statement it is at.
SlotOK(r) ==
  LET q == req[r] IN
  /\ q.pc \notin {"idle", "insert"} => api_keys[q.key].issued
  /\ q.child # NULL => ~api_keys[q.child].issued
  /\ q.pc = "invalidate" => api_keys[q.key].revoked
  /\ q.lapsed => q.pc = "find_by_hash" /\ Expired(q.key)

\* Two handlers never carry the same generated key.
ChildrenApart ==
  \A r, s \in Request :
    r # s /\ req[r].child # NULL => req[r].child # req[s].child

\* A verifier that is about to cache a revoked key was recorded when the row
\* changed.
HeldRecorded == \A k \in Key : api_keys[k].revoked /\ Held(k) => k \in straddled

WithdrawnGone ==
  \A k \in withdrawn :
    /\ api_keys[k].issued /\ api_keys[k].revoked
    /\ k \notin straddled => ~Cached(k)

IInv ==
  /\ TypeInv
  /\ \A r \in Request : SlotOK(r)
  /\ ChildrenApart
  /\ HeldRecorded
  /\ WithdrawnGone

\* What a step may do to a key: once issued it stays issued, revoked it stays
\* revoked, expired it stays expired; it is issued unrevoked, held only if it
\* was held or good, cached only if it was cached or held; and if it is held
\* while it is revoked, that is recorded.
Effects ==
  /\ \A k \in Key :
       /\ api_keys[k].issued => api_keys'[k].issued
       /\ api_keys[k].issued /\ api_keys[k].revoked => api_keys'[k].revoked
       /\ api_keys[k].issued /\ Expired(k) => Expired(k)'
       /\ ~api_keys[k].issued /\ api_keys'[k].issued => ~api_keys'[k].revoked
       /\ Held(k)' => Held(k) \/ Good(k)
       /\ Cached(k)' => Cached(k) \/ Held(k)
       /\ ~api_keys[k].revoked /\ api_keys'[k].revoked /\ Held(k)' => k \in straddled'
  /\ straddled \subseteq straddled'

\* A slot that changes without reaching SETEX makes nothing held.
LEMMA NothingHeld ==
  ASSUME NEW r \in Request, OthersKeep(r), req'[r].pc # "set"
  PROVE  \A k \in Key : Held(k)' => Held(k)
  BY DEF OthersKeep, Held, At

\* Steps that leave the table alone.
LEMMA QuietEffects ==
  ASSUME UNCHANGED <<api_keys, straddled>>,
         \A k \in Key : Held(k)' => Held(k) \/ Good(k),
         \A k \in Key : Cached(k)' => Cached(k) \/ Held(k)
  PROVE  Effects
  BY DEF Effects, Expired

\* The two UPDATEs that revoke.
LEMMA RevokeEffects ==
  ASSUME TypeInv, NEW r \in Request, OthersKeep(r), req'[r].pc # "set",
         NEW k \in Key, RevokeRow(k), UNCHANGED introspect
  PROVE  Effects /\ api_keys'[k].revoked
<1>1. \A c \in Key : Held(c)' => Held(c)
  BY NothingHeld
<1>2. /\ api_keys'[k].revoked
      /\ \A c \in Key : /\ api_keys'[c].issued = api_keys[c].issued
                        /\ api_keys'[c].expires_in = api_keys[c].expires_in
                        /\ c # k => api_keys'[c] = api_keys[c]
  BY DEF TypeInv, TypeOK, Row, RevokeRow
<1>3. /\ straddled \subseteq straddled'
      /\ ~api_keys[k].revoked /\ Held(k) => k \in straddled'
  BY DEF RevokeRow
<1>4. \A c \in Key : Cached(c)' => Cached(c)
  BY DEF Cached
<1>5. ASSUME NEW c \in Key, ~api_keys[c].issued, api_keys'[c].issued PROVE FALSE
  BY <1>2, <1>5
<1> QED
  BY <1>1, <1>2, <1>3, <1>4, <1>5 DEF Effects, Expired

\* What remains to be shown of a step with these effects: its own slot, that a
\* key it issues is nobody else's child, and what it adds to withdrawn.
LEMMA SlotStep ==
  ASSUME IInv, TypeInv', Effects, NEW r \in Request, OthersKeep(r),
         SlotOK(r)',
         req'[r].child = NULL \/ req'[r].child = req[r].child
           \/ \A s \in Request : req[s].child # req'[r].child,
         \A k \in Key : ~api_keys[k].issued /\ api_keys'[k].issued =>
                          \A s \in Request \ {r} : req[s].child # k,
         \A k \in withdrawn' \ withdrawn :
           api_keys'[k].issued /\ api_keys'[k].revoked /\ ~Cached(k)'
  PROVE  IInv'
<1>0. /\ withdrawn \subseteq Key /\ withdrawn' \subseteq Key
      /\ req \in [Request -> Slot]
  BY DEF IInv, TypeInv, TypeOK
<1>1. ASSUME NEW s \in Request, s # r PROVE SlotOK(s)'
  <2>1. req'[s] = req[s] /\ SlotOK(s) /\ Carries(s) /\ req[s] \in Slot
    BY <1>0, <1>1 DEF OthersKeep, IInv, TypeInv
  <2>2. req[s].pc \notin {"idle", "insert"} => req[s].key \in Key /\ api_keys[req[s].key].issued
    BY <2>1 DEF SlotOK, Carries, Slot
  <2>3. req[s].child # NULL => req[s].child \in Key /\ ~api_keys'[req[s].child].issued
    BY <1>1, <2>1 DEF SlotOK, Slot
  <2>4. req[s].pc = "invalidate" => api_keys'[req[s].key].revoked
    BY <2>1, <2>2 DEF SlotOK, Effects
  <2>5. req[s].lapsed => req[s].pc = "find_by_hash" /\ Expired(req[s].key)'
    <3>1. ASSUME req[s].lapsed
          PROVE  req[s].pc = "find_by_hash" /\ Expired(req[s].key) /\ req[s].key \in Key
      BY <2>1, <2>2, <3>1 DEF SlotOK
    <3>2. ASSUME NEW k \in Key, api_keys[k].issued, Expired(k) PROVE Expired(k)'
      BY <3>2 DEF Effects
    <3>3. ASSUME req[s].lapsed PROVE Expired(req[s].key)'
      <4>1. PICK k \in Key : k = req[s].key
        BY <3>1, <3>3
      <4>2. Expired(k)'
        BY <2>2, <3>1, <3>2, <3>3, <4>1
      <4> QED
        BY <2>1, <4>1, <4>2 DEF Expired
    <3> QED
      BY <3>1, <3>3
  <2> QED
    BY <2>1, <2>2, <2>3, <2>4, <2>5 DEF SlotOK, Effects, Expired
<1>2. ChildrenApart'
  BY DEF IInv, ChildrenApart, OthersKeep
<1>3. HeldRecorded'
  <2> SUFFICES ASSUME NEW k \in Key, api_keys'[k].revoked, Held(k)' PROVE k \in straddled'
    BY DEF HeldRecorded
  <2>1. Held(k) \/ Good(k)
    BY DEF Effects
  <2>2. CASE api_keys[k].revoked
    BY <2>1, <2>2 DEF Good, IInv, HeldRecorded, Effects
  <2>3. CASE ~api_keys[k].revoked
    BY <2>3 DEF Effects
  <2> QED
    BY <2>2, <2>3
<1>4. WithdrawnGone'
  <2>1. ASSUME NEW k \in withdrawn
        PROVE  /\ api_keys'[k].issued /\ api_keys'[k].revoked
               /\ k \notin straddled' => ~Cached(k)'
    <3>1. k \in Key /\ api_keys[k].issued /\ api_keys[k].revoked
      BY <1>0, <2>1 DEF IInv, WithdrawnGone
    <3>2. k \notin straddled' => ~Cached(k) /\ ~Held(k)
      BY <2>1, <3>1 DEF IInv, WithdrawnGone, HeldRecorded, Effects
    <3> QED
      BY <3>1, <3>2 DEF Effects
  <2> QED
    BY <2>1 DEF WithdrawnGone
<1> QED
  BY <1>1, <1>2, <1>3, <1>4 DEF IInv

-----------------------------------------------------------------------------
(* One lemma per action.                                                   *)

\* The invariant at the key of a slot that has one.
LEMMA KeyOK ==
  ASSUME IInv, NEW r \in Request, req[r].pc \notin {"idle", "insert"}
  PROVE  req[r].key \in Key /\ api_keys[req[r].key].issued
  BY DEF IInv, TypeInv, TypeOK, Carries, Slot, SlotOK

\* A handler that leaves has nothing more to keep.
LEMMA LeftOK ==
  ASSUME NEW r \in Request, Left(r)
  PROVE  /\ OthersKeep(r) /\ SlotOK(r)' /\ req'[r].child = NULL
         /\ \A k \in Key : Held(k)' => Held(k)
<1>1. OthersKeep(r) /\ req'[r] = Idle
  BY DEF Left
<1>2. \A k \in Key : Held(k)' => Held(k)
  BY <1>1, IdleSlot, NothingHeld
<1> QED
  BY <1>1, <1>2, IdleSlot DEF SlotOK

LEMMA InitIInv == Init => IInv
<1>1. Init => \A r \in Request : req[r] = Idle
  BY DEF Init
<1>2. Init => \A r \in Request : SlotOK(r)
  BY <1>1, IdleSlot DEF SlotOK
<1>3. Init => ChildrenApart /\ HeldRecorded /\ WithdrawnGone
  BY <1>1, IdleSlot DEF Init, ChildrenApart, HeldRecorded, WithdrawnGone
<1> QED
  BY <1>2, <1>3, InitTypeInv DEF IInv

LEMMA FindByHashIInv ==
  ASSUME IInv, TypeInv', NEW r \in Request, FindByHash(r) PROVE Effects /\ IInv'
<1>1. At(r, "find_by_hash") /\ UNCHANGED <<api_keys, introspect, faults, history>>
  BY DEF FindByHash
<1>2. \A k \in Key : Cached(k)' => Cached(k)
  BY <1>1 DEF Cached
<1>3. Left(r) \/ (Moved(r, "set") /\ Good(req[r].key))
  BY Routes DEF IInv
<1>4. CASE Left(r)
  <2>1. Effects
    BY <1>1, <1>2, <1>4, LeftOK, QuietEffects DEF history
  <2> QED
    BY <1>1, <1>4, <2>1, LeftOK, SlotStep DEF history
<1>5. CASE Moved(r, "set") /\ Good(req[r].key)
  <2>1. OthersKeep(r) /\ req'[r].child = req[r].child
    BY <1>5 DEF Moved
  <2>2. \A k \in Key : Held(k)' => Held(k) \/ Good(k)
    BY <1>5, <2>1 DEF Held, At, OthersKeep, Moved
  <2>3. Effects
    BY <1>1, <1>2, <2>2, QuietEffects DEF history
  <2>4. ~req[r].lapsed
    BY <1>5 DEF IInv, SlotOK, Good
  <2>5. SlotOK(r)'
    BY <1>1, <1>5, <2>4 DEF SlotOK, At, Moved, IInv
  <2> QED
    BY <1>1, <2>1, <2>3, <2>5, SlotStep DEF history
<1> QED
  BY <1>3, <1>4, <1>5

LEMMA SetCacheIInv ==
  ASSUME IInv, TypeInv', NEW r \in Request, SetCache(r) PROVE Effects /\ IInv'
<1>1. At(r, "set") /\ UNCHANGED <<api_keys, history>>
  BY DEF SetCache
<1>2. \A k \in Key : Cached(k)' => Cached(k) \/ Held(k)
  <2>1. introspect \in [Key -> 0..MaxTTL] /\ Held(req[r].key)
    BY <1>1 DEF IInv, TypeInv, TypeOK, Held
  <2> QED
    BY <2>1 DEF SetCache, Cached
<1>3. Left(r) \/ (Moved(r, "insert") /\ req[r].child # NULL)
  BY Routes DEF IInv
<1>4. CASE Left(r)
  <2>1. Effects
    BY <1>1, <1>2, <1>4, LeftOK, QuietEffects DEF history
  <2> QED
    BY <1>1, <1>4, <2>1, LeftOK, SlotStep DEF history
<1>5. CASE Moved(r, "insert") /\ req[r].child # NULL
  <2>1. OthersKeep(r) /\ req'[r].pc = "insert" /\ req'[r].child = req[r].child
    BY <1>5 DEF Moved
  <2>2. Effects
    BY <1>1, <1>2, <2>1, NothingHeld, QuietEffects DEF history
  <2>3. SlotOK(r)'
    BY <1>1, <1>5 DEF SlotOK, At, Moved, IInv
  <2> QED
    BY <1>1, <2>1, <2>2, <2>3, SlotStep DEF history
<1> QED
  BY <1>3, <1>4, <1>5

LEMMA InsertIInv ==
  ASSUME IInv, TypeInv', NEW r \in Request, Insert(r) PROVE Effects /\ IInv'
<1> DEFINE c == req[r].child
<1>0. req \in [Request -> Slot] /\ api_keys \in [Key -> Row]
  BY DEF IInv, TypeInv, TypeOK
<1>1. Left(r) /\ UNCHANGED <<introspect, faults, history>>
  BY Routes DEF IInv, Insert
<1>2. c \in Key /\ ~api_keys[c].issued
  BY <1>0 DEF IInv, TypeInv, Carries, SlotOK, Insert, At, Slot
<1>3. /\ api_keys'[c].issued /\ ~api_keys'[c].revoked
      /\ \A k \in Key \ {c} : api_keys'[k] = api_keys[k]
  BY <1>0, <1>2 DEF Insert
<1>4. \A s \in Request \ {r} : req[s].child # c
  BY <1>0, <1>2, NullAssumption DEF IInv, ChildrenApart
<1> HIDE DEF c
<1>5. \A k \in Key : (Held(k)' => Held(k)) /\ (Cached(k)' => Cached(k))
  BY <1>1, LeftOK DEF Cached
<1>6. Effects
  BY <1>1, <1>2, <1>3, <1>5 DEF Effects, Expired, history
<1>7. \A k \in Key : ~api_keys[k].issued /\ api_keys'[k].issued => k = c
  BY <1>3
<1> QED
  BY <1>1, <1>4, <1>6, <1>7, LeftOK, SlotStep DEF history

LEMMA RevokeIInv ==
  ASSUME IInv, TypeInv', NEW r \in Request, Revoke(r) \/ TokenRevoke(r) PROVE Effects /\ IInv'
<1> DEFINE k == req[r].key
<1>1. /\ req[r].pc \in {"revoke", "token_revoke"}
      /\ RevokeRow(k)
      /\ UNCHANGED <<introspect, withdrawn>>
  BY DEF Revoke, TokenRevoke, At
<1>2. k \in Key /\ api_keys[k].issued
  BY <1>1, KeyOK
<1>3. Left(r) \/ Moved(r, "invalidate")
  BY Routes DEF IInv
<1>4. OthersKeep(r) /\ req'[r].pc # "set"
  BY <1>3, IdleSlot DEF Left, Moved
<1>5. Effects /\ api_keys'[k].revoked
  <2> HIDE DEF k
  <2> QED
    BY <1>1, <1>2, <1>4, RevokeEffects DEF IInv
<1>6. \A c \in Key : api_keys'[c].issued = api_keys[c].issued
  BY <1>1, <1>2 DEF RevokeRow, IInv, TypeInv, TypeOK, Row
<1>7. CASE Left(r)
  BY <1>1, <1>5, <1>6, <1>7, LeftOK, SlotStep
<1>8. CASE Moved(r, "invalidate")
  <2>1. ~req[r].lapsed
    BY <1>1 DEF IInv, SlotOK
  <2>2. /\ req'[r].pc = "invalidate" /\ req'[r].key = k /\ req'[r].child = req[r].child
        /\ ~req'[r].lapsed
    BY <1>8, <2>1 DEF Moved
  <2>3. api_keys'[k].issued /\ (req[r].child # NULL => ~api_keys'[req[r].child].issued)
    BY <1>2, <1>6 DEF IInv, TypeInv, TypeOK, Slot, SlotOK
  <2>4. SlotOK(r)'
    BY <1>5, <2>2, <2>3 DEF SlotOK
  <2> QED
    BY <1>1, <1>4, <1>5, <1>6, <2>2, <2>4, SlotStep
<1> QED
  BY <1>3, <1>7, <1>8

LEMMA InvalidateIInv ==
  ASSUME IInv, TypeInv', NEW r \in Request, Invalidate(r) PROVE Effects /\ IInv'
<1> DEFINE k == req[r].key
<1>1. Left(r) /\ At(r, "invalidate") /\ UNCHANGED <<api_keys, straddled>>
  BY Routes DEF IInv, Invalidate
<1>2. k \in Key /\ api_keys[k].issued /\ api_keys[k].revoked
  BY <1>1, KeyOK DEF At, IInv, SlotOK
<1>3. introspect \in [Key -> 0..MaxTTL]
  BY DEF IInv, TypeInv, TypeOK
<1>4. \A c \in Key : Cached(c)' => Cached(c)
  BY <1>3 DEF Invalidate, Cached
<1>5. Effects
  BY <1>1, <1>4, LeftOK, QuietEffects
<1>6. \A c \in withdrawn' \ withdrawn : c = k /\ ~Cached(c)'
  BY <1>2, <1>3 DEF Invalidate, Cached
<1> HIDE DEF k
<1> QED
  BY <1>1, <1>2, <1>5, <1>6, LeftOK, SlotStep

LEMMA ArrivalIInv ==
  ASSUME IInv, TypeInv', NEW r \in Request, Arrival(r) PROVE Effects /\ IInv'
<1>0. TypeOK /\ NULL \notin Key
  BY NullAssumption DEF IInv, TypeInv
<1>1. OthersKeep(r) /\ UNCHANGED <<api_keys, introspect, history>>
  BY <1>0, Arrived
<1>2. req'[r].pc # "set"
  BY <1>0, Arrived, IdleSlot DEF Left
<1>3. Effects
  <2>1. \A k \in Key : Cached(k)' => Cached(k)
    BY <1>1 DEF Cached
  <2> QED
    BY <1>1, <1>2, <2>1, NothingHeld, QuietEffects DEF history
<1>4. SlotOK(r)' /\ (req'[r].child = NULL \/ Fresh(req'[r].child))
  <2>1. CASE Left(r)
    BY <2>1, LeftOK
  <2>2. CASE ~Left(r)
    <3>1. \/ req'[r].child = NULL
          \/ Fresh(req'[r].child) /\ ~api_keys'[req'[r].child].issued
      BY <1>0, <1>1, <2>2, Arrived DEF Fresh
    <3> QED
      BY <1>0, <1>1, <2>2, <3>1, Arrived DEF SlotOK, Expired
  <2> QED
    BY <2>1, <2>2
<1> QED
  BY <1>1, <1>3, <1>4, SlotStep DEF Fresh, history

LEMMA AbortIInv ==
  ASSUME IInv, TypeInv', NEW r \in Request, Abort(r) PROVE Effects /\ IInv'
<1>1. Left(r) /\ UNCHANGED <<api_keys, introspect, history>>
  BY Routes DEF IInv, Abort
<1>2. \A k \in Key : Cached(k)' => Cached(k)
  BY <1>1 DEF Cached
<1>3. Effects
  BY <1>1, <1>2, LeftOK, QuietEffects DEF history
<1> QED
  BY <1>1, <1>3, LeftOK, SlotStep DEF history

\* The clock, and steps outside the system.
LEMMA TimeIInv ==
  ASSUME IInv, TypeInv', Tick \/ UNCHANGED vars PROVE Effects /\ IInv'
<1>0. api_keys \in [Key -> Row] /\ introspect \in [Key -> 0..MaxTTL]
  BY DEF IInv, TypeInv, TypeOK
<1>1. UNCHANGED <<req, history>>
  BY DEF Tick, vars
<1>2. \A k \in Key : Cached(k)' => Cached(k)
  BY <1>0, CacheAssumption DEF Tick, vars, Cached
<1>3. \A k \in Key : /\ api_keys'[k].issued = api_keys[k].issued
                     /\ api_keys'[k].revoked = api_keys[k].revoked
                     /\ Expired(k) => Expired(k)'
  BY <1>0 DEF Tick, vars, Row, Expired
<1>4. \A k \in Key : Held(k)' => Held(k)
  BY <1>1 DEF Held, At
<1>5. Effects
  BY <1>1, <1>2, <1>3, <1>4 DEF Effects, history
<1>6. CASE Request = {}
  <2>1. HeldRecorded'
    BY <1>6 DEF HeldRecorded, Held
  <2>2. withdrawn \subseteq Key /\ withdrawn' = withdrawn /\ straddled' = straddled
    BY <1>1 DEF IInv, TypeInv, TypeOK, history
  <2>3. WithdrawnGone'
    BY <1>2, <1>3, <2>2 DEF IInv, WithdrawnGone
  <2> QED
    BY <1>5, <1>6, <2>1, <2>3 DEF IInv, ChildrenApart
<1>7. ASSUME NEW r \in Request PROVE IInv'
  <2>1. OthersKeep(r) /\ req'[r] = req[r]
    BY <1>1 DEF OthersKeep, IInv, TypeInv, TypeOK
  <2>2. req[r].pc \notin {"idle", "insert"} => req[r].key \in Key
    BY KeyOK
  <2>3. req[r].child # NULL => req[r].child \in Key
    BY DEF IInv, TypeInv, TypeOK, Slot
  <2>4. SlotOK(r)'
    BY <1>3, <2>1, <2>2, <2>3 DEF IInv, SlotOK, Expired
  <2> QED
    BY <1>1, <1>3, <1>5, <2>1, <2>4, SlotStep DEF history
<1> QED
  BY <1>5, <1>6, <1>7

\* Every step has these effects and preserves the invariant.
LEMMA NextIInv == IInv /\ [Next]_vars => Effects /\ IInv'
<1> SUFFICES ASSUME IInv, [Next]_vars PROVE Effects /\ IInv'
  OBVIOUS
<1>1. TypeInv'
  BY NextTypeInv DEF IInv
<1>2. ASSUME NEW r \in Request, Handler(r) PROVE Effects /\ IInv'
  BY <1>1, <1>2, FindByHashIInv, SetCacheIInv, InsertIInv, RevokeIInv, InvalidateIInv DEF Handler
<1>3. ASSUME NEW r \in Request, Arrival(r) \/ Abort(r) PROVE Effects /\ IInv'
  BY <1>1, <1>3, ArrivalIInv, AbortIInv
<1>4. CASE Tick \/ UNCHANGED vars
  BY <1>1, <1>4, TimeIInv
<1> QED
  BY <1>2, <1>3, <1>4 DEF Next

-----------------------------------------------------------------------------
(* The theorems.                                                           *)

\* Revocation by id that deleted the cache entry leaves the key refused by
\* row, entry and verifiers in flight, unless a verifier had read the row and
\* not yet cached it when the row changed.
THEOREM WithdrawnMeansRefusedHolds == Spec => []WithdrawnMeansRefused
<1>1. IInv => WithdrawnMeansRefused
  BY DEF IInv, TypeInv, TypeOK, WithdrawnMeansRefused, WithdrawnGone, HeldRecorded, Good
<1> QED
  BY <1>1, InitIInv, NextIInv, PTL DEF Spec

\* No request that presents a key after its expiry gets as far as caching it or
\* inserting a new opaque token, whatever the cache still holds of the key.
THEOREM ExpiredGetsNothingHolds == Spec => []ExpiredGetsNothing
<1>1. IInv => ExpiredGetsNothing
  BY DEF IInv, SlotOK, ExpiredGetsNothing
<1> QED
  BY <1>1, InitIInv, NextIInv, PTL DEF Spec

\* One step moves a key along, never back.
LEMMA StatusStep ==
  ASSUME IInv, Effects, NEW k \in Key
  PROVE  KeyStatus(k)' \in Promise!After(k, KeyStatus(k))
<1>1. CASE ~api_keys[k].issued
  <2>1. ~Held(k)
    BY <1>1, KeyOK DEF Held, At
  <2>2. ~Held(k)'
    BY <1>1, <2>1 DEF Effects, Good
  <2>3. KeyStatus(k)' \in {"unissued", "active", "dead"}
    BY <1>1, <2>2 DEF Effects, KeyStatus, Good, Hit
  <2> QED
    BY <1>1, <2>3 DEF KeyStatus, Promise!After, Promise!PutBack
<1>2. CASE api_keys[k].issued /\ Good(k)
  <2>1. KeyStatus(k)' \in {"active", "fading", "dead"}
    BY <1>2 DEF Effects, KeyStatus
  <2> QED
    BY <1>2, <2>1 DEF KeyStatus, Promise!After, Promise!PutBack
<1>3. CASE api_keys[k].issued /\ ~Good(k)
  <2>1. api_keys'[k].issued /\ ~Good(k)'
    BY <1>3 DEF Effects, Good
  <2>2. CASE Hit(k) \/ Held(k)
    <3>1. KeyStatus(k)' \in {"fading", "dead"}
      BY <2>1 DEF KeyStatus
    <3> QED
      BY <1>3, <2>2, <3>1 DEF KeyStatus, Promise!After, Promise!PutBack
  <2>3. CASE ~Hit(k) /\ ~Held(k)
    <3>1. ~Hit(k)' /\ ~Held(k)'
      BY <1>3, <2>3 DEF Effects, Hit
    <3>2. KeyStatus(k)' = "dead"
      BY <2>1, <3>1 DEF KeyStatus
    <3> QED
      BY <1>3, <2>3, <3>2 DEF KeyStatus, Promise!After, Promise!PutBack
  <2> QED
    BY <2>2, <2>3
<1> QED
  BY <1>1, <1>2, <1>3

\* Once no row, no unexpired entry and no verifier in flight vouches for a
\* key, it is refused for ever: every step of the endpoints and of
\* ApiKeyVerifier is a step of RevocableCredential.
THEOREM OnceRefusedHolds == Spec => OnceRefusedAlwaysRefused
<1>1. Init => Promise!Init
  BY DEF Init, Promise!Init, KeyStatus
<1>2. IInv /\ [Next]_vars => [Promise!Next]_[k \in Key |-> KeyStatus(k)]
  <2> SUFFICES ASSUME IInv, [Next]_vars PROVE Promise!Next
    OBVIOUS
  <2>1. Effects
    BY NextIInv
  <2> QED
    BY <2>1, StatusStep DEF Promise!Next
<1> QED
  BY <1>1, <1>2, InitIInv, NextIInv, PTL DEF Spec, OnceRefusedAlwaysRefused, Promise!Safety

-----------------------------------------------------------------------------
(* How long a key fades.                                                   *)

\* A handler that leaves another statement, or goes on to one, holds nothing
\* it did not hold.
LEMMA NothingTaken ==
  ASSUME NEW r \in Request, OthersKeep(r), req'[r].pc # "set", NEW k
  PROVE  Holders(k)' \subseteq Holders(k)
  BY DEF OthersKeep, Holders, At

\* Of a key that is not good: no verifier takes hold of it, and its entry
\* lives longer only if a verifier lets go of it.
LEMMA NotGoodStep ==
  ASSUME TypeInv, [Next]_vars, NEW k \in Key, ~Good(k)
  PROVE  /\ Holders(k)' \subseteq Holders(k)
         /\ Holders(k)' = Holders(k) => introspect'[k] <= introspect[k]
<1>0. /\ req \in [Request -> Slot] /\ introspect \in [Key -> 0..MaxTTL]
      /\ introspect[k] \in Nat
      /\ Idle.pc = "idle"
  BY CacheAssumption, IdleSlot DEF TypeInv, TypeOK
<1>1. ASSUME NEW r \in Request, Left(r) PROVE Holders(k)' \subseteq Holders(k)
  BY <1>0, <1>1, NothingTaken DEF Left
<1>2. ASSUME NEW r \in Request, FindByHash(r) PROVE Holders(k)' \subseteq Holders(k)
  <2>1. CASE Moved(r, "set") /\ Good(req[r].key)
    <3>1. OthersKeep(r) /\ req'[r].key # k
      BY <2>1 DEF Moved
    <3> QED
      BY <3>1 DEF OthersKeep, Holders, At
  <2> QED
    BY <1>1, <1>2, <2>1, Routes
<1>3. ASSUME NEW r \in Request, SetCache(r)
      PROVE  /\ Holders(k)' \subseteq Holders(k)
             /\ Holders(k)' = Holders(k) => introspect'[k] = introspect[k]
  <2>1. OthersKeep(r) /\ req'[r].pc # "set" /\ At(r, "set")
    BY <1>0, <1>3, Routes DEF Left, Moved, SetCache
  <2>2. Holders(k)' \subseteq Holders(k)
    BY <2>1, NothingTaken
  <2>3. CASE req[r].key = k
    <3>1. r \in Holders(k) /\ r \notin Holders(k)'
      BY <2>1, <2>3 DEF Holders, At
    <3> QED
      BY <2>2, <3>1
  <2>4. CASE req[r].key # k
    <3>1. introspect'[k] = introspect[k]
      BY <1>0, <1>3, <2>4 DEF SetCache
    <3> QED
      BY <2>2, <3>1
  <2> QED
    BY <2>3, <2>4
<1>4. ASSUME NEW r \in Request, Insert(r) \/ Revoke(r) \/ TokenRevoke(r) \/ Abort(r)
      PROVE  Holders(k)' \subseteq Holders(k) /\ introspect' = introspect
  <2>1. Left(r) \/ Moved(r, "invalidate")
    BY <1>4, Routes
  <2>2. Holders(k)' \subseteq Holders(k)
    BY <1>1, <2>1, NothingTaken DEF Moved
  <2> QED
    BY <1>4, <2>2 DEF Insert, Revoke, TokenRevoke, Abort
<1>5. ASSUME NEW r \in Request, Invalidate(r)
      PROVE  Holders(k)' \subseteq Holders(k) /\ introspect'[k] <= introspect[k]
  <2>1. Holders(k)' \subseteq Holders(k)
    BY <1>1, <1>5, Routes
  <2>2. introspect'[k] \in {0, introspect[k]}
    BY <1>0, <1>5 DEF Invalidate
  <2> QED
    BY <1>0, <2>1, <2>2
<1>6. ASSUME NEW r \in Request, Arrival(r)
      PROVE  Holders(k)' \subseteq Holders(k) /\ introspect' = introspect
  <2>1. OthersKeep(r) /\ req'[r].pc # "set" /\ UNCHANGED introspect
    BY <1>0, <1>6, Arrived DEF TypeInv, Left
  <2> QED
    BY <2>1, NothingTaken
<1>7. ASSUME Tick
      PROVE  Holders(k)' \subseteq Holders(k) /\ introspect'[k] <= introspect[k]
  <2>1. introspect'[k] = IF introspect[k] > 0 THEN introspect[k] - 1 ELSE 0
    BY <1>7 DEF Tick, Cached
  <2>2. Holders(k)' = Holders(k)
    BY <1>7 DEF Tick, Holders, At
  <2> QED
    BY <1>0, <2>1, <2>2
<1>8. ASSUME UNCHANGED vars
      PROVE  Holders(k)' \subseteq Holders(k) /\ introspect' = introspect
  BY <1>8 DEF vars, Holders, At
<1>9. introspect[k] <= introspect[k]
  BY <1>0
<1>10. ASSUME NEW r \in Request, FindByHash(r) PROVE introspect' = introspect
  BY <1>10 DEF FindByHash
<1> QED
  BY <1>2, <1>3, <1>4, <1>5, <1>6, <1>7, <1>8, <1>9, <1>10 DEF Next, Handler

\* A revoked or expired key fades for no longer than its verifiers in flight
\* and the entries they write: a hit renews nothing, and no verifier accepts
\* the row any more (lib.rs:194-201, 221-230).
THEOREM FadingIsBoundedHolds == Spec => FadingIsBounded
<1>1. TypeInv /\ [Next]_vars =>
        [\A k \in Key : KeyStatus(k) = "fading" =>
           /\ Holders(k)' \subseteq Holders(k)
           /\ Holders(k)' = Holders(k) => introspect'[k] <= introspect[k]]_vars
  <2>1. \A k \in Key : KeyStatus(k) = "fading" => ~Good(k)
    BY DEF KeyStatus
  <2> QED
    BY <2>1, NotGoodStep
<1> QED
  BY <1>1, InitTypeInv, NextTypeInv, PTL DEF Spec, FadingIsBounded
=============================================================================
