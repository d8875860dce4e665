------------------------------ MODULE ApiKeys -------------------------------
(***************************************************************************)
(* API keys and opaque tokens: the table api_keys, the endpoints that      *)
(* create and revoke keys (POST /api-keys, DELETE /api-keys/{id}, POST     *)
(* /token/revoke), POST /token with client_credentials, which presents one *)
(* key and receives another, and ApiKeyVerifier, which /introspect and     *)
(* /token call and which keeps what it found in Redis.                     *)
(*                                                                         *)
(* Both kinds of key are rows of one table and go through one verifier.    *)
(* A key is named by its hash.  A cache entry is an image of a row whose   *)
(* columns never change except for revoked_at, so of an entry only its     *)
(* remaining lifetime is kept, 0 for no entry.                             *)
(*                                                                         *)
(* As in ServiceTokens each SQL statement and each Redis command is one    *)
(* step, and a request that is refused, or answered by /introspect from    *)
(* the cache, changes nothing and is a stuttering step.                    *)
(***************************************************************************)
EXTENDS Integers

CONSTANTS
  Key,          \* hashes of the keys that may ever be generated
  Request,      \* requests in flight at once, over all replicas
  NULL,
  Lifetime,     \* what callers of POST /api-keys ask for, in ticks; 0 if in the past
  OpaqueTTL,    \* OPAQUE_TOKEN_TTL_SECONDS, in ticks
  MaxTTL,       \* 300 seconds, in ticks
  Share,        \* an entry gets one part in Share of what is left of its key
  MaxFaults     \* bound on failed commands and dropped handlers

ASSUME NullAssumption == NULL \notin Key \cup Nat
ASSUME LifetimeAssumption == Lifetime \subseteq Nat /\ OpaqueTTL \in Nat \ {0}
ASSUME CacheAssumption == MaxTTL \in Nat \ {0} /\ Share \in Nat \ {0}
ASSUME BoundAssumption == MaxFaults \in Nat

VARIABLES
  api_keys,     \* key -> row; a key that is not in the table has "issued" FALSE
  introspect,   \* the Redis keys introspect:<hash>
  req,
  faults,
  \* What happened, for the properties.
  withdrawn,    \* keys whose revocation by id deleted their cache entry
  straddled     \* keys a verifier had read, but not yet cached, when revoked

history == <<withdrawn, straddled>>
vars    == <<api_keys, introspect, req, faults, history>>

\* expires_in: ticks until expires_at, 0 once it is past, NULL if it is.
Row == [issued : BOOLEAN, revoked : BOOLEAN, expires_in : Nat \cup {NULL}]

PC == {"idle", "find_by_hash", "set",          \* verify
       "insert",                               \* create, create_opaque
       "revoke", "invalidate", "token_revoke"} \* the two revocations

\* key: the one presented or looked up; child: the one to be inserted;
\* expires_in of that; ttl of the entry to be set; lapsed (history): the key
\* presented had expired when the request began.
Slot == [pc : PC, key : Key \cup {NULL}, child : Key \cup {NULL},
         expires_in : Nat \cup {NULL}, ttl : 0..MaxTTL, lapsed : BOOLEAN]

Idle == [pc |-> "idle", key |-> NULL, child |-> NULL, expires_in |-> NULL,
         ttl |-> 0, lapsed |-> FALSE]

Init ==
  /\ api_keys = [k \in Key |-> [issued |-> FALSE, revoked |-> FALSE, expires_in |-> NULL]]
  /\ introspect = [k \in Key |-> 0]
  /\ req = [r \in Request |-> Idle]
  /\ faults = 0
  /\ withdrawn = {}
  /\ straddled = {}

At(r, label) == req[r].pc = label
Respond(r) == req' = [req EXCEPT ![r] = Idle]
Fault == faults < MaxFaults /\ faults' = faults + 1

Expired(k) == api_keys[k].expires_in = 0

\* What verify asks of the row: present, not revoked, not expired.
Good(k) == api_keys[k].issued /\ ~api_keys[k].revoked /\ ~Expired(k)

Cached(k) == introspect[k] > 0

\* Mutant: an entry is believed without a look at its exp.
HitUnchecked(k) == Cached(k)

\* An entry answers if the exp in it is not past.
Hit(k) == Cached(k) /\ ~Expired(k)

Held(k) == \E r \in Request : At(r, "set") /\ req[r].key = k

\* The verifiers about to cache k.
Holders(k) == {r \in Request : At(r, "set") /\ req[r].key = k}

\* 32 random bytes: in no row and in no other handler.
Fresh(k) == ~api_keys[k].issued /\ \A r \in Request : req[r].child # k

\* Mutant: the cap applies only to keys without an expiry.
CacheTTLUncapped(k) ==
  IF api_keys[k].expires_in = NULL THEN MaxTTL ELSE api_keys[k].expires_in

\* compute_cache_ttl
CacheTTL(k) ==
  LET left == api_keys[k].expires_in
      part == left \div Share
  IN IF left # NULL /\ part < MaxTTL THEN part ELSE MaxTTL

\* Once the key k is accepted: /introspect answers, /token inserts the child.
Accept(r, slot) ==
  req' = [req EXCEPT ![r] = IF slot.child = NULL THEN Idle
                                ELSE [slot EXCEPT !.pc = "insert"]]

-----------------------------------------------------------------------------
(* ApiKeyVerifier.verify, for POST /introspect (child is NULL) and for     *)
(* POST /token with token_format=opaque.  A JWT is signed and not stored.  *)

\* Mutant: a hit renews the entry.
VerifyRenewing(r, k, child) ==
  LET slot == [Idle EXCEPT !.pc = "find_by_hash", !.key = k, !.child = child,
                 !.expires_in = IF child = NULL THEN NULL ELSE OpaqueTTL,
                 !.lapsed = Expired(k)]
  IN
  /\ At(r, "idle")
  /\ api_keys[k].issued
  /\ child # NULL => Fresh(child)
  /\ \/ /\ Hit(k)
        /\ introspect' = [introspect EXCEPT ![k] = CacheTTL(k)]
        /\ Accept(r, slot)
     \/ /\ ~Cached(k)
        /\ req' = [req EXCEPT ![r] = slot]
        /\ UNCHANGED introspect
  /\ UNCHANGED <<api_keys, faults, history>>

\* GET introspect:<hash>; a failed GET is a miss.
Verify(r, k, child) ==
  LET slot == [Idle EXCEPT !.pc = "find_by_hash", !.key = k, !.child = child,
                 !.expires_in = IF child = NULL THEN NULL ELSE OpaqueTTL,
                 !.lapsed = Expired(k)]
  IN
  /\ At(r, "idle")
  /\ api_keys[k].issued
  /\ child # NULL => Fresh(child)
  /\ \/ /\ Hit(k) /\ child # NULL
        /\ Accept(r, slot)
        /\ UNCHANGED faults
     \/ /\ ~Cached(k)
        /\ req' = [req EXCEPT ![r] = slot]
        /\ UNCHANGED faults
     \/ /\ Cached(k)
        /\ Fault
        /\ req' = [req EXCEPT ![r] = slot]
  /\ UNCHANGED <<api_keys, introspect, history>>

\* Mutant: revoked_at is not looked at.
FindByHashRevoked(r) ==
  LET k == req[r].key IN
  /\ At(r, "find_by_hash")
  /\ IF api_keys[k].issued /\ ~Expired(k)
       THEN req' = [req EXCEPT ![r].pc = "set", ![r].ttl = CacheTTL(k)]
       ELSE Respond(r)
  /\ UNCHANGED <<api_keys, introspect, faults, history>>

FindByHash(r) ==
  LET k == req[r].key IN
  /\ At(r, "find_by_hash")
  /\ IF Good(k)
       THEN req' = [req EXCEPT ![r].pc = "set", ![r].ttl = CacheTTL(k)]
       ELSE Respond(r)
  /\ UNCHANGED <<api_keys, introspect, faults, history>>

\* SETEX; a lifetime of 0 is an error, and errors are ignored.
SetCache(r) ==
  /\ At(r, "set")
  /\ \/ /\ req[r].ttl > 0
        /\ introspect' = [introspect EXCEPT ![req[r].key] = req[r].ttl]
        /\ UNCHANGED faults
     \/ /\ req[r].ttl = 0
        /\ UNCHANGED <<introspect, faults>>
     \/ /\ Fault
        /\ UNCHANGED introspect
  /\ Accept(r, req[r])
  /\ UNCHANGED <<api_keys, history>>

-----------------------------------------------------------------------------
(* Creation and revocation.                                                *)

\* POST /api-keys for a service account: scopes and owner are valid.  Nothing
\* asks that expires_at be in the future; one that does not parse is none.
Create(r, k, life) ==
  /\ At(r, "idle")
  /\ Fresh(k)
  /\ req' = [req EXCEPT ![r] = [Idle EXCEPT !.pc = "insert", !.child = k, !.expires_in = life]]
  /\ UNCHANGED <<api_keys, introspect, faults, history>>

Insert(r) ==
  /\ At(r, "insert")
  /\ api_keys' = [api_keys EXCEPT ![req[r].child] =
                    [issued |-> TRUE, revoked |-> FALSE, expires_in |-> req[r].expires_in]]
  /\ Respond(r)
  /\ UNCHANGED <<introspect, faults, history>>

\* DELETE /api-keys/{id}: find_by_id, whatever the row says.
RevokeById(r, k) ==
  /\ At(r, "idle")
  /\ api_keys[k].issued
  /\ req' = [req EXCEPT ![r] = [Idle EXCEPT !.pc = "revoke", !.key = k]]
  /\ UNCHANGED <<api_keys, introspect, faults, history>>

\* UPDATE ... SET revoked_at = now() WHERE id = $1 AND revoked_at IS NULL
RevokeRow(k) ==
  /\ api_keys' = [api_keys EXCEPT ![k].revoked = TRUE]
  /\ straddled' = straddled \cup (IF Held(k) /\ ~api_keys[k].revoked THEN {k} ELSE {})

\* No row changed is a 404, and the cache is left alone.
Revoke(r) ==
  LET k == req[r].key IN
  /\ At(r, "revoke")
  /\ RevokeRow(k)
  /\ IF api_keys[k].revoked THEN Respond(r)
                            ELSE req' = [req EXCEPT ![r].pc = "invalidate"]
  /\ UNCHANGED <<introspect, faults, withdrawn>>

\* Mutant: the cache key is not deleted.
InvalidateNothing(r) ==
  /\ At(r, "invalidate")
  /\ withdrawn' = withdrawn \cup {req[r].key}
  /\ Respond(r)
  /\ UNCHANGED <<api_keys, introspect, faults, straddled>>

\* invalidate_cache, DEL introspect:<hash>; its failure is ignored.
Invalidate(r) ==
  LET k == req[r].key IN
  /\ At(r, "invalidate")
  /\ \/ /\ introspect' = [introspect EXCEPT ![k] = 0]
        /\ withdrawn' = withdrawn \cup {k}
        /\ UNCHANGED faults
     \/ /\ Fault
        /\ UNCHANGED <<introspect, withdrawn>>
  /\ Respond(r)
  /\ UNCHANGED <<api_keys, straddled>>

\* POST /token/revoke: find_by_hash, then the same UPDATE, and that is all.
RevokeByToken(r, k) ==
  /\ At(r, "idle")
  /\ api_keys[k].issued
  /\ req' = [req EXCEPT ![r] = [Idle EXCEPT !.pc = "token_revoke", !.key = k]]
  /\ UNCHANGED <<api_keys, introspect, faults, history>>

TokenRevoke(r) ==
  LET k == req[r].key IN
  /\ At(r, "token_revoke")
  /\ RevokeRow(k)
  /\ Respond(r)
  /\ UNCHANGED <<introspect, faults, withdrawn>>

-----------------------------------------------------------------------------
(* Failures, time.                                                         *)

\* A statement fails or the handler is dropped with its connection or process.
Abort(r) ==
  /\ req[r].pc # "idle"
  /\ Fault
  /\ Respond(r)
  /\ UNCHANGED <<api_keys, introspect, history>>

Tick ==
  /\ \E k \in Key : Cached(k) \/ api_keys[k].expires_in \notin {NULL, 0}
  /\ introspect' = [k \in Key |-> IF Cached(k) THEN introspect[k] - 1 ELSE 0]
  /\ api_keys' = [k \in Key |->
       LET left == api_keys[k].expires_in IN
       [api_keys[k] EXCEPT !.expires_in = IF left \in {NULL, 0} THEN left ELSE left - 1]]
  /\ UNCHANGED <<req, faults, history>>

-----------------------------------------------------------------------------
Handler(r) ==
  FindByHash(r) \/ SetCache(r) \/ Insert(r) \/ Revoke(r) \/ Invalidate(r) \/ TokenRevoke(r)

Arrival(r) ==
  \/ \E k \in Key, child \in Key \cup {NULL} : Verify(r, k, child)
  \/ \E k \in Key, life \in Lifetime \cup {NULL} : Create(r, k, life)
  \/ \E k \in Key : RevokeById(r, k) \/ RevokeByToken(r, k)

Next ==
  \/ \E r \in Request : Handler(r) \/ Arrival(r) \/ Abort(r)
  \/ Tick

\* The runtime keeps polling every handler, and time passes.
Fairness == (\A r \in Request : WF_vars(Handler(r))) /\ WF_vars(Tick)

Spec == Init /\ [][Next]_vars /\ Fairness

-----------------------------------------------------------------------------
(* Properties.                                                             *)

\* Rows, entries and slots are well formed, whatever steps interleave; in
\* particular no entry is set for longer than the cap.
TypeOK ==
  /\ api_keys \in [Key -> Row]
  /\ introspect \in [Key -> 0..MaxTTL]
  /\ req \in [Request -> Slot]
  /\ faults \in 0..MaxFaults
  /\ withdrawn \subseteq Key
  /\ straddled \subseteq Key

KeyStatus(k) ==
  IF ~api_keys[k].issued THEN "unissued"
  ELSE IF Good(k) THEN "active"
  ELSE IF Hit(k) \/ Held(k) THEN "fading"
  ELSE "dead"

Promise == INSTANCE RevocableCredential WITH
  Credential <- Key,
  Configured <- {},
  status <- [k \in Key |-> KeyStatus(k)]

\* A key that was revoked or has expired may fade, but once no row, entry or
\* verifier in flight vouches for it nothing brings it back, not even a
\* verifier that caches what it read before (lib.rs:187-230).
OnceRefusedAlwaysRefused == Promise!Safety

\* Every revoked or expired key is at last refused for good, whichever way it
\* was revoked and however often it is presented: no hit renews an entry, and
\* every entry has a lifetime (lib.rs:66-74, 194-201).
WithdrawnKeysFade == Promise!Fades

\* How long that takes: while a key fades no new verifier gets hold of it, and
\* its entry is set only by one that held it and lets go of it by that.  So it
\* is dead once those verifiers are done and the cap has passed since, whoever
\* presents it and whichever DEL failed (lib.rs:194-201, 221-230).
FadingIsBounded ==
  [][\A k \in Key : KeyStatus(k) = "fading" =>
       /\ Holders(k)' \subseteq Holders(k)
       /\ Holders(k)' = Holders(k) => introspect'[k] <= introspect[k]]_vars

\* A request that presents a key after its expiry is given neither an answer
\* from the table nor a new opaque token, although an entry may outlive the
\* key if the SETEX was slow (lib.rs:195-199, 214-218).
ExpiredGetsNothing ==
  \A r \in Request : req[r].pc \in {"set", "insert"} => ~req[r].lapsed

\* Revocation by id leaves the key refused as soon as it has deleted the
\* entry, unless a verifier was between SELECT and SETEX when the row changed
\* (api_keys.rs:259-262).
WithdrawnMeansRefused ==
  \A k \in withdrawn \ straddled : ~Good(k) /\ ~Cached(k) /\ ~Held(k)

\* "吊销后 /introspect 返回 active: false" (after the revocation /introspect
\* answers active: false, openapi.yaml:600): when /token/revoke answers, the
\* key it revoked is not accepted.  The handler never deletes the entry.
RevokedIsInactive ==
  [][\A r \in Request, k \in Key :
       TokenRevoke(r) /\ k = req[r].key => ~Good(k)' /\ ~Hit(k)']_vars
=============================================================================
