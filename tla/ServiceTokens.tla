--------------------------- MODULE ServiceTokens ----------------------------
(***************************************************************************)
(* Service tokens: the table service_tokens with one row per project, the  *)
(* endpoints that create, rotate and revoke its tokens, the start-up seed  *)
(* of the admin token, and ServiceTokenVerifier, which every request to a  *)
(* protected endpoint goes through and which keeps what it found in Redis. *)
(*                                                                         *)
(* Each SQL statement or transaction and each Redis command is one atomic  *)
(* step; handlers interleave between them.  A request that is refused or   *)
(* served from the cache changes nothing and is a stuttering step.         *)
(*                                                                         *)
(* A token is named by its hash.  A cache entry maps a hash to the project *)
(* of the row it was read from; a hash belongs to one project for ever, so *)
(* only the entry's remaining lifetime is kept, 0 for no entry.            *)
(***************************************************************************)
EXTENDS Naturals

CONSTANTS
  Project,
  Aspectus,     \* the admin project: seeded, never managed by an endpoint
  Hash,         \* hashes of the tokens there may ever be
  AdminHash,    \* those of the admin tokens operators configure; the
                \* others are of generated tokens
  Request,      \* requests in flight at once, over all replicas
  NULL,
  TTL,          \* 60 seconds, in ticks
  MaxFaults     \* bound on failed commands and dropped handlers

ASSUME ProjectAssumption == Aspectus \in Project
ASSUME AdminAssumption == AdminHash \subseteq Hash
ASSUME NullAssumption == NULL \notin Project \cup Hash
ASSUME BoundAssumption == TTL \in Nat \ {0} /\ MaxFaults \in Nat

VARIABLES
  service_tokens,  \* project -> row; hash NULL is "no row"
  svc_token,       \* the Redis keys svc_token:<hash>
  req,             \* slot -> local state of the handler running in it
  faults,
  \* What happened, for the properties.
  owner,           \* hash -> the project whose row it entered
  withdrawn,       \* hashes whose rotation or revocation deleted their key
  straddled        \* hashes a verifier had read, but not yet cached, when
                   \* upsert or revoke made the table cease to name them

history == <<owner, withdrawn, straddled>>
vars    == <<service_tokens, svc_token, req, faults, history>>

Row == [hash : Hash \cup {NULL}, revoked : BOOLEAN]

PC == {"idle",
       "find_by_hash", "set",                \* verify
       "upsert", "revoke", "invalidate"}     \* create, rotate, revoke

\* hash: the token presented or generated; existing: the hash get_by_project
\* returned to rotate or revoke.
Slot == [pc : PC, project : Project \cup {NULL},
         hash : Hash \cup {NULL}, existing : Hash \cup {NULL}]

Idle == [pc |-> "idle", project |-> NULL, hash |-> NULL, existing |-> NULL]

Init ==
  /\ service_tokens = [p \in Project |-> [hash |-> NULL, revoked |-> FALSE]]
  /\ svc_token = [h \in Hash |-> 0]
  /\ req = [r \in Request |-> Idle]
  /\ faults = 0
  /\ owner = [h \in Hash |-> NULL]
  /\ withdrawn = {}
  /\ straddled = {}

At(r, label) == req[r].pc = label
Goto(r, label) == req' = [req EXCEPT ![r].pc = label]
Respond(r) == req' = [req EXCEPT ![r] = Idle]
Fault == faults < MaxFaults /\ faults' = faults + 1

\* get_by_project and is_active.
Active(p) == service_tokens[p].hash # NULL /\ ~service_tokens[p].revoked

\* find_by_hash: token_hash = $1 AND revoked_at IS NULL.
Named(h) == \E p \in Project : Active(p) /\ service_tokens[p].hash = h

Cached(h) == svc_token[h] > 0
Held(h) == \E r \in Request : At(r, "set") /\ req[r].hash = h

\* The verifiers about to cache h.
Holders(h) == {r \in Request : At(r, "set") /\ req[r].hash = h}

\* 32 random bytes: configured nowhere, in no row, past or present, and in no
\* other handler.
Fresh(h) == h \notin AdminHash /\ owner[h] = NULL /\ \A r \in Request : req[r].hash # h

\* What the history records when the row of p stops naming its hash.
Straddle(p) ==
  straddled' = straddled \cup {h \in Hash : h = service_tokens[p].hash /\ Held(h)}

-----------------------------------------------------------------------------
(* ServiceTokenVerifier.verify.                                            *)

\* Mutant: a hit renews the 60 seconds.
VerifyRenewing(r, h) ==
  /\ At(r, "idle")
  /\ \/ /\ ~Cached(h)
        /\ req' = [req EXCEPT ![r] = [Idle EXCEPT !.pc = "find_by_hash", !.hash = h]]
        /\ UNCHANGED svc_token
     \/ /\ Cached(h)
        /\ svc_token' = [svc_token EXCEPT ![h] = TTL]
        /\ UNCHANGED req
  /\ UNCHANGED <<service_tokens, faults, history>>

\* GET svc_token:<hash>.  A hit is answered at once; a failed GET is a miss.
Verify(r, h) ==
  /\ At(r, "idle")
  /\ \/ ~Cached(h) /\ UNCHANGED faults
     \/ Cached(h) /\ Fault
  /\ req' = [req EXCEPT ![r] = [Idle EXCEPT !.pc = "find_by_hash", !.hash = h]]
  /\ UNCHANGED <<service_tokens, svc_token, history>>

\* Mutant: the row is found whether revoked or not.
FindByHashAnyRow(r) ==
  /\ At(r, "find_by_hash")
  /\ IF \E p \in Project : service_tokens[p].hash = req[r].hash
       THEN Goto(r, "set") ELSE Respond(r)
  /\ UNCHANGED <<service_tokens, svc_token, faults, history>>

FindByHash(r) ==
  /\ At(r, "find_by_hash")
  /\ IF Named(req[r].hash) THEN Goto(r, "set") ELSE Respond(r)
  /\ UNCHANGED <<service_tokens, svc_token, faults, history>>

\* SETEX svc_token:<hash> 60; its failure is ignored.
SetCache(r) ==
  /\ At(r, "set")
  /\ \/ svc_token' = [svc_token EXCEPT ![req[r].hash] = TTL] /\ UNCHANGED faults
     \/ Fault /\ UNCHANGED svc_token
  /\ Respond(r)
  /\ UNCHANGED <<service_tokens, history>>

-----------------------------------------------------------------------------
(* POST /service-tokens, POST .../rotate, DELETE ... : get_by_project is   *)
(* the first statement of each.  reject_aspectus keeps the admin project   *)
(* out of all three.                                                       *)

\* An active token is a 409.
Create(r, p, h) ==
  /\ At(r, "idle")
  /\ p # Aspectus
  /\ ~Active(p)
  /\ Fresh(h)
  /\ req' = [req EXCEPT ![r] = [Idle EXCEPT !.pc = "upsert", !.project = p, !.hash = h]]
  /\ UNCHANGED <<service_tokens, svc_token, faults, history>>

Rotate(r, p, h) ==
  /\ At(r, "idle")
  /\ p # Aspectus
  /\ Active(p)
  /\ Fresh(h)
  /\ req' = [req EXCEPT ![r] = [pc |-> "upsert", project |-> p, hash |-> h,
                                existing |-> service_tokens[p].hash]]
  /\ UNCHANGED <<service_tokens, svc_token, faults, history>>

Revoke(r, p) ==
  /\ At(r, "idle")
  /\ p # Aspectus
  /\ Active(p)
  /\ req' = [req EXCEPT ![r] = [pc |-> "revoke", project |-> p, hash |-> NULL,
                                existing |-> service_tokens[p].hash]]
  /\ UNCHANGED <<service_tokens, svc_token, faults, history>>

\* Mutant: the caller of upsert invalidates although it read no old hash.
UpsertThenInvalidate(r) ==
  /\ At(r, "upsert")
  /\ service_tokens' = [service_tokens EXCEPT ![req[r].project] =
                          [hash |-> req[r].hash, revoked |-> FALSE]]
  /\ owner' = [owner EXCEPT ![req[r].hash] = req[r].project]
  /\ Straddle(req[r].project)
  /\ Goto(r, "invalidate")
  /\ UNCHANGED <<svc_token, faults, withdrawn>>

\* The transaction of upsert.  The hash it returns is ignored: create
\* responds at once, rotate invalidates the hash it read before.
Upsert(r) ==
  /\ At(r, "upsert")
  /\ service_tokens' = [service_tokens EXCEPT ![req[r].project] =
                          [hash |-> req[r].hash, revoked |-> FALSE]]
  /\ owner' = [owner EXCEPT ![req[r].hash] = req[r].project]
  /\ Straddle(req[r].project)
  /\ IF req[r].existing = NULL THEN Respond(r) ELSE Goto(r, "invalidate")
  /\ UNCHANGED <<svc_token, faults, withdrawn>>

\* UPDATE ... WHERE project = $1 AND revoked_at IS NULL; no row is a 404.
RevokeRow(r) ==
  /\ At(r, "revoke")
  /\ IF service_tokens[req[r].project].revoked
       THEN Respond(r) /\ UNCHANGED <<service_tokens, straddled>>
       ELSE /\ service_tokens' = [service_tokens EXCEPT ![req[r].project].revoked = TRUE]
            /\ Straddle(req[r].project)
            /\ Goto(r, "invalidate")
  /\ UNCHANGED <<svc_token, faults, owner, withdrawn>>

\* Mutant: the key of the token just generated is deleted.
InvalidateNew(r) ==
  /\ At(r, "invalidate")
  /\ svc_token' = [svc_token EXCEPT ![req[r].hash] = 0]
  /\ withdrawn' = withdrawn \cup {req[r].existing}
  /\ Respond(r)
  /\ UNCHANGED <<service_tokens, owner, straddled, faults>>

\* invalidate_by_hash, DEL svc_token:<existing>; its failure is ignored.
Invalidate(r) ==
  /\ At(r, "invalidate")
  /\ \/ /\ svc_token' = [svc_token EXCEPT ![req[r].existing] = 0]
        /\ withdrawn' = withdrawn \cup {req[r].existing}
        /\ UNCHANGED faults
     \/ /\ Fault
        /\ UNCHANGED <<svc_token, withdrawn>>
  /\ Respond(r)
  /\ UNCHANGED <<service_tokens, owner, straddled>>

-----------------------------------------------------------------------------
(* Restarts, failures, time.                                               *)

\* A replica starts and writes whatever ASPECTUS_ADMIN_SERVICE_TOKEN it is
\* configured with: a new one, or in a rolling deployment or a rollback one
\* that was replaced.  The row keeps its revoked_at, which nothing ever sets;
\* no key is deleted.  Writing the hash that is there, an empty variable and
\* a failed INSERT, after which the replica starts all the same, change nothing.
Seed(h) ==
  /\ h # service_tokens[Aspectus].hash
  /\ service_tokens' = [service_tokens EXCEPT ![Aspectus].hash = h]
  /\ owner' = [owner EXCEPT ![h] = Aspectus]
  /\ UNCHANGED <<svc_token, req, faults, withdrawn, straddled>>

\* A statement fails (401 from verify, 500 from the others) or the handler
\* is dropped with its connection or its process.
Abort(r) ==
  /\ req[r].pc # "idle"
  /\ Fault
  /\ Respond(r)
  /\ UNCHANGED <<service_tokens, svc_token, history>>

Tick ==
  /\ \E h \in Hash : Cached(h)
  /\ svc_token' = [h \in Hash |-> IF Cached(h) THEN svc_token[h] - 1 ELSE 0]
  /\ UNCHANGED <<service_tokens, req, faults, history>>

-----------------------------------------------------------------------------
Handler(r) ==
  FindByHash(r) \/ SetCache(r) \/ Upsert(r) \/ RevokeRow(r) \/ Invalidate(r)

\* A token no row has named is in no cache and is not found: presenting one
\* changes nothing, or if its row is written before the SELECT, no more than
\* presenting it then.
Arrival(r) ==
  \/ \E h \in Hash : owner[h] # NULL /\ Verify(r, h)
  \/ \E p \in Project, h \in Hash : Create(r, p, h) \/ Rotate(r, p, h)
  \/ \E p \in Project : Revoke(r, p)

Next ==
  \/ \E r \in Request : Handler(r) \/ Arrival(r) \/ Abort(r)
  \/ \E h \in AdminHash : Seed(h)
  \/ Tick

\* The runtime keeps polling every handler, and time passes.
Fairness == (\A r \in Request : WF_vars(Handler(r))) /\ WF_vars(Tick)

Spec == Init /\ [][Next]_vars /\ Fairness

-----------------------------------------------------------------------------
(* Properties.                                                             *)

\* Rows, cache entries, slots and histories are well formed whatever steps of
\* whatever handlers interleave; in particular only a hash the handler read
\* is ever invalidated.
TypeOK ==
  /\ service_tokens \in [Project -> Row]
  /\ svc_token \in [Hash -> 0..TTL]
  /\ req \in [Request -> Slot]
  /\ faults \in 0..MaxFaults
  /\ owner \in [Hash -> Project \cup {NULL}]
  /\ withdrawn \subseteq Hash
  /\ straddled \subseteq Hash

\* Whether a token can still be accepted, now or by a request in flight.
TokenStatus(h) ==
  IF owner[h] = NULL THEN "unissued"
  ELSE IF Named(h) THEN "active"
  ELSE IF Cached(h) \/ Held(h) THEN "fading"
  ELSE "dead"

Promise == INSTANCE RevocableCredential WITH
  Credential <- Hash,
  Configured <- AdminHash,
  status <- [h \in Hash |-> TokenStatus(h)]

\* A token that was replaced or revoked may fade, but once neither the table,
\* the cache nor a verifier in flight knows it, no interleaving of verify,
\* create, rotate, revoke and restarts brings a generated token back, and an
\* admin token is accepted again only after a replica configured with it has
\* put it back into its row, never from a cache entry or by a verifier that
\* is late (lib.rs:279-307, main.rs:58-61).
OnceRefusedAlwaysRefused == Promise!Safety

\* Every replaced or revoked token is at last refused, a generated one for
\* good and an admin token unless it is first put back, even if the DEL
\* fails, the handler dies before it, or requests keep presenting the token: a
\* hit never renews the 60 seconds (lib.rs:282-284, 296-298).  For an admin
\* token this is the only withdrawal there is: its replacement deletes no key
\* (main.rs:58-61).
WithdrawnTokensFade == Promise!Fades

\* How long that takes: while a token fades no new verifier gets hold of it,
\* and its key is set only by one that held it and lets go of it by that.  So
\* it is dead once those verifiers are done and 60 seconds have passed since
\* (lib.rs:282-284, 296-298).
FadingIsBounded ==
  [][\A h \in Hash : TokenStatus(h) = "fading" =>
       /\ Holders(h)' \subseteq Holders(h)
       /\ Holders(h)' = Holders(h) => svc_token'[h] <= svc_token[h]]_vars

\* A rotation or revocation that got as far as deleting the cache key leaves
\* the old token unusable, unless a verifier was between its SELECT and its
\* SETEX when the row changed (service_tokens.rs:272-281, 327-333).
WithdrawnMeansRefused ==
  \A h \in withdrawn \ straddled : ~Named(h) /\ ~Cached(h) /\ ~Held(h)
=============================================================================
