---------------------------- MODULE OAuthTokens -----------------------------
(***************************************************************************)
(* Authorization codes and refresh tokens: POST /authorize, the two grants *)
(* of POST /token, POST /login and POST /logout as they touch the tables   *)
(* authorization_codes and refresh_tokens, PUT /users/{id}/suspend, and    *)
(* the background cleanup task.                                            *)
(*                                                                         *)
(* A handler is a sequence of SQL statements with an await between any     *)
(* two.  Each statement is one atomic step here; everything the handler    *)
(* computes up to its next statement belongs to the same step.  A Request  *)
(* is a slot in which one handler invocation runs; the number of slots is  *)
(* the number of requests in flight at once, over all replicas.            *)
(*                                                                         *)
(* A request the code refuses before it has written anything (unknown      *)
(* user, wrong password, wrong client secret, missing field, unknown or    *)
(* spent code) changes no state and is a stuttering step: its condition    *)
(* appears as a guard.  The one refusal kept as a state is that of a       *)
(* client unknown to oauth2_clients, because a property speaks of it.      *)
(***************************************************************************)
EXTENDS Naturals

CONSTANTS
  User,
  OAuthClient,      \* ids create_client generates ("client_...")
  ProjectClient,    \* project names, the client_id of /login
  Code,             \* authorization codes that may ever be generated
  Token,            \* refresh tokens that may ever be generated
  Verifier,         \* PKCE code verifiers; S256 is injective, so a
                    \* challenge is named by its verifier
  Request,
  NULL,
  CodeTTL,          \* 300 seconds, in ticks
  RefreshTTL,       \* 30 days, in ticks
  InitialClients,   \* rows of oauth2_clients at the start
  MaxTime,          \* bound on the clock
  MaxFaults         \* bound on failed statements and dropped handlers

Credential == Code \cup Token
Client     == OAuthClient \cup ProjectClient

ASSUME DisjointAssumption ==
  /\ Code \cap Token = {}
  /\ NULL \notin Credential
  /\ OAuthClient \cap ProjectClient = {}
ASSUME TTLAssumption ==
  /\ CodeTTL \in Nat \ {0}
  /\ RefreshTTL \in Nat \ {0}
ASSUME BoundAssumption ==
  /\ MaxTime \in Nat
  /\ MaxFaults \in Nat
ASSUME ClientAssumption == InitialClients \subseteq OAuthClient

VARIABLES
  oauth2_clients,       \* registered client ids
  is_suspended,         \* column of users
  authorization_codes,  \* code  -> row, for the codes stored
  refresh_tokens,       \* token -> row, for the rows not yet deleted
  now,
  req,                  \* slot -> local state of the handler running in it
  faults,               \* faults so far
  \* What happened, for the properties; no action reads them except to
  \* tell what a client can know.
  delivered,            \* codes that reached a client
  minted,               \* token -> how it came to be, for every token ever stored
  replayed              \* tokens whose replay response has completed

tables  == <<oauth2_clients, is_suspended, authorization_codes, refresh_tokens>>
history == <<delivered, minted, replayed>>
vars    == <<tables, now, req, faults, history>>

CodeRow  == [user : User, client : Client, challenge : Verifier \cup {NULL},
             used : BOOLEAN, expires_at : Nat]
TokenRow == [user : User, client : Client, expires_at : Nat, revoked : BOOLEAN]
Mint     == [origin : Credential \cup {NULL}, user : User, client : Client,
             verifier : Verifier \cup {NULL}, expires_at : Nat,
             late : BOOLEAN]  \* its origin's replay had been answered

PC == {"idle",
       "check_suspended", "create_code", "store_challenge",   \* /authorize
       "read_challenge",                                      \* /token, code
       "load_user", "find_any", "revoke_all",                 \* /token, refresh
       "invalid_client",                                      \* /token
       "issue"}                                               \* issue_tokens

\* barred (history), of a request that may still get a code or a token: its
\* user was suspended when it began and has been ever since.
Slot == [pc : PC, user : User \cup {NULL}, client : Client \cup {NULL},
         cred : Credential \cup {NULL}, verifier : Verifier \cup {NULL},
         barred : BOOLEAN]

Idle == [pc |-> "idle", user |-> NULL, client |-> NULL, cred |-> NULL,
         verifier |-> NULL, barred |-> FALSE]

Init ==
  /\ oauth2_clients = InitialClients
  /\ is_suspended = [u \in User |-> FALSE]
  /\ authorization_codes = [x \in {} |-> NULL]
  /\ refresh_tokens = [t \in {} |-> NULL]
  /\ now = 0
  /\ req = [r \in Request |-> Idle]
  /\ faults = 0
  /\ delivered = {}
  /\ minted = [t \in {} |-> NULL]
  /\ replayed = {}

-----------------------------------------------------------------------------
(* Tables.                                                                 *)

\* INSERT of a row under a new key.
Insert(table, key, row) ==
  [k \in DOMAIN table \cup {key} |-> IF k = key THEN row ELSE table[k]]

\* The WHERE clause of exchange_code.
Exchangeable(x) ==
  /\ x \in DOMAIN authorization_codes
  /\ ~authorization_codes[x].used
  /\ authorization_codes[x].expires_at > now

\* Mutant: rotate without "revoked_at IS NULL".
RotatableUnchecked(t) ==
  /\ t \in DOMAIN refresh_tokens
  /\ refresh_tokens[t].expires_at > now

\* The WHERE clause of rotate.
Rotatable(t) ==
  /\ t \in DOMAIN refresh_tokens
  /\ ~refresh_tokens[t].revoked
  /\ refresh_tokens[t].expires_at > now

Revoke(S) ==
  refresh_tokens' = [t \in DOMAIN refresh_tokens |->
                       IF t \in S THEN [refresh_tokens[t] EXCEPT !.revoked = TRUE]
                                  ELSE refresh_tokens[t]]

FreshCodes  == Code \ DOMAIN authorization_codes
FreshTokens == Token \ DOMAIN minted

At(r, label) == req[r].pc = label
Goto(r, label) == req' = [req EXCEPT ![r].pc = label]
Respond(r) == req' = [req EXCEPT ![r] = Idle]

-----------------------------------------------------------------------------
(* POST /authorize.                                                        *)

\* validate_redirect_uri, the S256 check, the user lookup and the password
\* check pass.  Both statements read rows that never change once inserted.
Authorize(r, u, c, challenge) ==
  /\ At(r, "idle")
  /\ c \in oauth2_clients
  /\ req' = [req EXCEPT ![r] = [Idle EXCEPT !.pc = "check_suspended", !.user = u,
                                  !.client = c, !.verifier = challenge,
                                  !.barred = is_suspended[u]]]
  /\ UNCHANGED <<tables, now, faults, history>>

CheckSuspended(r) ==
  /\ At(r, "check_suspended")
  /\ IF is_suspended[req[r].user] THEN Respond(r) ELSE Goto(r, "create_code")
  /\ UNCHANGED <<tables, now, faults, history>>

\* Mutant: the error of create_code is dropped and the code returned.
CreateCodeUnstored(r) ==
  /\ At(r, "create_code")
  /\ \E x \in FreshCodes : delivered' = delivered \cup {x}
  /\ Respond(r)
  /\ UNCHANGED <<tables, now, faults, minted, replayed>>

\* create_code; without a challenge the response follows at once.
CreateCode(r) ==
  /\ At(r, "create_code")
  /\ \E x \in FreshCodes :
       /\ authorization_codes' = Insert(authorization_codes, x,
            [user |-> req[r].user, client |-> req[r].client, challenge |-> NULL,
             used |-> FALSE, expires_at |-> now + CodeTTL])
       /\ \/ /\ req[r].verifier = NULL
             /\ delivered' = delivered \cup {x}
             /\ Respond(r)
          \/ /\ req[r].verifier # NULL
             /\ req' = [req EXCEPT ![r].pc = "store_challenge", ![r].cred = x]
             /\ UNCHANGED delivered
  /\ UNCHANGED <<oauth2_clients, is_suspended, refresh_tokens, now, faults, minted, replayed>>

\* The challenge is stored by a second statement whose error is dropped
\* ("let _ ="): the code is returned either way.
StoreChallenge(r) ==
  /\ At(r, "store_challenge")
  /\ \/ /\ authorization_codes' =
             [authorization_codes EXCEPT ![req[r].cred].challenge = req[r].verifier]
        /\ UNCHANGED faults
     \/ /\ faults < MaxFaults
        /\ faults' = faults + 1
        /\ UNCHANGED authorization_codes
  /\ delivered' = delivered \cup {req[r].cred}
  /\ Respond(r)
  /\ UNCHANGED <<oauth2_clients, is_suspended, refresh_tokens, now, minted, replayed>>

-----------------------------------------------------------------------------
(* POST /token.                                                            *)

\* grant_type=refresh_token, validate_client_secret finds no row for the
\* client: 401.
InvalidClient(r, t, c) ==
  /\ At(r, "idle")
  /\ c \notin oauth2_clients
  /\ req' = [req EXCEPT ![r] = [Idle EXCEPT !.pc = "invalid_client", !.client = c,
                                                  !.cred = t]]
  /\ UNCHANGED <<tables, now, faults, history>>

RefuseClient(r) ==
  /\ At(r, "invalid_client")
  /\ Respond(r)
  /\ UNCHANGED <<tables, now, faults, history>>

\* Mutant: the code's client is not compared with the request's.
ExchangeCodeAnyClient(r, x, c, uriMatches, verifier) ==
  /\ At(r, "idle")
  /\ c \in oauth2_clients
  /\ x \in delivered
  /\ Exchangeable(x)
  /\ authorization_codes' = [authorization_codes EXCEPT ![x].used = TRUE]
  /\ IF uriMatches
       THEN req' = [req EXCEPT ![r] =
                      [Idle EXCEPT !.pc = "read_challenge", !.cred = x,
                         !.user = authorization_codes[x].user, !.client = c,
                         !.verifier = verifier,
                         !.barred = is_suspended[authorization_codes[x].user]]]
       ELSE UNCHANGED req
  /\ UNCHANGED <<oauth2_clients, is_suspended, refresh_tokens, now, faults, history>>

\* Mutant: the code is read, and not marked used by the same statement.
ExchangeCodeUnclaimed(r, x, c, uriMatches, verifier) ==
  /\ At(r, "idle")
  /\ c \in oauth2_clients
  /\ x \in delivered
  /\ Exchangeable(x)
  /\ c = authorization_codes[x].client /\ uriMatches
  /\ req' = [req EXCEPT ![r] = [Idle EXCEPT !.pc = "read_challenge", !.cred = x,
                                   !.user = authorization_codes[x].user, !.client = c,
                                   !.verifier = verifier,
                                   !.barred = is_suspended[authorization_codes[x].user]]]
  /\ UNCHANGED <<tables, now, faults, history>>

\* grant_type=authorization_code: the UPDATE spends the code, and only then
\* are client_id and redirect_uri compared with the row it returned.  Whether
\* its user is suspended is not asked, here or later.
ExchangeCode(r, x, c, uriMatches, verifier) ==
  /\ At(r, "idle")
  /\ c \in oauth2_clients
  /\ x \in delivered
  /\ Exchangeable(x)
  /\ authorization_codes' = [authorization_codes EXCEPT ![x].used = TRUE]
  /\ IF c = authorization_codes[x].client /\ uriMatches
       THEN req' = [req EXCEPT ![r] =
                      [Idle EXCEPT !.pc = "read_challenge", !.cred = x,
                         !.user = authorization_codes[x].user, !.client = c,
                         !.verifier = verifier,
                         !.barred = is_suspended[authorization_codes[x].user]]]
       ELSE UNCHANGED req
  /\ UNCHANGED <<oauth2_clients, is_suspended, refresh_tokens, now, faults, history>>

\* Mutant: a request without a verifier passes, challenge or not.
ReadChallengeLax(r) ==
  /\ At(r, "read_challenge")
  /\ IF req[r].verifier \in {NULL, authorization_codes[req[r].cred].challenge}
       THEN Goto(r, "issue") ELSE Respond(r)
  /\ UNCHANGED <<tables, now, faults, history>>

\* The stored challenge and the presented verifier must match; neither may
\* be there without the other.  Reading tenant_id of the user follows.
ReadChallenge(r) ==
  /\ At(r, "read_challenge")
  /\ IF authorization_codes[req[r].cred].challenge = req[r].verifier
       THEN Goto(r, "issue") ELSE Respond(r)
  /\ UNCHANGED <<tables, now, faults, history>>

\* Mutant: the token's client is not compared with the request's.
RotateRefreshTokenAnyClient(r, t, c) ==
  /\ At(r, "idle")
  /\ c \in oauth2_clients
  /\ Rotatable(t)
  /\ Revoke({t})
  /\ LET row == refresh_tokens[t] IN
       req' = [req EXCEPT ![r] =
                 [Idle EXCEPT !.pc = "load_user", !.cred = t, !.user = row.user,
                    !.client = c, !.barred = is_suspended[row.user]]]
  /\ UNCHANGED <<oauth2_clients, is_suspended, authorization_codes, now, faults, history>>

\* grant_type=refresh_token, the token is live: the UPDATE revokes it, and
\* only then is client_id compared.
RotateRefreshToken(r, t, c) ==
  /\ At(r, "idle")
  /\ c \in oauth2_clients
  /\ Rotatable(t)
  /\ Revoke({t})
  /\ LET row == refresh_tokens[t] IN
       IF c = row.client
         THEN req' = [req EXCEPT ![r] =
                        [Idle EXCEPT !.pc = "load_user", !.cred = t, !.user = row.user,
                           !.client = c, !.barred = is_suspended[row.user]]]
         ELSE UNCHANGED req
  /\ UNCHANGED <<oauth2_clients, is_suspended, authorization_codes, now, faults, history>>

\* Mutant: refresh ignores is_suspended.
LoadUserUnchecked(r) ==
  /\ At(r, "load_user")
  /\ Goto(r, "issue")
  /\ UNCHANGED <<tables, now, faults, history>>

LoadUser(r) ==
  /\ At(r, "load_user")
  /\ IF is_suspended[req[r].user] THEN Respond(r) ELSE Goto(r, "issue")
  /\ UNCHANGED <<tables, now, faults, history>>

\* The UPDATE matched no row: unknown, revoked or expired.
RotateMiss(r, t, c) ==
  /\ At(r, "idle")
  /\ c \in oauth2_clients
  /\ t \in DOMAIN minted
  /\ ~Rotatable(t)
  /\ req' = [req EXCEPT ![r] = [Idle EXCEPT !.pc = "find_any", !.cred = t, !.client = c]]
  /\ UNCHANGED <<tables, now, faults, history>>

FindByHashAny(r) ==
  LET t == req[r].cred IN
  /\ At(r, "find_any")
  /\ IF t \in DOMAIN refresh_tokens /\ refresh_tokens[t].revoked
       THEN req' = [req EXCEPT ![r].pc = "revoke_all", ![r].user = refresh_tokens[t].user]
       ELSE Respond(r)
  /\ UNCHANGED <<tables, now, faults, history>>

\* Mutant: only the replayed token is revoked.
RevokePresentedOnly(r) ==
  /\ At(r, "revoke_all")
  /\ Revoke({req[r].cred})
  /\ replayed' = replayed \cup {req[r].cred}
  /\ Respond(r)
  /\ UNCHANGED <<oauth2_clients, is_suspended, authorization_codes, now, faults,
                 delivered, minted>>

RevokeAllForUser(r) ==
  /\ At(r, "revoke_all")
  /\ Revoke({t \in DOMAIN refresh_tokens : refresh_tokens[t].user = req[r].user})
  /\ replayed' = replayed \cup {req[r].cred}
  /\ Respond(r)
  /\ UNCHANGED <<oauth2_clients, is_suspended, authorization_codes, now, faults,
                 delivered, minted>>

\* issue_tokens, as far as refresh tokens go: a new row, then the response.
\* A response that is lost is a token nobody presents.
IssueTokens(r) ==
  /\ At(r, "issue")
  /\ \E t \in FreshTokens :
       /\ refresh_tokens' = Insert(refresh_tokens, t,
            [user |-> req[r].user, client |-> req[r].client,
             expires_at |-> now + RefreshTTL, revoked |-> FALSE])
       /\ minted' = Insert(minted, t,
            [origin |-> req[r].cred, user |-> req[r].user, client |-> req[r].client,
             verifier |-> req[r].verifier, expires_at |-> now + RefreshTTL,
             late |-> req[r].cred \in replayed])
  /\ Respond(r)
  /\ UNCHANGED <<oauth2_clients, is_suspended, authorization_codes, now, faults,
                 delivered, replayed>>

-----------------------------------------------------------------------------
(* POST /login with the right password on an account that is not locked    *)
(* (Accounts is about those two), and POST /logout, a single statement.    *)

Login(r, u, p) ==
  /\ At(r, "idle")
  /\ ~is_suspended[u]
  /\ req' = [req EXCEPT ![r] = [Idle EXCEPT !.pc = "issue", !.user = u, !.client = p]]
  /\ UNCHANGED <<tables, now, faults, history>>

Logout(t) ==
  /\ Rotatable(t)
  /\ Revoke({t})
  /\ UNCHANGED <<oauth2_clients, is_suspended, authorization_codes, now, req, faults, history>>

-----------------------------------------------------------------------------
(* Administration, the cleanup task, the clock, failures.                  *)

CreateClient(c) ==
  /\ c \notin oauth2_clients
  /\ oauth2_clients' = oauth2_clients \cup {c}
  /\ UNCHANGED <<is_suspended, authorization_codes, refresh_tokens, now, req, faults, history>>

SetSuspended(u, b) ==
  /\ is_suspended[u] # b
  /\ is_suspended' = [is_suspended EXCEPT ![u] = b]
  /\ req' = [r \in Request |-> IF req[r].user = u /\ ~b
                                 THEN [req[r] EXCEPT !.barred = FALSE] ELSE req[r]]
  /\ UNCHANGED <<oauth2_clients, authorization_codes, refresh_tokens, now, faults, history>>

\* Mutant: revoked tokens are deleted too, as used reset tokens are.
RunCleanupRevoked ==
  LET kept == {t \in DOMAIN refresh_tokens :
                 ~(refresh_tokens[t].revoked \/ refresh_tokens[t].expires_at < now)} IN
  /\ kept # DOMAIN refresh_tokens
  /\ refresh_tokens' = [t \in kept |-> refresh_tokens[t]]
  /\ UNCHANGED <<oauth2_clients, is_suspended, authorization_codes, now, req, faults, history>>

\* DELETE FROM refresh_tokens WHERE expires_at < NOW()
RunCleanup ==
  LET kept == {t \in DOMAIN refresh_tokens : ~(refresh_tokens[t].expires_at < now)} IN
  /\ kept # DOMAIN refresh_tokens
  /\ refresh_tokens' = [t \in kept |-> refresh_tokens[t]]
  /\ UNCHANGED <<oauth2_clients, is_suspended, authorization_codes, now, req, faults, history>>

Tick ==
  /\ now < MaxTime
  /\ now' = now + 1
  /\ UNCHANGED <<tables, req, faults, history>>

\* A statement fails (the handler answers 5xx, or 401 in the replay branch)
\* or the handler is dropped with its connection or process: no later step
\* of the request happens.
Abort(r) ==
  /\ req[r].pc \notin {"idle", "invalid_client"}
  /\ faults < MaxFaults
  /\ faults' = faults + 1
  /\ Respond(r)
  /\ UNCHANGED <<tables, now, history>>

\* Bound of the model: a finite supply of codes and tokens has run out.
OutOfNames(r) ==
  /\ \/ At(r, "create_code") /\ FreshCodes = {}
     \/ At(r, "issue") /\ FreshTokens = {}
  /\ Respond(r)
  /\ UNCHANGED <<tables, now, faults, history>>

-----------------------------------------------------------------------------
\* What the server does on its own for a request it has accepted.
Handler(r) ==
  \/ CheckSuspended(r) \/ CreateCode(r) \/ StoreChallenge(r)
  \/ RefuseClient(r) \/ ReadChallenge(r)
  \/ LoadUser(r) \/ FindByHashAny(r) \/ RevokeAllForUser(r)
  \/ IssueTokens(r) \/ OutOfNames(r)

Arrival(r) ==
  \/ \E u \in User, c \in OAuthClient, v \in Verifier \cup {NULL} : Authorize(r, u, c, v)
  \/ \E x \in delivered, c \in Client, m \in BOOLEAN, v \in Verifier \cup {NULL} :
       ExchangeCode(r, x, c, m, v)
  \/ \E t \in DOMAIN minted, c \in Client :
       InvalidClient(r, t, c) \/ RotateRefreshToken(r, t, c) \/ RotateMiss(r, t, c)
  \/ \E u \in User, p \in ProjectClient : Login(r, u, p)

Next ==
  \/ \E r \in Request : Handler(r) \/ Arrival(r) \/ Abort(r)
  \/ \E t \in Token : Logout(t)
  \/ \E c \in OAuthClient : CreateClient(c)
  \/ \E u \in User, b \in BOOLEAN : SetSuspended(u, b)
  \/ RunCleanup
  \/ Tick

\* The runtime keeps polling every handler; nothing obliges clients to call,
\* administrators to act, the cleanup to run or the clock to reach an expiry.
Fairness == \A r \in Request : WF_vars(Handler(r))

Spec == Init /\ [][Next]_vars /\ Fairness

-----------------------------------------------------------------------------
(* Properties.                                                             *)

\* Every variable stays in its type: rows, slots and histories are well
\* formed whatever steps of whatever handlers interleave.
TypeOK ==
  /\ oauth2_clients \subseteq OAuthClient
  /\ is_suspended \in [User -> BOOLEAN]
  /\ DOMAIN authorization_codes \subseteq Code
  /\ \A x \in DOMAIN authorization_codes : authorization_codes[x] \in CodeRow
  /\ DOMAIN refresh_tokens \subseteq Token
  /\ \A t \in DOMAIN refresh_tokens : refresh_tokens[t] \in TokenRow
  /\ now \in Nat
  /\ req \in [Request -> Slot]
  /\ faults \in Nat
  /\ delivered \subseteq DOMAIN authorization_codes
  /\ DOMAIN minted \subseteq Token
  /\ \A t \in DOMAIN minted : minted[t] \in Mint
  /\ replayed \subseteq DOMAIN minted

\* However many requests present the same code or refresh token at once, it
\* gives rise to at most one refresh token (exchange_code and rotate each
\* claim the row in the UPDATE that tests it, oauth_store.rs:64-77, 103-116).
SingleUse ==
  \A s, t \in DOMAIN minted :
    minted[s].origin = minted[t].origin /\ minted[s].origin # NULL => s = t

\* The user and the client of a session never change along its chain of
\* rotations, and are those the user authorized: a token minted from a code
\* or from another token carries that one's user and client, although
\* handlers copy them through their local state and the predecessor's row
\* may be revoked or deleted meanwhile.
ChainKeepsOwner ==
  \A t \in DOMAIN minted :
    LET from == minted[t].origin
        owner == [user |-> minted[t].user, client |-> minted[t].client] IN
    /\ from \in Code =>
         owner = [user |-> authorization_codes[from].user,
                  client |-> authorization_codes[from].client]
    /\ from \in Token =>
         owner = [user |-> minted[from].user, client |-> minted[from].client]

\* Every session that is refreshed began with an authorization code: the
\* refresh token /login hands out belongs to a project and not to a registered
\* client, and no chain of requests, whichever client sends them, ever turns
\* it into another token (oauth.rs:322-392, auth.rs:134-141, 310).
RefreshedSessionsBeganWithACode ==
  \A t \in DOMAIN minted :
    minted[t].origin \in Token => minted[minted[t].origin].origin # NULL

\* A code is redeemed with exactly the verifier of its stored challenge, or
\* with none if none is stored, although challenge and code are written by
\* two statements and read by two others (oauth.rs:132-155, 226-297).
PkceStored ==
  \A t \in DOMAIN minted : minted[t].origin \in Code =>
    minted[t].verifier = authorization_codes[minted[t].origin].challenge

\* A request that begins while its user is suspended, and not reinstated
\* since, gets no code, and no token unless it redeems a code: /authorize,
\* refresh and /login look at is_suspended (oauth.rs:101-119, 368-391;
\* auth.rs:271-286), the authorization_code grant nowhere does
\* (oauth.rs:206-318).  So what a suspended user is still given is what a code
\* authorized by a request older than the suspension is worth, and no
\* session of theirs is prolonged.
SuspendedOnlyRedeemsCodes ==
  \A r \in Request : req[r].barred =>
    /\ req[r].pc \notin {"create_code", "store_challenge"}
    /\ req[r].pc = "issue" => req[r].cred \in Code

\* While a refresh token has not expired its row is there, so presenting a
\* rotated one again is always recognised as a replay: neither rotation nor
\* the cleanup task (cleanup.rs:49-52) may lose the evidence.
ReplayEvidenceKept ==
  \A t \in DOMAIN minted : t \notin DOMAIN refresh_tokens => minted[t].expires_at < now

LiveToken(t) == t \in DOMAIN refresh_tokens /\ ~refresh_tokens[t].revoked

\* A replay response ends the session of the token presented again for good:
\* whatever had been minted from it by then is dead and stays so, whoever rotates
\* or logs in meanwhile (oauth.rs:359-426).
ReplayEndsSession ==
  \A t \in replayed : \A s \in DOMAIN minted :
    minted[s].origin = t /\ ~minted[s].late => ~LiveToken(s)

\* "Replay detected: revoke all tokens for this user" (oauth.rs:402): once
\* the replay of a token has been answered, the token minted from it is dead.
ReplayLeavesNoSuccessor ==
  \A t \in replayed : \A s \in DOMAIN minted :
    minted[s].origin = t => ~LiveToken(s)

-----------------------------------------------------------------------------
(* OAuthTokens implements CredentialLedger.                                *)

Issued(x) == x \in DOMAIN authorization_codes \cup DOMAIN minted
Claimed(x) == \E r \in Request :
  req[r].cred = x /\ req[r].pc \in {"read_challenge", "load_user", "issue"}

LedgerStatus == [x \in Credential |->
  CASE ~Issued(x) -> "fresh"
    [] Claimed(x) -> "claimed"
    [] Exchangeable(x) \/ Rotatable(x) -> "live"
    [] OTHER -> "spent"]
LedgerOrigin == [x \in Credential |->
  IF x \in DOMAIN minted THEN minted[x].origin ELSE NULL]

Ledger == INSTANCE CredentialLedger WITH status <- LedgerStatus, origin <- LedgerOrigin

\* Codes and refresh tokens are issued once, spent once and never revived,
\* and each mints at most one successor, whatever the handlers, the cleanup
\* and the clock do (oauth_store.rs:41-141).
LedgerSpec == Ledger!Spec
=============================================================================
