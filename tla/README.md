# Aspectus in TLA+

Aspectus is an identity service: an axum server over PostgreSQL and Redis that
authenticates users and services, issues authorization codes, refresh tokens,
JWTs, API keys and service tokens, and answers introspection requests. Several
replicas of it share one database and one cache.

Every handler is a sequence of SQL statements and Redis commands with an await
between any two, and only single statements (and a few transactions) are atomic.
So the questions worth a model are about what happens between two statements:
another request, on this replica or another, a failed command, a dropped
connection, a restart, an expiry. The modules below take each statement as one
atomic step and let everything else interleave.

## Inventory

| Component | State | Operations | What is hard | What must hold |
|---|---|---|---|---|
| OAuth codes and refresh tokens (`routes/oauth.rs`, `db/oauth_store.rs`, parts of `routes/auth.rs`, `routes/users.rs`, `cleanup.rs`) | `authorization_codes`, `refresh_tokens`, `oauth2_clients`, `users.is_suspended` | `/authorize`, the two grants of `/token`, `/login`, `/logout`, suspend, create client, cleanup | replay detection against rotation in flight; code and challenge written by two statements; cleanup against evidence; suspension against requests in flight | each credential is spent once; sessions keep their owner; replays are recognised and close sessions; PKCE is enforced |
| Service tokens (`routes/service_tokens.rs`, `ServiceTokenVerifier` and `RedisCache` of `aspectus-auth`, the seed in `main.rs`) | `service_tokens`, keys `svc_token:<hash>` | create, rotate, revoke, verify, seed at start | read-through cache filled across an await; failed DEL; concurrent rotations; a starting replica with another admin token, or an earlier one | a withdrawn token fades and is at last refused; a generated one never comes back, an admin token only when a replica configured with it starts |
| Accounts (`routes/auth.rs`, `routes/users.rs`, `db/user_store.rs`) | `password_hash`, `failed_login_attempts`, `locked_until`, `password_reset_tokens` | login, unlock, forgot, reset and change password, cleanup | decisions taken on a snapshot of the row | the lock engages and ends; a reset token works once |
| API keys and opaque tokens (`routes/api_keys.rs`, `routes/token.rs`, `ApiKeyVerifier`) | `api_keys`, keys `introspect:<hash>` | create, revoke (two paths), exchange, verify | entry lifetimes derived from the expiry, before an await; cache fills against revocations; one revocation path leaves the cache alone | a revoked or expired key fades, is at last refused, and never comes back; an expired one is given nothing |
| JWTs and introspection (`jwt.rs`, `routes/introspect.rs`) | the key pair of each replica, keys `jwt_revoked:<jti>` | sign, verify, revoke | the leeway of verify against the lifetime of the deny-list entry; a decoder that refuses what verify accepts | a revoked token stays refused until its exp |
| Roles and the scope cache (`routes/roles.rs`, `scope_expander.rs`) | `roles`, `scopes`, `roles_scopes`, `users_roles`, keys `scope_expand:<user>` | create, update, delete, assign, remove, expand | an update of many statements; invalidation against cache fills; deletion against assignment | cached scopes are what the roles grant, and within a minute in any case; an update alone leaves what it asked for |
| Rate limiter (`middleware/rate_limit.rs`) | counters in Redis | check | window boundaries, counters that expire, Redis failures, five limiters and one key per caller | a bound on the requests let in per window |
| Registration, tenants, service accounts | their tables | single inserts, and `register` and `POST /users` of several | partial failure of `register`; a login between its statements | a new account has the scopes of the default role |
| Audit log (`middleware/audit.rs`) | `audit_logs` | append, list | detached writes | none that another component relies on |
| Client library (`aspectus-client`) | one JWKS key and the time of its last refresh | verify, refresh | concurrent fetches during a key rotation, answers stored in any order | no key is used long after its retirement |
| Scopes, password policy, types, wiring, console, deployment | none of their own | pure functions, I/O | | |

The components meet in a few places. `/login` is in two modules: `Accounts`
models it up to the decision, `OAuthTokens` the issue of tokens that follows;
`register` likewise, with its roles in `Roles`. `/logout` and `/token/revoke`
are in `OAuthTokens` and `ApiKeys` for what they do to tables, in `AccessTokens`
for what they do to the deny-list. `/introspect` verifies in `AccessTokens` or
`ApiKeys` and then takes the scopes from the cache of `Roles`, whose `Expand` it
is. The client library and the server share keys, so `AccessTokens` composes
both with one clock. `RateLimit` stands in front of every route but adds no
state to the others.
`cleanup.rs` is one task with two DELETEs, one in each of those modules. Every
management endpoint (create client, suspend, unlock, roles, ...) is behind the
verifier of `ServiceTokens`; the other modules assume the caller is allowed.

## Modules

| Module | What it is |
|---|---|
| `OAuthTokens` | codes, refresh tokens, clients, suspension, cleanup |
| `CredentialLedger` | what `OAuthTokens` promises: a credential is issued once, spent once, and mints at most one successor |
| `OAuthTokensProofs` | theorems about `OAuthTokens`: types, single use, the refinement of `CredentialLedger` |
| `OAuthSessionsProofs` | theorems about `OAuthTokens`: what a session keeps, what a replay ends, what a suspension stops |
| `ServiceTokens` | service tokens: table, cache, verifier, management, seed |
| `RevocableCredential` | what a cached verifier promises: active, then fading, then dead, and no way back except for those that operators configure, which may be put back |
| `ServiceTokensProofs` | theorems about `ServiceTokens` |
| `ApiKeys` | API keys and opaque tokens: table, cache, verifier, creation, exchange, the two revocations; it implements `RevocableCredential` too |
| `ApiKeysProofs` | theorems about `ApiKeys` |
| `Accounts` | lockout, password reset and change |
| `AccountsProofs` | theorems about `Accounts` |
| `Roles` | roles, scopes, holders, the cache of scopes, registration as far as roles go |
| `RolesProofs` | theorems about `Roles` |
| `Jwks` | the keys of the replicas, their rotation, and the key cache of the client library |
| `AccessTokens` | JWTs: signing, introspection, revocation; it extends `Jwks` and shares its keys and clock |
| `AccessTokensProofs` | theorems about `Jwks` and `AccessTokens` |
| `RateLimit` | the rate limiters and their counters |
| `RateLimitProofs` | theorems about `RateLimit` |
| `MCOAuthTokens`, `MCServiceTokens`, `MCApiKeys`, `MCAccounts`, `MCRoles`, `MCAccessTokens`, `MCRateLimit` | instances for TLC |

### How a module corresponds to the code

A `Request` is a slot in which one invocation of a handler runs; the number of
slots is the number of requests in flight at once, over all replicas. `req[r]`
holds the label of the statement the handler is about to execute (`pc`) and the
local variables it still needs. One action is one statement together with all
the computation up to the next one. An action that starts from `"idle"` is the
arrival of a request and its first statement that matters. A request that is
refused before it has written anything changes nothing, so it is a stuttering
step and its condition appears as a guard.

Table and column names are those of the schema, action names those of the
functions. Hashes stand for the tokens they are hashes of; 32 random bytes are a
value that no row, past or present, contains. Time is a counter in
`OAuthTokens` (SQL's `NOW()`) and in `RateLimit`; in the other modules remaining lifetimes count down, which
leaves fewer states. `Abort` covers a failed statement (the handler answers with
an error and does nothing more) and a handler dropped with its connection or
process; where the code ignores a failed command and goes on (the challenge's
UPDATE, `clear_failed_logins`, SETEX, DEL), the action has a disjunct in which
the command does nothing.

Variables under the comment "What happened, for the properties" record history.
No guard reads them, except `delivered`, which is what a client can know,
`minted` and `generated`, from which fresh names are drawn, and `owner` likewise.

## What the runs check

| Run | Expected | What it shows |
|---|---|---|
| `oauth_codes` | holds | `ChainKeepsOwner`, `PkceStored`, `SuspendedOnlyRedeemsCodes` over two requests, a code, two tokens, two clients, one fault |
| `oauth_rotation` | holds | `SingleUse`, `ReplayEvidenceKept`, `ReplayEndsSession`, `RefreshedSessionsBeganWithACode`, and the refinement `LedgerSpec` with three tokens and a clock that outruns them |
| `oauth_replay_race` | violated | `ReplayLeavesNoSuccessor` |
| `service_tokens` | holds | `OnceRefusedAlwaysRefused`, `WithdrawnTokensFade`, `FadingIsBounded`, `WithdrawnMeansRefused` over two generated and two admin tokens, the latter seeded in any order and any number of times |
| `api_keys` | holds | `OnceRefusedAlwaysRefused`, `WithdrawnKeysFade`, `FadingIsBounded`, `WithdrawnMeansRefused`, `ExpiredGetsNothing` |
| `api_keys_revoke` | violated | `RevokedIsInactive` |
| `accounts` | holds | `LockoutEngages`, `ResetOnce`, `LockExpires`, `LockIsBounded` |
| `roles` | holds | `CacheFollowsRoles`, `UpdateReplacesScopes`, `StaleScopesFade`, `StaleIsBounded` |
| `access_tokens` | holds | `KeyIsRecent`, `RevokedRefusedUntilExp` |
| `logout_not_denied` | violated | `LoggedOutIsDenied` |
| `rate_limit` | holds | `QuotaKept`, `RefusedMeansBusy` |
| `rate_limit_shared` | violated | `OwnQuota` |

`TypeOK` is checked with each module as well. What the new kinds of properties
say, in a sentence each:

- `ReplayEndsSession`: whatever had been minted from a token by the time its
  replay was answered is dead and stays dead.
- `RefreshedSessionsBeganWithACode`: a refresh token that `/login` issued is
  never turned into another one, whichever client presents it and whatever is
  registered meanwhile.
- `SuspendedOnlyRedeemsCodes`: a request that begins while its user is suspended
  is given no code, and no token unless it redeems a code, the one grant that
  does not look at `is_suspended`.
- `WithdrawnTokensFade` and `WithdrawnKeysFade`: no token or key fades for ever.
  With `OnceRefusedAlwaysRefused`, what has faded is dead, and dead for good
  unless it is an admin token, which is active again once a replica writes it
  back into its row.
- `FadingIsBounded`, of a token and of a key: while a withdrawn one fades no
  verifier joins those that have read its row, and its cache entry is younger
  than before only after a step in which one of them lets go of it. So what
  `WithdrawnTokensFade` and `WithdrawnKeysFade` promise for some time comes at
  most one lifetime after the last of them.
- `LockIsBounded`: the same of a lock and of the logins that had passed the
  check of `locked_until`.
- `CacheFollowsRoles`: a cached scope list is what the user's roles grant, or a
  handler is about to delete it, or the entry is excused. The excuses are named
  where they arise: a command failed or a handler died; the fill straddled the
  change; `create` was still writing the scopes of an assigned role; `POST
  /users` gave the default role. The last two are paths of the code that delete
  no key, and the run found them.
- `UpdateReplacesScopes`: an update leaves its own list, unless another handler
  wrote the scopes of the role meanwhile; then there may be a mixture.
- `StaleScopesFade`: any stale list, excused or not, ends. `StaleIsBounded`: as
  long as the grants of the user stay the same and no command fails, it only
  ages, but for a fill that had read the old roles, of which no new one comes.
- `KeyIsRecent`: a client verifies with a key that a replica serves or did until
  an hour ago, unless it stored the key after the key's retirement.
- `RevokedRefusedUntilExp`: from `exp` to the end of the leeway the deny-list no
  longer has the token and verify still accepts it; before `exp` it is refused,
  if the list can be read.
- `QuotaKept`: holds over the boundary of a window because a request is charged
  to the window it read, and the counter lives a whole window from its first
  hit. A script that runs after its window may find its counter gone; such a
  request is not counted in `passed`. `RefusedMeansBusy` is what is left of
  `OwnQuota` when the limiters share their counters.

The violated properties state what a comment or a document of the repository
says and the code does not keep:

- **Replay against rotation.** `rotate` revokes the old refresh token, and
  `issue_tokens` inserts the successor later. A second presentation of the old
  token in between is recognised as a replay and `revoke_all_for_user` runs, but
  the successor is not there yet, and survives ("revoke all tokens for this
  user", `oauth.rs:402`).
- **The cached key.** `POST /token/revoke` sets `revoked_at` and leaves
  `introspect:<hash>` alone, so a key that was introspected before stays active
  for up to 300 seconds ("after the revocation /introspect answers active:
  false", `docs/openapi.yaml:600`). `WithdrawnKeysFade` says that this ends.
- **The access token that is not revoked.** `JwtVerifier::revoke` decodes the
  token with the default audience check and names no audience; every token has
  an `aud`, and jsonwebtoken 9.3.1 refuses it then. `verify` turns the check off
  for that reason, `revoke` does not, and its callers drop its result: the
  deny-list is never written ("it is also added to the JWT revocation list",
  `auth.rs:582-583`). `aud_tolerated` takes the crate both ways, so that the
  other properties hold whether or not this is repaired.
- **The shared counter.** The Redis key names the caller and the window, and
  every limiter's window is a minute, so `/login` uses up the allowance of
  `/reset-password` ("Check if a request under `key` is within the rate limit",
  `rate_limit.rs:43`, with a limiter per group of routes in `main.rs:133-148`).

The models show more behaviours of this kind that no run is spent on:

- `/authorize` stores `code_challenge` with a second UPDATE and drops its error
  (`oauth.rs:149`); the code is then redeemable without a verifier. `PkceStored`,
  which does hold, says that the stored challenge is enforced.
- The refresh token of `/login` is issued to the project name as client, and
  `/token` looks that name up in `oauth2_clients` (`oauth.rs:340`), where
  `create_client` never puts it. It can be logged out but not refreshed, which
  is what `RefreshedSessionsBeganWithACode` says of every session.
- The `authorization_code` grant reads `users` and checks no suspension
  (`oauth.rs:299-318`), unlike `/authorize`, `/login` and the refresh. Whoever is
  suspended between `/authorize` and `/token` still gets an access and a refresh
  token; the refresh token is worth nothing while the suspension lasts.
  `SuspendedOnlyRedeemsCodes` says that this is the only way. No document of the
  repository says that the grant checks, so it is not stated as a violation.
- A replica writes whatever `ASPECTUS_ADMIN_SERVICE_TOKEN` it is started with
  (`main.rs:58-61`). In a rolling deployment or a rollback that may be a token
  that was replaced, and even one that was refused already: it is accepted again,
  and the token that had replaced it is withdrawn. `OnceRefusedAlwaysRefused`
  says that this is the only way back, and for admin tokens only.
- A verifier between its SELECT and its SETEX undoes the DEL of a rotation or
  revocation of a service token (`aspectus-auth` `lib.rs:296`).
  `WithdrawnMeansRefused` says this is the only way, `WithdrawnTokensFade` that
  it ends.
- `change_password` verifies a snapshot and overwrites whatever is there
  (`users.rs:246`).
- A role that users hold may be turned into one for service accounts
  (`roles.rs:419`), and the client library verifies JWTs without the deny-list
  (`aspectus-client` `lib.rs:370`).

### Bounds

`MaxTime`, `MaxFaults` and the finite supplies `Code`, `Token`, `Hash`, `Key`
and `ResetToken` are the bounds; the first two are in guards, and `OutOfNames`
answers a request for which no name is left. In the other modules a
request for a new name without supply does not arrive. `failures` and
`failed_login_attempts` saturate at `Threshold`, above which no statement tells
two values apart.

Two requests are enough for the races of interest, which are between two
handlers; `Accounts` has three, so that two failing logins and a successful one
interleave. Three refresh tokens give a chain of two rotations, two keys a key
and the opaque token it is exchanged for. `ServiceTokens.cfg` has two generated
tokens, for a creation and a rotation or for two creations at once, of which the
second replaces a token whose key nobody deletes, as the second of two
concurrent rotations does; and two admin tokens, so that one replaces the other
and is itself put back, while it fades or after it was refused, as often as one
likes: a start of a replica is no fault and does not count towards `MaxFaults`. In `ApiKeys.cfg` the cap is two ticks and the
share a half, so that a key of three ticks gets an entry of one and a key of one
tick none, and the mutant without the cap exceeds it; the code has 300 seconds
and a tenth, and the theorems hold for any. A tick is no shorter than a second,
to which the verifier compares the `exp` of an entry. Two ticks of lifetime give
a state before, at and after the expiry. One fault may strike at any statement
of any handler; the violated runs need none. Codes,
tokens and requests are interchangeable, so `OAuthCodes.cfg`,
`OAuthRotation.cfg`, `AccessTokens.cfg` and `RateLimit.cfg` use symmetry; no run that checks liveness does. Deadlock is
checked everywhere.

`Roles.cfg` has one user, because nothing in the code relates the roles or the
cache entries of two users except the set `invalidate_users_with_role` walks
through (the theorems cover any number); the user is not registered at the
start, so both ways to create an account race with all else. The second role
can be created, assigned, updated, deleted, and the list with a scope not in
`scopes` makes two handlers insert it at once. `AccessTokens.cfg` has an hour of
one tick, tokens that live two, and a leeway of one, so that there is a state
before `exp`, one in the leeway and one after; two keys are one rotation. Two
tokens would be independent, and one is used by any number of requests.
`RateLimit.cfg` has windows of two ticks, of which two fit into `MaxTime`, two
limiters with one caller between them and allowances of two and one; `Many`
stands for all counts from three on. `RateLimitShared.cfg` adds the routes keyed
by bearer and an address behind a trusted proxy. Redis is taken to lose no key
before its time, and the replicas' clocks to agree.

### Fairness

Weak fairness of each request's `Handler`: the runtime polls every handler until
it has answered, and a statement comes back or fails. `AccessTokens` and
`RateLimit` assume none. In `ServiceTokens`, `ApiKeys`, `Accounts` and `Roles`,
weak fairness of `Tick` too: time passes, Redis expires its keys and
`NOW()` moves on. Nothing obliges clients to call, administrators to act or the
cleanup to run. `LockExpires` therefore holds although guesses keep arriving,
`WithdrawnTokensFade` and `WithdrawnKeysFade` although the token or key keeps
being presented, and `StaleScopesFade` although the user keeps being introspected. A fill that
a slow verifier writes starts the lifetime anew, but only verifiers that read
the row before it changed can write one, and the theorems about
`FadingIsBounded`, `StaleIsBounded` and, for a lock, `LockIsBounded` show that
there are no others: the fairness of the handlers and of the clock is all that
is left to assume.

## What is proved

TLAPS proves, for all values of the constants that satisfy the named
assumptions (disjoint name sets, positive lifetimes and thresholds, the admin
project being a project and the admin tokens' hashes being hashes):

- **`OAuthTokensProofs`**: `TypeCorrect`, `SingleUseHolds` for `SingleUse`, and
  `LedgerHolds`, the refinement of `CredentialLedger`. `SingleUse` is about
  history (`minted`), so the invariant has to relate it to tables and handlers:
  a credential some handler holds is spent in its table, at most one handler
  holds it, and it has minted nothing yet; a credential that has minted is
  spent. Then the UPDATE, which fires only on a live row, can take neither a
  held credential nor one that has minted. For the refinement, every step is
  shown to be quiet, to claim or to mint (`StepActions`); no step makes an
  issued credential good again (`GoodFades`); and what is claimed is not good
  (`Apart`, from the same invariant). So a step of a handler, of the cleanup or
  of the clock is the ledger's `Grant`, `Claim`, `Mint` or `Drop`, or nothing.
- **`OAuthSessionsProofs`**: `ChainKeepsOwnerHolds`, `PkceStoredHolds`,
  `ReplayEvidenceKeptHolds`, `ReplayEndsSessionHolds`, from one invariant,
  `ChainInv`: what a handler carries from statement to statement is what the
  credential it read says (`Carry`), a minted token has the owner of its origin
  (`MintsMatch`), and a row has owner and expiry of the token as it was minted
  (`RowsMatch`). `PkceStored` also needs that a challenge is stored before its
  code is delivered, by one handler only (`StoreOnce`); `ReplayEndsSession`
  follows because the successors of a replayed token belong to the user whose
  rows the replay branch revokes. `SuspendedOnlyRedeemsHolds`: a handler that
  began while its user was suspended is at its check of `is_suspended` or
  redeeming a code, and the user is suspended still (`BarredInv`). `RefreshedSessionsHold`, by an
  invariant about clients (`ClientInv`): registered clients are never projects,
  a handler that holds a credential holds it for a registered client, and a
  token belongs to one exactly if it was minted from a credential.
- **`ServiceTokensProofs`**: `TypeCorrect`, `WithdrawnMeansRefusedHolds`, and
  `OnceRefusedHolds`, the refinement of the safety part of
  `RevocableCredential`. The invariant `IInv` says that generated hashes are
  apart from each other and from every row (`HashesApart`), that a row's hash
  belongs to the row's project (`RowsOwned`), that the admin row holds admin
  tokens and no other row does (`AdminOwned`), that the admin row is never
  revoked (`AdminStands`), that a verifier about to cache a generated hash no
  row names is recorded in `straddled` (`HeldRecorded`), and that a withdrawn
  hash is in no row (`WithdrawnGone`). The step from dead to anything needs the
  first three: without them `upsert` might write an old generated hash back. An
  admin token leaves dead or fading by `Seed` alone, and only to be active. From the same
  invariant, `FadingIsBoundedHolds`: a hash that only the cache or a verifier
  knows is in no row, so no SELECT finds it (`UnnamedStep`), and the one step
  that sets its key is a verifier's last.
- **`ApiKeysProofs`**: `TypeCorrect`, `WithdrawnMeansRefusedHolds`,
  `ExpiredGetsNothingHolds`, and `OnceRefusedHolds`, the refinement. Every step
  is shown to have `Effects`: of an issued key nothing is undone, neither its
  revocation nor its expiry; it is held only if it was held or good, cached only
  if it was cached or held. Given those, one lemma (`SlotStep`) shows for all
  steps alike that the invariant is kept, and each action owes only what its own
  slot claims. The invariant says what a handler knows of the keys it carries
  (`SlotOK`; a slot whose key had expired on arrival never gets past the
  SELECT), that two handlers never carry the same new key (`ChildrenApart`), and
  again `HeldRecorded` and `WithdrawnGone`. `FadingIsBoundedHolds` adds to the
  effects what a step does to the entry of a key that is not good
  (`NotGoodStep`); the lifetime of an entry is whatever `CacheTTL` gave it.
- **`AccountsProofs`**: `TypeCorrect`; `LockoutEngagesHolds`, by the invariant
  that the column is at least the number of failures answered since the last
  clear; `ResetOnceHolds`, by the invariant that a token in a handler or spent
  is `Consumed`: used or deleted, and never generated again;
  `LockIsBoundedHolds`, since only a login that finds no lock becomes a guess,
  and every step that sets `locked_until` is the end of one (`LockedStep`).
- **`RolesProofs`**: `TypeCorrect`, `CacheCorrect` for `CacheFollowsRoles`,
  `UpdateCorrect` for `UpdateReplacesScopes`, all from one invariant: the default
  role exists; a slot's fields are those its `pc` needs (`Shapes`); the list of a
  fill that nothing straddled is what its user is granted now (`Fills`); and an
  update that nothing overlapped has written exactly what it has taken off its
  list (`Writes`). A change of what a user is granted owes three things: a DEL
  or an excuse for the entry, and an excuse for the fills in flight. The lemma
  for a step states these debts once, and each action shows that it pays them.
  `StaleIsBoundedHolds`: every step but SETEX leaves an entry at most as young as
  it was (`EntriesAge`), and none brings a fill nearer to its SETEX with another
  list than the one its user has (`FillsAlike`).
- **`AccessTokensProofs`**: `TypeCorrect`, `KeyCorrect` for `KeyIsRecent`,
  `RevokedCorrect` for `RevokedRefusedUntilExp`. Two invariants: the client's
  key, if it was not retired when it was stored, has not been retired for longer
  than it has been cached (`KeyInv`); and a deny-list entry lasts until the
  token has only its leeway left (`DenyInv`).
- **`RateLimitProofs`**: `TypeCorrect`, `QuotaCorrect` for `QuotaKept`. The
  invariant (`Covered`): while a window lasts, its counter, if it exists, lives
  to the end of the window, and it is no less than the requests any limiter has
  let through in it. `RefusedCorrect` for `RefusedMeansBusy` is the converse,
  over all limiters together (`BusyInv`): a counter is never above the number
  of requests charged to its caller in its window. Those are a set (`Charges`),
  which is finite and only grows, by an element with every hit until those of
  one limiter alone are `Many`, so that the library's facts about cardinalities
  suffice.

What stays with TLC is liveness: `WithdrawnTokensFade`, `WithdrawnKeysFade`,
`LockExpires` and `StaleScopesFade`, which the prover does not reach. Their
safety halves are theorems: no generated token and no key comes back, and an
admin token only by being put back into its row (`OnceRefusedHolds`), and what
fades only ages (`FadingIsBoundedHolds`, `LockIsBoundedHolds`,
`StaleIsBoundedHolds`).

## Plan

Every component with state of its own that other parts rely on has a module.
What is left:

1. `Scopes`: matching with wildcards as an operator checked against a reference
   definition over small scopes.

## What is not modelled

Cryptography and token formats (a hash names its token, a signature is valid or
the request stutters), HTTP and JSON, metrics, audit entries (written and never
read back), e-mail (a lost e-mail is a token nobody presents), pagination and
read-only endpoints, the console, packaging. The hazards in `PROJECT.json` that
no property covers say why.

Two behaviours are modelled and deliberately have no property, because the code
promises nothing about them: a crash between the rotation of a refresh token and
the issue of its successor loses the session, and the client's retry is then
taken for a replay; and a refresh after `/logout` is taken for one too.
