---------------------------- MODULE AccessTokens ----------------------------
(***************************************************************************)
(* JWTs: signed by POST /token and by every grant, verified by /introspect *)
(* on a replica and by the client library (module Jwks) without one, and   *)
(* revoked by /token/revoke and /logout, which put the jti on a deny-list  *)
(* in Redis for as long as the token has to live.                          *)
(*                                                                         *)
(* A token is accepted until its exp plus a leeway.  Of its lifetime only  *)
(* what is left, leeway included, is kept.                                 *)
(***************************************************************************)
EXTENDS Jwks

CONSTANTS
  Request,   \* introspections and revocations in flight, over all replicas
  Lifetime,  \* ttl_seconds of sign, in ticks
  Leeway     \* JWT_CLOCK_SKEW_SECONDS, 60 by default as in the client, in ticks

ASSUME LifetimeAssumption == Lifetime \in Nat \ {0} /\ Leeway \in Nat

VARIABLES
  aud_tolerated, \* whether decode accepts a claim "aud" when no audience is
                 \* expected; it does not change
  jwts,          \* token -> key it is signed with (NULL if never signed), what is left
  jwt_revoked,   \* the Redis keys jwt_revoked:<jti>, ticks left
  req,
  \* What happened, for the properties.
  denied,        \* tokens whose jti was put on the list
  logged_out     \* tokens whose revocation was answered, no command having failed

tokenVars == <<aud_tolerated, jwts, jwt_revoked, req, denied, logged_out>>
vars == <<jwksVars, tokenVars>>

Jwt  == [key : Key \cup {NULL}, left : 0..(Lifetime + Leeway)]

\* ttl: of the entry to be set; barred (history): the token was on the list
\* when the request arrived; blind (history): the list could not be read.
Slot == [pc : {"idle", "get_revoked", "expand", "revoke", "set_revoked"},
         token : Token \cup {NULL}, ttl : 0..Lifetime, barred : BOOLEAN, blind : BOOLEAN]

Idle == [pc |-> "idle", token |-> NULL, ttl |-> 0, barred |-> FALSE, blind |-> FALSE]

Init ==
  /\ JwksInit
  /\ aud_tolerated \in BOOLEAN
  /\ jwts = [j \in Token |-> [key |-> NULL, left |-> 0]]
  /\ jwt_revoked = [j \in Token |-> 0]
  /\ req = [r \in Request |-> Idle]
  /\ denied = {}
  /\ logged_out = {}

At(r, label) == req[r].pc = label
Respond(r) == req' = [req EXCEPT ![r] = Idle]

Signed(j) == jwts[j].key # NULL
PastExp(j) == jwts[j].left <= Leeway

-----------------------------------------------------------------------------
\* sign, by a replica with some key; exp = now + ttl.
Sign(j, k) ==
  /\ ~Signed(j)
  /\ k \in serving
  /\ jwts' = [jwts EXCEPT ![j] = [key |-> k, left |-> Lifetime + Leeway]]
  /\ UNCHANGED <<jwksVars, aud_tolerated, jwt_revoked, req, denied, logged_out>>

\* verify, on a replica with the token's key: signature and exp first.
Introspect(r, j) ==
  /\ At(r, "idle")
  /\ jwts[j].key \in serving /\ jwts[j].left > 0
  /\ req' = [req EXCEPT ![r] = [Idle EXCEPT !.pc = "get_revoked", !.token = j,
                                  !.barred = j \in denied]]
  /\ UNCHANGED <<jwksVars, aud_tolerated, jwts, jwt_revoked, denied, logged_out>>

\* GET jwt_revoked:<jti>; a GET that fails finds nothing.
GetRevoked(r) ==
  /\ At(r, "get_revoked")
  /\ \/ /\ jwt_revoked[req[r].token] > 0
        /\ Respond(r)
        /\ UNCHANGED faults
     \/ /\ jwt_revoked[req[r].token] = 0
        /\ req' = [req EXCEPT ![r].pc = "expand"]
        /\ UNCHANGED faults
     \/ /\ Fault
        /\ req' = [req EXCEPT ![r].pc = "expand", ![r].blind = TRUE]
  /\ UNCHANGED <<serving, retired, decoding_key, age, excused, call>>
  /\ UNCHANGED <<aud_tolerated, jwts, jwt_revoked, denied, logged_out>>

\* The token is active: the scopes of its user (module Roles) and the quotas
\* of its tenant are added, and the request answered.
Answer(r) ==
  /\ At(r, "expand")
  /\ Respond(r)
  /\ UNCHANGED <<jwksVars, aud_tolerated, jwts, jwt_revoked, denied, logged_out>>

-----------------------------------------------------------------------------
\* POST /token/revoke, and POST /logout with an access token.
Revoke(r, j) ==
  /\ At(r, "idle")
  /\ Signed(j)
  /\ req' = [req EXCEPT ![r] = [Idle EXCEPT !.pc = "revoke", !.token = j]]
  /\ UNCHANGED <<jwksVars, aud_tolerated, jwts, jwt_revoked, denied, logged_out>>

\* Mutant: the entry lives as short as it may.
DecodeForRevokeBriefly(r) ==
  /\ At(r, "revoke")
  /\ aud_tolerated
  /\ req' = [req EXCEPT ![r].pc = "set_revoked", ![r].ttl = 1]
  /\ UNCHANGED <<jwksVars, aud_tolerated, jwts, jwt_revoked, denied, logged_out>>

\* Mutant: no minimum of one second.
DecodeForRevokeZero(r) ==
  /\ At(r, "revoke")
  /\ aud_tolerated
  /\ req' = [req EXCEPT ![r].pc = "set_revoked",
                        ![r].ttl = jwts[req[r].token].left - Leeway]
  /\ UNCHANGED <<jwksVars, aud_tolerated, jwts, jwt_revoked, denied, logged_out>>

\* revoke decodes the token without its signature and its exp, but with an aud
\* claim that every token has and with no audience expected; whether that
\* works or not, the caller is answered 204.
DecodeForRevoke(r) ==
  LET j == req[r].token IN
  /\ At(r, "revoke")
  /\ IF aud_tolerated
       THEN /\ req' = [req EXCEPT ![r].pc = "set_revoked",
                         ![r].ttl = IF PastExp(j) THEN 1 ELSE jwts[j].left - Leeway]
            /\ UNCHANGED logged_out
       ELSE /\ Respond(r)
            /\ logged_out' = logged_out \cup {j}
  /\ UNCHANGED <<jwksVars, aud_tolerated, jwts, jwt_revoked, denied>>

\* SETEX jwt_revoked:<jti>; its failure is ignored.
SetRevoked(r) ==
  LET j == req[r].token IN
  /\ At(r, "set_revoked")
  /\ \/ /\ jwt_revoked' = [jwt_revoked EXCEPT ![j] = req[r].ttl]
        /\ denied' = denied \cup {j}
        /\ logged_out' = logged_out \cup {j}
        /\ UNCHANGED faults
     \/ /\ Fault
        /\ UNCHANGED <<jwt_revoked, denied, logged_out>>
  /\ Respond(r)
  /\ UNCHANGED <<serving, retired, decoding_key, age, excused, call>>
  /\ UNCHANGED <<aud_tolerated, jwts>>

-----------------------------------------------------------------------------
Abort(r) ==
  /\ ~At(r, "idle")
  /\ Fault
  /\ Respond(r)
  /\ UNCHANGED <<serving, retired, decoding_key, age, excused, call>>
  /\ UNCHANGED <<aud_tolerated, jwts, jwt_revoked, denied, logged_out>>

Less(n) == IF n > 0 THEN n - 1 ELSE 0

Tick ==
  /\ JwksTick
  /\ jwts' = [j \in Token |-> [jwts[j] EXCEPT !.left = Less(@)]]
  /\ jwt_revoked' = [j \in Token |-> Less(jwt_revoked[j])]
  /\ UNCHANGED <<aud_tolerated, req, denied, logged_out>>

Next ==
  \/ JwksNext /\ UNCHANGED tokenVars
  \/ \E j \in Token, k \in Key : Sign(j, k)
  \/ \E r \in Request :
       \/ GetRevoked(r) \/ Answer(r) \/ DecodeForRevoke(r) \/ SetRevoked(r)
       \/ Abort(r)
       \/ \E j \in Token : Introspect(r, j) \/ Revoke(r, j)
  \/ Tick

Spec == Init /\ [][Next]_vars

-----------------------------------------------------------------------------
(* Properties.                                                             *)

\* Keys, tokens, entries and slots are well formed; in particular no entry is
\* set for no time at all, which Redis refuses, nor for longer than a token
\* can live.
TypeOK ==
  /\ JwksTypeOK
  /\ aud_tolerated \in BOOLEAN
  /\ jwts \in [Token -> Jwt]
  /\ jwt_revoked \in [Token -> 0..Lifetime]
  /\ req \in [Request -> Slot]
  /\ \A r \in Request : At(r, "set_revoked") => req[r].ttl > 0
  /\ denied \subseteq Token /\ logged_out \subseteq Token

\* /introspect does not call a token active that was on the deny-list when the
\* request arrived, unless the list could not be read or the token has passed
\* its exp: the entry ends with exp, and the leeway is not in it
\* (jwt.rs:205, 211-218, 242-249).
RevokedRefusedUntilExp ==
  \A r \in Request : At(r, "expand") /\ req[r].barred =>
    req[r].blind \/ PastExp(req[r].token)

\* "If an access_token is provided, it is also added to the JWT revocation
\* list" (auth.rs:582-583): a token whose revocation was answered is on the
\* list until its exp.
LoggedOutIsDenied ==
  \A j \in logged_out : PastExp(j) \/ jwt_revoked[j] > 0
=============================================================================
