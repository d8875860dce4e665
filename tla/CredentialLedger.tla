-------------------------- MODULE CredentialLedger --------------------------
(***************************************************************************)
(* What the OAuth endpoints promise about the credentials they hand out,   *)
(* with no endpoint, table or clock in sight.  A credential is an          *)
(* authorization code or a refresh token.  It is issued once, spent once,  *)
(* and spending it lets its holder mint at most one successor.             *)
(*                                                                         *)
(* OAuthTokens implements this specification.                              *)
(***************************************************************************)
CONSTANTS Credential, NULL

VARIABLES
  status,   \* credential -> where it is in its life
  origin    \* credential -> the credential spent to mint it, NULL if none

ledgerVars == <<status, origin>>

Status == {"fresh", "live", "claimed", "spent"}

Init ==
  /\ status = [x \in Credential |-> "fresh"]
  /\ origin = [x \in Credential |-> NULL]

(* A user proves who they are: a credential with no predecessor appears.   *)
Grant(x) ==
  /\ status[x] = "fresh"
  /\ status' = [status EXCEPT ![x] = "live"]
  /\ UNCHANGED origin

(* One holder takes the right to mint the successor of x.                  *)
Claim(x) ==
  /\ status[x] = "live"
  /\ status' = [status EXCEPT ![x] = "claimed"]
  /\ UNCHANGED origin

(* That right is used, once.                                               *)
Mint(x, y) ==
  /\ status[x] = "claimed"
  /\ status[y] = "fresh"
  /\ status' = [status EXCEPT ![x] = "spent", ![y] = "live"]
  /\ origin' = [origin EXCEPT ![y] = x]

Droppable == {x \in Credential : status[x] \in {"live", "claimed"}}

(* Credentials expire, are revoked, or their holder gives up.              *)
Drop(S) ==
  /\ S # {}
  /\ status' = [x \in Credential |-> IF x \in S THEN "spent" ELSE status[x]]
  /\ UNCHANGED origin

Next ==
  \/ \E x \in Credential : Grant(x) \/ Claim(x)
  \/ \E x, y \in Credential : Mint(x, y)
  \/ \E S \in SUBSET Droppable : Drop(S)

Spec == Init /\ [][Next]_ledgerVars
=============================================================================
