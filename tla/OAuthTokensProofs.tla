------------------------- MODULE OAuthTokensProofs --------------------------
(***************************************************************************)
(* Theorems about OAuthTokens, for any number of users, clients, codes,    *)
(* tokens and concurrent requests.                                         *)
(***************************************************************************)
EXTENDS OAuthTokens, TLAPS

-----------------------------------------------------------------------------
(* Type correctness.                                                       *)

\* What a handler has read and written so far, by the statement it is at.
SlotOK(r) ==
  LET q == req[r] IN
  /\ q.pc \in {"check_suspended", "create_code", "store_challenge", "read_challenge",
               "load_user", "revoke_all", "issue"} => q.user \in User
  /\ q.pc \in {"check_suspended", "create_code", "store_challenge", "read_challenge",
               "load_user", "issue"} => q.client \in Client
  /\ q.pc \in {"store_challenge", "read_challenge"}
       => q.cred \in DOMAIN authorization_codes
  /\ q.pc \in {"load_user", "find_any", "revoke_all"} => q.cred \in DOMAIN minted
  /\ q.pc = "issue" => q.cred \in {NULL} \cup DOMAIN authorization_codes \cup DOMAIN minted

RowsMinted == DOMAIN refresh_tokens \subseteq DOMAIN minted

TypeInv == TypeOK /\ RowsMinted /\ \A r \in Request : SlotOK(r)

\* In the initial state every table is empty and every slot idle.
LEMMA InitTypeInv == Init => TypeInv
  BY ClientAssumption, BoundAssumption
  DEF Init, TypeInv, TypeOK, RowsMinted, SlotOK, Slot, Idle, PC, history

\* A step that changes one slot and deletes no code and no history leaves
\* the other slots in order.
LEMMA OneSlot ==
  ASSUME TypeInv, NEW r \in Request, NEW s \in Slot,
         req' = [req EXCEPT ![r] = s],
         DOMAIN authorization_codes \subseteq DOMAIN authorization_codes',
         DOMAIN minted \subseteq DOMAIN minted',
         SlotOK(r)'
  PROVE  /\ req' \in [Request -> Slot]
         /\ \A p \in Request : SlotOK(p)'
<1>1. req \in [Request -> Slot]
  BY DEF TypeInv, TypeOK
<1>2. ASSUME NEW p \in Request, p # r PROVE SlotOK(p)'
  <2>1. SlotOK(p) /\ req'[p] = req[p]
    BY <1>1, <1>2 DEF TypeInv
  <2> QED
    BY <2>1 DEF SlotOK
<1> QED
  BY <1>1, <1>2

\* Likewise for a step that leaves every slot alone.
LEMMA NoSlot ==
  ASSUME TypeInv, UNCHANGED req,
         DOMAIN authorization_codes \subseteq DOMAIN authorization_codes',
         DOMAIN minted \subseteq DOMAIN minted'
  PROVE  /\ req' \in [Request -> Slot]
         /\ \A p \in Request : SlotOK(p)'
  BY DEF TypeInv, TypeOK, SlotOK

\* The two ways a handler moves on without touching its local state.
LEMMA RespondSlot ==
  ASSUME TypeInv, NEW r \in Request, Respond(r)
  PROVE  /\ Idle \in Slot
         /\ req' = [req EXCEPT ![r] = Idle]
         /\ req'[r] = Idle
         /\ SlotOK(r)'
  BY DEF TypeInv, TypeOK, Respond, Idle, Slot, PC, SlotOK

LEMMA GotoSlot ==
  ASSUME TypeInv, NEW r \in Request, NEW label \in PC, Goto(r, label)
  PROVE  \E s \in Slot :
           /\ req' = [req EXCEPT ![r] = s]
           /\ req'[r] = s
           /\ s.pc = label
           /\ s.user = req[r].user /\ s.client = req[r].client
           /\ s.cred = req[r].cred /\ s.verifier = req[r].verifier
           /\ s.barred = req[r].barred
<1>1. req \in [Request -> Slot]
  BY DEF TypeInv, TypeOK
<1>2. req[r] \in Slot
  BY <1>1
<1> DEFINE s == [req[r] EXCEPT !.pc = label]
<1>3. /\ s \in Slot /\ s.pc = label
      /\ s.user = req[r].user /\ s.client = req[r].client
      /\ s.cred = req[r].cred /\ s.verifier = req[r].verifier
      /\ s.barred = req[r].barred
  BY <1>2 DEF Slot
<1>4. req' = [req EXCEPT ![r] = s]
  BY <1>1 DEF Goto
<1>5. req'[r] = s
  BY <1>1, <1>4
<1> HIDE DEF s
<1> QED
  BY <1>3, <1>4, <1>5

\* Revoking rows changes nothing but their flag.
LEMMA RevokeRows ==
  ASSUME TypeInv, NEW S, Revoke(S)
  PROVE  /\ DOMAIN refresh_tokens' = DOMAIN refresh_tokens
         /\ \A t \in DOMAIN refresh_tokens :
              /\ refresh_tokens'[t] \in TokenRow
              /\ refresh_tokens'[t].user = refresh_tokens[t].user
              /\ refresh_tokens'[t].client = refresh_tokens[t].client
              /\ refresh_tokens'[t].expires_at = refresh_tokens[t].expires_at
              /\ t \in S => refresh_tokens'[t].revoked = TRUE
              /\ t \notin S => refresh_tokens'[t] = refresh_tokens[t]
<1>1. DOMAIN refresh_tokens' = DOMAIN refresh_tokens
  BY DEF Revoke
<1>2. ASSUME NEW t \in DOMAIN refresh_tokens
      PROVE  /\ refresh_tokens'[t] \in TokenRow
             /\ refresh_tokens'[t].user = refresh_tokens[t].user
             /\ refresh_tokens'[t].client = refresh_tokens[t].client
             /\ refresh_tokens'[t].expires_at = refresh_tokens[t].expires_at
             /\ t \in S => refresh_tokens'[t].revoked = TRUE
             /\ t \notin S => refresh_tokens'[t] = refresh_tokens[t]
  <2> DEFINE row == refresh_tokens[t]
             revokedRow == [row EXCEPT !.revoked = TRUE]
  <2>1. row \in TokenRow
    BY DEF TypeInv, TypeOK
  <2>2. /\ revokedRow \in TokenRow /\ revokedRow.revoked = TRUE
        /\ revokedRow.user = row.user /\ revokedRow.client = row.client
        /\ revokedRow.expires_at = row.expires_at
    BY <2>1 DEF TokenRow
  <2>3. refresh_tokens'[t] = IF t \in S THEN revokedRow ELSE row
    BY DEF Revoke
  <2> HIDE DEF row, revokedRow
  <2>4. refresh_tokens'[t] \in TokenRow
    BY <2>1, <2>2, <2>3
  <2> QED
    BY <2>2, <2>3, <2>4 DEF row
<1> QED
  BY <1>1, <1>2

\* A step that changes one slot and no table.
LEMMA SlotOnly ==
  ASSUME TypeInv, NEW r \in Request, NEW s \in Slot,
         req' = [req EXCEPT ![r] = s], SlotOK(r)',
         UNCHANGED <<tables, now, history>>, faults' \in Nat
  PROVE  TypeInv'
  BY OneSlot DEF TypeInv, TypeOK, RowsMinted, tables, history

LEMMA NewSlot ==
  ASSUME TypeInv, NEW r \in Request, NEW s, req' = [req EXCEPT ![r] = s]
  PROVE  req'[r] = s
  BY DEF TypeInv, TypeOK

LEMMA NextTypeInv == TypeInv /\ [Next]_vars => TypeInv'
<1> SUFFICES ASSUME TypeInv, [Next]_vars PROVE TypeInv'
  OBVIOUS
<1> USE DEF At
<1>0. faults \in Nat /\ faults + 1 \in Nat
  BY DEF TypeInv, TypeOK
<1>1. ASSUME NEW r \in Request, CheckSuspended(r) PROVE TypeInv'
  <2>1. UNCHANGED <<tables, now, faults, history>>
    BY <1>1 DEF CheckSuspended
  <2>2. CASE Respond(r)
    BY <1>0, <2>1, <2>2, RespondSlot, SlotOnly
  <2>3. CASE Goto(r, "create_code")
    <3>1. PICK s \in Slot :
            /\ req' = [req EXCEPT ![r] = s]
            /\ req'[r] = s
            /\ s.pc = "create_code"
            /\ s.user = req[r].user /\ s.client = req[r].client
      BY <2>3, GotoSlot DEF PC
    <3>2. SlotOK(r)'
      BY <1>1, <3>1 DEF CheckSuspended, TypeInv, SlotOK
    <3> QED
      BY <1>0, <2>1, <3>1, <3>2, SlotOnly
  <2> QED
    BY <1>1, <2>2, <2>3 DEF CheckSuspended
<1>2. ASSUME NEW r \in Request, CreateCode(r) PROVE TypeInv'
  <2>1. PICK x \in FreshCodes :
          /\ authorization_codes' = Insert(authorization_codes, x,
               [user |-> req[r].user, client |-> req[r].client, challenge |-> NULL,
                used |-> FALSE, expires_at |-> now + CodeTTL])
          /\ \/ /\ req[r].verifier = NULL
                /\ delivered' = delivered \cup {x}
                /\ Respond(r)
             \/ /\ req[r].verifier # NULL
                /\ req' = [req EXCEPT ![r].pc = "store_challenge", ![r].cred = x]
                /\ UNCHANGED delivered
    BY <1>2 DEF CreateCode
  <2>2. /\ x \in Code \ DOMAIN authorization_codes
        /\ req[r] \in Slot /\ SlotOK(r)
        /\ req[r].user \in User /\ req[r].client \in Client
        /\ now + CodeTTL \in Nat
    BY <1>2, TTLAssumption DEF FreshCodes, CreateCode, TypeInv, TypeOK, SlotOK
  <2>3. /\ DOMAIN authorization_codes' = DOMAIN authorization_codes \cup {x}
        /\ \A y \in DOMAIN authorization_codes' : authorization_codes'[y] \in CodeRow
    <3> DEFINE row == [user |-> req[r].user, client |-> req[r].client, challenge |-> NULL,
                       used |-> FALSE, expires_at |-> now + CodeTTL]
    <3>1. row \in CodeRow
      BY <2>2 DEF CodeRow
    <3> HIDE DEF row
    <3>3. authorization_codes' = Insert(authorization_codes, x, row)
      BY <2>1 DEF row
    <3>4. /\ DOMAIN authorization_codes' = DOMAIN authorization_codes \cup {x}
          /\ authorization_codes'[x] = row
          /\ \A y \in DOMAIN authorization_codes \ {x} :
               authorization_codes'[y] = authorization_codes[y]
      BY <3>3 DEF Insert
    <3> QED
      BY <3>1, <3>4 DEF TypeInv, TypeOK
  <2>4. /\ UNCHANGED <<oauth2_clients, is_suspended, refresh_tokens, now, faults, minted, replayed>>
        /\ delivered' \subseteq DOMAIN authorization_codes'
    BY <1>2, <2>1, <2>3 DEF CreateCode, TypeInv, TypeOK
  <2>5. req' \in [Request -> Slot] /\ \A p \in Request : SlotOK(p)'
    <3>1. CASE Respond(r)
      BY <2>3, <2>4, <3>1, RespondSlot, OneSlot
    <3>2. CASE req' = [req EXCEPT ![r].pc = "store_challenge", ![r].cred = x]
      <4> DEFINE s == [req[r] EXCEPT !.pc = "store_challenge", !.cred = x]
      <4>1. /\ s \in Slot /\ s.pc = "store_challenge" /\ s.cred = x
            /\ s.user = req[r].user /\ s.client = req[r].client
        BY <2>2 DEF Slot, PC, Credential
      <4>2. req' = [req EXCEPT ![r] = s] /\ req'[r] = s
        BY <3>2 DEF TypeInv, TypeOK
      <4> HIDE DEF s
      <4>3. SlotOK(r)'
        BY <2>2, <2>3, <4>1, <4>2 DEF SlotOK
      <4> QED
        BY <2>3, <2>4, <4>1, <4>2, <4>3, OneSlot
    <3> QED
      BY <2>1, <3>1, <3>2
  <2> QED
    BY <2>2, <2>3, <2>4, <2>5 DEF TypeInv, TypeOK, RowsMinted
<1>3. ASSUME NEW r \in Request, StoreChallenge(r) PROVE TypeInv'
  <2>1. /\ req[r] \in Slot /\ SlotOK(r) /\ req[r].cred \in DOMAIN authorization_codes
        /\ Respond(r) /\ delivered' = delivered \cup {req[r].cred}
        /\ UNCHANGED <<oauth2_clients, is_suspended, refresh_tokens, now, minted, replayed>>
    BY <1>3 DEF StoreChallenge, TypeInv, TypeOK, SlotOK
  <2>2. /\ faults' \in Nat
        /\ DOMAIN authorization_codes' = DOMAIN authorization_codes
        /\ \A y \in DOMAIN authorization_codes : authorization_codes'[y] \in CodeRow
    <3>1. CASE UNCHANGED authorization_codes
      BY <1>0, <1>3, <3>1 DEF StoreChallenge, TypeInv, TypeOK
    <3>2. CASE /\ authorization_codes' =
                   [authorization_codes EXCEPT ![req[r].cred].challenge = req[r].verifier]
               /\ UNCHANGED faults
      BY <1>0, <2>1, <3>2 DEF TypeInv, TypeOK, CodeRow, Slot
    <3> QED
      BY <1>3, <3>1, <3>2 DEF StoreChallenge
  <2>3. req' \in [Request -> Slot] /\ \A p \in Request : SlotOK(p)'
    BY <2>1, <2>2, RespondSlot, OneSlot
  <2> QED
    BY <2>1, <2>2, <2>3 DEF TypeInv, TypeOK, RowsMinted
<1>4. ASSUME NEW r \in Request, RefuseClient(r) PROVE TypeInv'
  BY <1>0, <1>4, RespondSlot, SlotOnly DEF RefuseClient
<1>5. ASSUME NEW r \in Request, ReadChallenge(r) PROVE TypeInv'
  <2>1. UNCHANGED <<tables, now, faults, history>>
    BY <1>5 DEF ReadChallenge
  <2>2. CASE Respond(r)
    BY <1>0, <2>1, <2>2, RespondSlot, SlotOnly
  <2>3. CASE Goto(r, "issue")
    <3>1. PICK s \in Slot :
            /\ req' = [req EXCEPT ![r] = s]
            /\ req'[r] = s
            /\ s.pc = "issue"
            /\ s.user = req[r].user /\ s.client = req[r].client /\ s.cred = req[r].cred
      BY <2>3, GotoSlot DEF PC
    <3>2. SlotOK(r)'
      BY <1>5, <2>1, <3>1 DEF ReadChallenge, TypeInv, SlotOK, tables, history
    <3> QED
      BY <1>0, <2>1, <3>1, <3>2, SlotOnly
  <2> QED
    BY <1>5, <2>2, <2>3 DEF ReadChallenge
<1>6. ASSUME NEW r \in Request, LoadUser(r) PROVE TypeInv'
  <2>1. UNCHANGED <<tables, now, faults, history>>
    BY <1>6 DEF LoadUser
  <2>2. CASE Respond(r)
    BY <1>0, <2>1, <2>2, RespondSlot, SlotOnly
  <2>3. CASE Goto(r, "issue")
    <3>1. PICK s \in Slot :
            /\ req' = [req EXCEPT ![r] = s]
            /\ req'[r] = s
            /\ s.pc = "issue"
            /\ s.user = req[r].user /\ s.client = req[r].client /\ s.cred = req[r].cred
      BY <2>3, GotoSlot DEF PC
    <3>2. SlotOK(r)'
      BY <1>6, <2>1, <3>1 DEF LoadUser, TypeInv, SlotOK, tables, history
    <3> QED
      BY <1>0, <2>1, <3>1, <3>2, SlotOnly
  <2> QED
    BY <1>6, <2>2, <2>3 DEF LoadUser
<1>7. ASSUME NEW r \in Request, FindByHashAny(r) PROVE TypeInv'
  <2> DEFINE t == req[r].cred
  <2>1. UNCHANGED <<tables, now, faults, history>>
    BY <1>7 DEF FindByHashAny
  <2>2. CASE Respond(r)
    BY <1>0, <2>1, <2>2, RespondSlot, SlotOnly
  <2>3. CASE /\ t \in DOMAIN refresh_tokens
             /\ req' = [req EXCEPT ![r].pc = "revoke_all",
                                   ![r].user = refresh_tokens[t].user]
    <3> DEFINE s == [req[r] EXCEPT !.pc = "revoke_all", !.user = refresh_tokens[t].user]
    <3>1. /\ req[r] \in Slot /\ SlotOK(r)
          /\ refresh_tokens[t].user \in User
          /\ t \in DOMAIN minted
      BY <1>7, <2>3 DEF FindByHashAny, TypeInv, TypeOK, SlotOK, TokenRow
    <3>2. /\ s \in Slot /\ s.pc = "revoke_all" /\ s.user = refresh_tokens[t].user
          /\ s.cred = req[r].cred
      BY <3>1 DEF Slot, PC
    <3>3. req' = [req EXCEPT ![r] = s] /\ req'[r] = s
      BY <2>3 DEF TypeInv, TypeOK
    <3> HIDE DEF s
    <3>4. SlotOK(r)'
      BY <2>1, <3>1, <3>2, <3>3 DEF SlotOK, tables, history
    <3> QED
      BY <1>0, <2>1, <3>2, <3>3, <3>4, SlotOnly
  <2> QED
    BY <1>7, <2>2, <2>3 DEF FindByHashAny
<1>8. ASSUME NEW r \in Request, RevokeAllForUser(r) PROVE TypeInv'
  <2>1. /\ Respond(r) /\ req[r].cred \in DOMAIN minted
        /\ Revoke({t \in DOMAIN refresh_tokens : refresh_tokens[t].user = req[r].user})
        /\ replayed' = replayed \cup {req[r].cred}
        /\ UNCHANGED <<oauth2_clients, is_suspended, authorization_codes, now, faults,
                       delivered, minted>>
    BY <1>8 DEF RevokeAllForUser, TypeInv, SlotOK
  <2>2. /\ DOMAIN refresh_tokens' = DOMAIN refresh_tokens
        /\ \A t \in DOMAIN refresh_tokens : refresh_tokens'[t] \in TokenRow
    BY <2>1, RevokeRows
  <2>3. req' \in [Request -> Slot] /\ \A p \in Request : SlotOK(p)'
    BY <2>1, RespondSlot, OneSlot
  <2> QED
    BY <2>1, <2>2, <2>3 DEF TypeInv, TypeOK, RowsMinted
<1>9. ASSUME NEW r \in Request, IssueTokens(r) PROVE TypeInv'
  <2> DEFINE row  == [user |-> req[r].user, client |-> req[r].client,
                      expires_at |-> now + RefreshTTL, revoked |-> FALSE]
             mint == [origin |-> req[r].cred, user |-> req[r].user, client |-> req[r].client,
                      verifier |-> req[r].verifier, expires_at |-> now + RefreshTTL,
                      late |-> req[r].cred \in replayed]
  <2>1. PICK t \in FreshTokens : /\ refresh_tokens' = Insert(refresh_tokens, t, row)
                                 /\ minted' = Insert(minted, t, mint)
    BY <1>9 DEF IssueTokens
  <2>2. /\ Respond(r)
        /\ UNCHANGED <<oauth2_clients, is_suspended, authorization_codes, now, faults,
                       delivered, replayed>>
    BY <1>9 DEF IssueTokens
  <2>3. row \in TokenRow /\ mint \in Mint
    <3>1. /\ req[r] \in Slot /\ now + RefreshTTL \in Nat
          /\ req[r].user \in User /\ req[r].client \in Client
      BY <1>9, TTLAssumption DEF IssueTokens, TypeInv, TypeOK, SlotOK
    <3>2. req[r].cred \in Credential \cup {NULL} /\ req[r].verifier \in Verifier \cup {NULL}
      BY <3>1 DEF Slot
    <3> QED
      BY <3>1, <3>2 DEF TokenRow, Mint
  <2> HIDE DEF row, mint
  <2>4. /\ t \in Token
        /\ DOMAIN refresh_tokens' = DOMAIN refresh_tokens \cup {t}
        /\ \A u \in DOMAIN refresh_tokens' : refresh_tokens'[u] \in TokenRow
    BY <2>1, <2>3 DEF Insert, FreshTokens, TypeInv, TypeOK
  <2>5. /\ DOMAIN minted' = DOMAIN minted \cup {t}
        /\ \A u \in DOMAIN minted' : minted'[u] \in Mint
    BY <2>1, <2>3 DEF Insert, TypeInv, TypeOK
  <2>6. req' \in [Request -> Slot] /\ \A p \in Request : SlotOK(p)'
    BY <2>2, <2>5, RespondSlot, OneSlot
  <2> QED
    BY <2>2, <2>4, <2>5, <2>6 DEF TypeInv, TypeOK, RowsMinted
<1>10. ASSUME NEW r \in Request, OutOfNames(r) PROVE TypeInv'
  BY <1>0, <1>10, RespondSlot, SlotOnly DEF OutOfNames
<1>11. ASSUME NEW r \in Request, NEW u \in User, NEW c \in OAuthClient,
              NEW v \in Verifier \cup {NULL}, Authorize(r, u, c, v)
       PROVE  TypeInv'
  <2> DEFINE s == [Idle EXCEPT !.pc = "check_suspended", !.user = u, !.client = c,
                     !.verifier = v, !.barred = is_suspended[u]]
  <2>1. s \in Slot /\ s.pc = "check_suspended" /\ s.user = u /\ s.client = c
    BY DEF Idle, Slot, PC, Client, TypeInv, TypeOK
  <2>2. /\ req' = [req EXCEPT ![r] = s] /\ req'[r] = s
        /\ UNCHANGED <<tables, now, faults, history>>
    BY <1>11 DEF Authorize, TypeInv, TypeOK
  <2> HIDE DEF s
  <2> QED
    BY <1>0, <2>1, <2>2, SlotOnly DEF SlotOK, Client
<1>12. ASSUME NEW r \in Request, NEW t \in DOMAIN minted, NEW c \in Client,
              InvalidClient(r, t, c)
       PROVE  TypeInv'
  <2> DEFINE s == [Idle EXCEPT !.pc = "invalid_client", !.client = c, !.cred = t]
  <2>1. s \in Slot /\ s.pc = "invalid_client"
    BY DEF Idle, Slot, PC, Credential, TypeInv, TypeOK
  <2>2. /\ req' = [req EXCEPT ![r] = s] /\ req'[r] = s
        /\ UNCHANGED <<tables, now, faults, history>>
    BY <1>12 DEF InvalidClient, TypeInv, TypeOK
  <2> HIDE DEF s
  <2> QED
    BY <1>0, <2>1, <2>2, SlotOnly DEF SlotOK
<1>13. ASSUME NEW r \in Request, NEW x \in delivered, NEW c \in Client, NEW m \in BOOLEAN,
              NEW v \in Verifier \cup {NULL}, ExchangeCode(r, x, c, m, v)
       PROVE  TypeInv'
  <2> DEFINE s == [Idle EXCEPT !.pc = "read_challenge", !.cred = x,
                     !.user = authorization_codes[x].user, !.client = c, !.verifier = v,
                     !.barred = is_suspended[authorization_codes[x].user]]
  <2>1. /\ x \in DOMAIN authorization_codes /\ x \in Code
        /\ authorization_codes[x] \in CodeRow
        /\ authorization_codes[x].user \in User
        /\ is_suspended[authorization_codes[x].user] \in BOOLEAN
    BY DEF TypeInv, TypeOK, CodeRow
  <2>2. /\ DOMAIN authorization_codes' = DOMAIN authorization_codes
        /\ \A y \in DOMAIN authorization_codes : authorization_codes'[y] \in CodeRow
    BY <1>13, <2>1 DEF ExchangeCode, CodeRow, TypeInv, TypeOK
  <2>3. UNCHANGED <<oauth2_clients, is_suspended, refresh_tokens, now, faults, history>>
    BY <1>13 DEF ExchangeCode
  <2>4. s \in Slot /\ s.pc = "read_challenge" /\ s.cred = x /\ s.client = c
        /\ s.user = authorization_codes[x].user
    BY <2>1 DEF Idle, Slot, PC, Credential
  <2>5. req' \in [Request -> Slot] /\ \A p \in Request : SlotOK(p)'
    <3>1. CASE UNCHANGED req
      BY <2>2, <2>3, <3>1, NoSlot DEF history
    <3>2. CASE req' = [req EXCEPT ![r] = s]
      <4>1. req'[r] = s
        BY <3>2, <2>4, NewSlot
      <4> HIDE DEF s
      <4>2. SlotOK(r)'
        BY <2>1, <2>2, <2>4, <4>1 DEF SlotOK
      <4> QED
        BY <2>2, <2>3, <2>4, <3>2, <4>2, OneSlot DEF history
    <3> QED
      BY <1>13, <3>1, <3>2 DEF ExchangeCode
  <2> QED
    BY <2>2, <2>3, <2>5 DEF TypeInv, TypeOK, RowsMinted, history
<1>14. ASSUME NEW r \in Request, NEW t \in DOMAIN minted, NEW c \in Client,
              RotateRefreshToken(r, t, c)
       PROVE  TypeInv'
  <2> DEFINE row == refresh_tokens[t]
             s == [Idle EXCEPT !.pc = "load_user", !.cred = t, !.user = row.user,
                     !.client = c, !.barred = is_suspended[row.user]]
  <2>1. t \in DOMAIN refresh_tokens /\ t \in Token /\ row.user \in User
    BY <1>14 DEF RotateRefreshToken, Rotatable, TypeInv, TypeOK, TokenRow
  <2>2. /\ Revoke({t})
        /\ DOMAIN refresh_tokens' = DOMAIN refresh_tokens
        /\ \A y \in DOMAIN refresh_tokens : refresh_tokens'[y] \in TokenRow
    BY <1>14, RevokeRows DEF RotateRefreshToken
  <2>3. UNCHANGED <<oauth2_clients, is_suspended, authorization_codes, now, faults, history>>
    BY <1>14 DEF RotateRefreshToken
  <2>4. is_suspended[row.user] \in BOOLEAN
    BY <2>1 DEF TypeInv, TypeOK
  <2>5. s \in Slot /\ s.pc = "load_user" /\ s.cred = t /\ s.client = c
        /\ s.user = row.user
    BY <2>1, <2>4 DEF Idle, Slot, PC, Credential
  <2>6. req' \in [Request -> Slot] /\ \A p \in Request : SlotOK(p)'
    <3>1. CASE UNCHANGED req
      BY <2>3, <3>1, NoSlot DEF history
    <3>2. CASE req' = [req EXCEPT ![r] = s]
      <4>1. req'[r] = s
        BY <3>2, <2>5, NewSlot
      <4> HIDE DEF s, row
      <4>2. SlotOK(r)'
        BY <2>1, <2>3, <2>5, <4>1 DEF SlotOK, history
      <4> QED
        BY <2>3, <2>5, <3>2, <4>2, OneSlot DEF history
    <3> QED
      BY <1>14, <3>1, <3>2 DEF RotateRefreshToken
  <2> QED
    BY <2>2, <2>3, <2>6 DEF TypeInv, TypeOK, RowsMinted, history
<1>15. ASSUME NEW r \in Request, NEW t \in DOMAIN minted, NEW c \in Client,
              RotateMiss(r, t, c)
       PROVE  TypeInv'
  <2> DEFINE s == [Idle EXCEPT !.pc = "find_any", !.cred = t, !.client = c]
  <2>1. s \in Slot /\ s.pc = "find_any" /\ s.cred = t
    BY DEF Idle, Slot, PC, Credential, TypeInv, TypeOK
  <2>2. /\ req' = [req EXCEPT ![r] = s] /\ req'[r] = s
        /\ UNCHANGED <<tables, now, faults, history>>
    BY <1>15 DEF RotateMiss, TypeInv, TypeOK
  <2> HIDE DEF s
  <2> QED
    BY <1>0, <2>1, <2>2, SlotOnly DEF SlotOK, history
<1>16. ASSUME NEW r \in Request, NEW u \in User, NEW p \in ProjectClient, Login(r, u, p)
       PROVE  TypeInv'
  <2> DEFINE s == [Idle EXCEPT !.pc = "issue", !.user = u, !.client = p]
  <2>1. s \in Slot /\ s.pc = "issue" /\ s.user = u /\ s.client = p /\ s.cred = NULL
    BY DEF Idle, Slot, PC, Client
  <2>2. /\ req' = [req EXCEPT ![r] = s] /\ req'[r] = s
        /\ UNCHANGED <<tables, now, faults, history>>
    BY <1>16 DEF Login, TypeInv, TypeOK
  <2> HIDE DEF s
  <2> QED
    BY <1>0, <2>1, <2>2, SlotOnly DEF SlotOK, Client
<1>17. ASSUME NEW r \in Request, Abort(r) PROVE TypeInv'
  BY <1>0, <1>17, RespondSlot, SlotOnly DEF Abort
<1>18. ASSUME NEW t \in Token, Logout(t) PROVE TypeInv'
  BY <1>18, RevokeRows, NoSlot DEF Logout, TypeInv, TypeOK, RowsMinted, history
<1>19. ASSUME NEW c \in OAuthClient, CreateClient(c) PROVE TypeInv'
  BY <1>19, NoSlot DEF CreateClient, TypeInv, TypeOK, RowsMinted, history
<1>20. ASSUME NEW u \in User, NEW b \in BOOLEAN, SetSuspended(u, b) PROVE TypeInv'
  <2>1. UNCHANGED <<oauth2_clients, authorization_codes, refresh_tokens, now, faults, history>>
    BY <1>20 DEF SetSuspended
  <2>2. ASSUME NEW r \in Request
        PROVE  /\ req'[r] \in Slot /\ req'[r].pc = req[r].pc
               /\ req'[r].user = req[r].user /\ req'[r].client = req[r].client
               /\ req'[r].cred = req[r].cred
    <3>1. req[r] \in Slot
      BY DEF TypeInv, TypeOK
    <3>2. req'[r] = req[r] \/ req'[r] = [req[r] EXCEPT !.barred = FALSE]
      BY <1>20 DEF SetSuspended
    <3> QED
      BY <3>1, <3>2 DEF Slot
  <2>3. req' \in [Request -> Slot]
    BY <1>20, <2>2 DEF SetSuspended
  <2>4. ASSUME NEW r \in Request PROVE SlotOK(r)'
    BY <2>1, <2>2 DEF SlotOK, TypeInv, history
  <2>5. is_suspended' \in [User -> BOOLEAN]
    BY <1>20 DEF SetSuspended, TypeInv, TypeOK
  <2> QED
    BY <2>1, <2>3, <2>4, <2>5 DEF TypeInv, TypeOK, RowsMinted, history
<1>21. CASE RunCleanup
  BY <1>21, NoSlot DEF RunCleanup, TypeInv, TypeOK, RowsMinted, history
<1>22. CASE Tick
  BY <1>22, NoSlot DEF Tick, TypeInv, TypeOK, RowsMinted, history, tables
<1>23. CASE UNCHANGED vars
  BY <1>23, NoSlot DEF vars, TypeInv, TypeOK, RowsMinted, history, tables
<1> QED
  BY <1>1, <1>2, <1>3, <1>4, <1>5, <1>6, <1>7, <1>8, <1>9, <1>10, <1>11, <1>12, <1>13,
     <1>14, <1>15, <1>16, <1>17, <1>18, <1>19, <1>20, <1>21, <1>22, <1>23
  DEF Next, Handler, Arrival

\* Every reachable state is well formed: the variables keep their types and
\* each handler's local state refers to users, clients, codes and tokens that
\* exist, whatever the interleaving.
THEOREM TypeCorrect == Spec => []TypeOK
<1>1. Spec => []TypeInv
  BY InitTypeInv, NextTypeInv, PTL DEF Spec
<1>2. TypeInv => TypeOK
  BY DEF TypeInv
<1> QED
  BY <1>1, <1>2, PTL

-----------------------------------------------------------------------------
(* Single use.  A handler holds a credential from the UPDATE that claims it *)
(* to the INSERT of its successor.  SingleUse alone is not inductive: it    *)
(* needs that what is held, and what already has a successor, is spent, and *)
(* that no two handlers hold the same credential.                           *)

Holding(r) ==
  \/ req[r].pc \in {"read_challenge", "load_user"}
  \/ req[r].pc = "issue" /\ req[r].cred # NULL

Known == DOMAIN authorization_codes \cup DOMAIN minted

Spent(x) ==
  /\ x \in DOMAIN authorization_codes => authorization_codes[x].used
  /\ x \in DOMAIN refresh_tokens => refresh_tokens[x].revoked

HeldIsSpent == \A r \in Request : Holding(r) => Spent(req[r].cred)
HeldOnce == \A p, r \in Request :
  Holding(p) /\ Holding(r) /\ req[p].cred = req[r].cred => p = r
HeldIsChildless == \A r \in Request, t \in DOMAIN minted :
  Holding(r) => minted[t].origin # req[r].cred
OriginIsSpent == \A t \in DOMAIN minted :
  minted[t].origin # NULL => minted[t].origin \in Known /\ Spent(minted[t].origin)

UseInv == HeldIsSpent /\ HeldOnce /\ HeldIsChildless /\ OriginIsSpent /\ SingleUse

\* The three kinds of steps, as far as single use goes.
Quiet ==
  /\ UNCHANGED minted
  /\ \A p \in Request : Holding(p)' => Holding(p) /\ req'[p].cred = req[p].cred
Claims(r, x) ==
  /\ UNCHANGED minted
  /\ x \in Known /\ ~Spent(x) /\ Spent(x)'
  /\ req'[r].cred = x
  /\ \A p \in Request \ {r} : req'[p] = req[p]
Mints(r, t) ==
  /\ t \in Token \ DOMAIN minted
  /\ DOMAIN minted' = DOMAIN minted \cup {t}
  /\ \A s \in DOMAIN minted : minted'[s] = minted[s]
  /\ minted'[t].origin = req[r].cred
  /\ req[r].pc = "issue"
  /\ ~Holding(r)'
  /\ \A p \in Request \ {r} : req'[p] = req[p]

\* A credential is a code or a token, never both and never NULL.
LEMMA Names ==
  ASSUME TypeInv
  PROVE  /\ DOMAIN authorization_codes \subseteq Code
         /\ DOMAIN refresh_tokens \subseteq Token
         /\ DOMAIN refresh_tokens \subseteq DOMAIN minted
         /\ DOMAIN minted \subseteq Token
         /\ Code \cap Token = {}
         /\ NULL \notin Code /\ NULL \notin Token
  BY DisjointAssumption DEF TypeInv, TypeOK, RowsMinted, Credential

LEMMA HeldIsKnown ==
  ASSUME TypeInv, NEW r \in Request, Holding(r)
  PROVE  req[r].cred \in Known /\ req[r].cred # NULL
  BY Names DEF Holding, Known, TypeInv, SlotOK

\* A slot that answers, or moves on without a new credential, claims nothing.
LEMMA OthersSame ==
  ASSUME TypeInv, NEW r \in Request, NEW s, req' = [req EXCEPT ![r] = s]
  PROVE  req'[r] = s /\ \A p \in Request \ {r} : req'[p] = req[p]
  BY DEF TypeInv, TypeOK

LEMMA RespondIsQuiet ==
  ASSUME TypeInv, NEW r \in Request, Respond(r), UNCHANGED minted
  PROVE  Quiet
<1>1. req'[r] = Idle /\ \A p \in Request \ {r} : req'[p] = req[p]
  BY OthersSame DEF Respond
<1>2. Idle.pc = "idle"
  BY DEF Idle
<1> QED
  BY <1>1, <1>2 DEF Quiet, Holding

LEMMA SlotIsQuiet ==
  ASSUME TypeInv, NEW r \in Request, NEW s, req' = [req EXCEPT ![r] = s],
         UNCHANGED minted,
         \/ s.pc \notin {"read_challenge", "load_user", "issue"}
         \/ s.pc = "issue" /\ s.cred = NULL
         \/ Holding(r) /\ s.cred = req[r].cred
  PROVE  Quiet
  BY OthersSame DEF Quiet, Holding

\* Which statements are which kind of step.
Exchanges(r, x) ==
  /\ Claims(r, x)
  /\ \E c \in Client, m \in BOOLEAN, v \in Verifier \cup {NULL} : ExchangeCode(r, x, c, m, v)
Rotates(r, t) == Claims(r, t) /\ \E c \in Client : RotateRefreshToken(r, t, c)
Issues(r) == IssueTokens(r) /\ \E t \in Token : Mints(r, t)

LEMMA StepActions ==
  ASSUME TypeInv, [Next]_vars
  PROVE  \/ Quiet
         \/ \E r \in Request, x \in delivered : Exchanges(r, x)
         \/ \E r \in Request, t \in DOMAIN minted : Rotates(r, t)
         \/ \E r \in Request : Issues(r)
<1> USE DEF At
<1>1. ASSUME NEW r \in Request, CheckSuspended(r) PROVE Quiet
  <2>1. UNCHANGED minted
    BY <1>1 DEF CheckSuspended, history
  <2>2. CASE Goto(r, "create_code")
    BY <2>1, <2>2, GotoSlot, SlotIsQuiet DEF PC
  <2> QED
    BY <1>1, <2>1, <2>2, RespondIsQuiet DEF CheckSuspended
<1>2. ASSUME NEW r \in Request, CreateCode(r) PROVE Quiet
  <2>1. UNCHANGED minted
    BY <1>2 DEF CreateCode
  <2>2. ASSUME NEW x, req' = [req EXCEPT ![r].pc = "store_challenge", ![r].cred = x]
        PROVE  Quiet
    <3> DEFINE s == [req[r] EXCEPT !.pc = "store_challenge", !.cred = x]
    <3>1. req' = [req EXCEPT ![r] = s] /\ s.pc = "store_challenge"
      BY <2>2 DEF TypeInv, TypeOK, Slot
    <3> HIDE DEF s
    <3> QED
      BY <2>1, <3>1, SlotIsQuiet
  <2> QED
    BY <1>2, <2>1, <2>2, RespondIsQuiet DEF CreateCode
<1>3. ASSUME NEW r \in Request, StoreChallenge(r) PROVE Quiet
  BY <1>3, RespondIsQuiet DEF StoreChallenge
<1>4. ASSUME NEW r \in Request, RefuseClient(r) \/ OutOfNames(r) \/ Abort(r) PROVE Quiet
  BY <1>4, RespondIsQuiet DEF RefuseClient, OutOfNames, Abort, history
<1>5. ASSUME NEW r \in Request, ReadChallenge(r) \/ LoadUser(r) PROVE Quiet
  <2>1. UNCHANGED minted /\ Holding(r)
    BY <1>5 DEF ReadChallenge, LoadUser, history, Holding
  <2>2. CASE Goto(r, "issue")
    BY <2>1, <2>2, GotoSlot, SlotIsQuiet DEF PC
  <2> QED
    BY <1>5, <2>1, <2>2, RespondIsQuiet DEF ReadChallenge, LoadUser
<1>6. ASSUME NEW r \in Request, FindByHashAny(r) PROVE Quiet
  <2>1. UNCHANGED minted
    BY <1>6 DEF FindByHashAny, history
  <2>2. ASSUME NEW u, req' = [req EXCEPT ![r].pc = "revoke_all", ![r].user = u]
        PROVE  Quiet
    <3> DEFINE s == [req[r] EXCEPT !.pc = "revoke_all", !.user = u]
    <3>1. req' = [req EXCEPT ![r] = s] /\ s.pc = "revoke_all"
      BY <2>2 DEF TypeInv, TypeOK, Slot
    <3> HIDE DEF s
    <3> QED
      BY <2>1, <3>1, SlotIsQuiet
  <2> QED
    BY <1>6, <2>1, <2>2, RespondIsQuiet DEF FindByHashAny
<1>7. ASSUME NEW r \in Request, RevokeAllForUser(r) PROVE Quiet
  BY <1>7, RespondIsQuiet DEF RevokeAllForUser
<1>8. ASSUME NEW r \in Request, IssueTokens(r) PROVE \E t \in Token : Mints(r, t)
  <2>1. PICK t \in FreshTokens :
          minted' = Insert(minted, t,
            [origin |-> req[r].cred, user |-> req[r].user, client |-> req[r].client,
             verifier |-> req[r].verifier, expires_at |-> now + RefreshTTL,
                      late |-> req[r].cred \in replayed])
    BY <1>8 DEF IssueTokens
  <2>2. req'[r].pc = "idle" /\ \A p \in Request \ {r} : req'[p] = req[p]
    <3>1. req'[r] = Idle /\ \A p \in Request \ {r} : req'[p] = req[p]
      BY <1>8, OthersSame DEF IssueTokens, Respond
    <3> QED
      BY <3>1 DEF Idle
  <2> QED
    BY <1>8, <2>1, <2>2 DEF Mints, IssueTokens, FreshTokens, Insert, Holding
<1>9. ASSUME NEW r \in Request, NEW u, NEW c, NEW v, Authorize(r, u, c, v) PROVE Quiet
  <2> DEFINE s == [Idle EXCEPT !.pc = "check_suspended", !.user = u, !.client = c,
                     !.verifier = v, !.barred = is_suspended[u]]
  <2>1. req' = [req EXCEPT ![r] = s] /\ s.pc = "check_suspended" /\ UNCHANGED minted
    BY <1>9 DEF Authorize, Idle, history
  <2> HIDE DEF s
  <2> QED
    BY <2>1, SlotIsQuiet
<1>10. ASSUME NEW r \in Request, NEW t, NEW c, InvalidClient(r, t, c) PROVE Quiet
  <2> DEFINE s == [Idle EXCEPT !.pc = "invalid_client", !.client = c, !.cred = t]
  <2>1. req' = [req EXCEPT ![r] = s] /\ s.pc = "invalid_client" /\ UNCHANGED minted
    BY <1>10 DEF InvalidClient, Idle, history
  <2> HIDE DEF s
  <2> QED
    BY <2>1, SlotIsQuiet
<1>11. ASSUME NEW r \in Request, NEW x \in delivered, NEW c, NEW m, NEW v,
              ExchangeCode(r, x, c, m, v)
       PROVE  Quiet \/ Claims(r, x)
  <2>1. UNCHANGED <<refresh_tokens, minted>>
    BY <1>11 DEF ExchangeCode, history
  <2>2. CASE UNCHANGED req
    BY <2>1, <2>2 DEF Quiet, Holding
  <2>3. ASSUME NEW s, req' = [req EXCEPT ![r] = s], s.cred = x PROVE Claims(r, x)
    <3>1. x \in Known /\ x \in DOMAIN authorization_codes /\ x \notin DOMAIN refresh_tokens
      BY Names DEF TypeInv, TypeOK, Known
    <3>2. ~Spent(x)
      BY <1>11, <3>1 DEF ExchangeCode, Exchangeable, Spent
    <3>3. authorization_codes[x] \in CodeRow
      BY <3>1 DEF TypeInv, TypeOK
    <3>4. authorization_codes'[x].used
      BY <1>11, <3>1, <3>3 DEF ExchangeCode, CodeRow
    <3> QED
      BY <2>1, <2>3, <3>1, <3>2, <3>4, OthersSame DEF Claims, Spent
  <2>4. CASE req' = [req EXCEPT ![r] =
                      [Idle EXCEPT !.pc = "read_challenge", !.cred = x,
                         !.user = authorization_codes[x].user, !.client = c,
                         !.verifier = v,
                         !.barred = is_suspended[authorization_codes[x].user]]]
    <3> DEFINE s == [Idle EXCEPT !.pc = "read_challenge", !.cred = x,
                         !.user = authorization_codes[x].user, !.client = c,
                         !.verifier = v,
                         !.barred = is_suspended[authorization_codes[x].user]]
    <3>1. req' = [req EXCEPT ![r] = s] /\ s.cred = x
      BY <2>4 DEF Idle
    <3> HIDE DEF s
    <3> QED
      BY <2>3, <3>1
  <2> QED
    BY <1>11, <2>2, <2>4 DEF ExchangeCode
<1>12. ASSUME NEW r \in Request, NEW t \in DOMAIN minted, NEW c, RotateRefreshToken(r, t, c)
       PROVE  Quiet \/ Claims(r, t)
  <2>1. UNCHANGED <<authorization_codes, minted>> /\ Revoke({t})
    BY <1>12 DEF RotateRefreshToken, history
  <2>2. CASE UNCHANGED req
    BY <2>1, <2>2 DEF Quiet, Holding
  <2>3. ASSUME NEW s, req' = [req EXCEPT ![r] = s], s.cred = t PROVE Claims(r, t)
    <3>1. t \in Known /\ t \notin DOMAIN authorization_codes /\ t \in DOMAIN refresh_tokens
      BY <1>12, Names DEF Known, RotateRefreshToken, Rotatable
    <3>2. ~Spent(t)
      BY <1>12, <3>1 DEF RotateRefreshToken, Rotatable, Spent
    <3>3. refresh_tokens'[t].revoked
      BY <2>1, <3>1, RevokeRows
    <3> QED
      BY <2>1, <2>3, <3>1, <3>2, <3>3, OthersSame DEF Claims, Spent
  <2>4. CASE req' = [req EXCEPT ![r] =
                      [Idle EXCEPT !.pc = "load_user", !.cred = t,
                         !.user = refresh_tokens[t].user, !.client = c,
                         !.barred = is_suspended[refresh_tokens[t].user]]]
    <3> DEFINE s == [Idle EXCEPT !.pc = "load_user", !.cred = t,
                         !.user = refresh_tokens[t].user, !.client = c,
                         !.barred = is_suspended[refresh_tokens[t].user]]
    <3>1. req' = [req EXCEPT ![r] = s] /\ s.cred = t
      BY <2>4 DEF Idle
    <3> HIDE DEF s
    <3> QED
      BY <2>3, <3>1
  <2> QED
    BY <1>12, <2>2, <2>4 DEF RotateRefreshToken
<1>13. ASSUME NEW r \in Request, NEW t, NEW c, RotateMiss(r, t, c) PROVE Quiet
  <2> DEFINE s == [Idle EXCEPT !.pc = "find_any", !.cred = t, !.client = c]
  <2>1. req' = [req EXCEPT ![r] = s] /\ s.pc = "find_any" /\ UNCHANGED minted
    BY <1>13 DEF RotateMiss, Idle, history
  <2> HIDE DEF s
  <2> QED
    BY <2>1, SlotIsQuiet
<1>14. ASSUME NEW r \in Request, NEW u, NEW p, Login(r, u, p) PROVE Quiet
  <2> DEFINE s == [Idle EXCEPT !.pc = "issue", !.user = u, !.client = p]
  <2>1. req' = [req EXCEPT ![r] = s] /\ s.pc = "issue" /\ s.cred = NULL /\ UNCHANGED minted
    BY <1>14 DEF Login, Idle, history
  <2> HIDE DEF s
  <2> QED
    BY <2>1, SlotIsQuiet
<1>15. ASSUME NEW u \in User, NEW b \in BOOLEAN, SetSuspended(u, b) PROVE Quiet
  <2>1. ASSUME NEW r \in Request PROVE req'[r].pc = req[r].pc /\ req'[r].cred = req[r].cred
    <3>1. req[r] \in Slot
      BY DEF TypeInv, TypeOK
    <3>2. req'[r] = req[r] \/ req'[r] = [req[r] EXCEPT !.barred = FALSE]
      BY <1>15 DEF SetSuspended
    <3> QED
      BY <3>1, <3>2 DEF Slot
  <2> QED
    BY <1>15, <2>1 DEF SetSuspended, Quiet, Holding, history
<1>16. ASSUME \/ \E t \in Token : Logout(t)
              \/ \E c \in OAuthClient : CreateClient(c)
              \/ RunCleanup \/ Tick \/ UNCHANGED vars
       PROVE  Quiet
  BY <1>16 DEF Logout, CreateClient, RunCleanup, Tick, vars, history, Quiet, Holding
<1>17. ASSUME NEW r \in Request, Handler(r) \/ Abort(r)
       PROVE  Quiet \/ Issues(r)
  BY <1>17, <1>1, <1>2, <1>3, <1>4, <1>5, <1>6, <1>7, <1>8 DEF Handler, Issues
<1>18. ASSUME NEW r \in Request, Arrival(r)
       PROVE  \/ Quiet
              \/ \E x \in delivered : Exchanges(r, x)
              \/ \E t \in DOMAIN minted : Rotates(r, t)
  BY <1>18, <1>9, <1>10, <1>11, <1>12, <1>13, <1>14 DEF Arrival, Exchanges, Rotates
<1> QED
  BY <1>15, <1>16, <1>17, <1>18 DEF Next

LEMMA StepKinds ==
  ASSUME TypeInv, [Next]_vars
  PROVE  \/ Quiet
         \/ \E r \in Request, x \in Credential : Claims(r, x)
         \/ \E r \in Request, t \in Token : Mints(r, t)
<1>1. DOMAIN minted \subseteq Token /\ delivered \subseteq Code
  BY DEF TypeInv, TypeOK
<1> QED
  BY <1>1, StepActions DEF Exchanges, Rotates, Issues, Credential

\* No statement deletes an authorization code.
LEMMA CodesStay ==
  ASSUME [Next]_vars
  PROVE  DOMAIN authorization_codes \subseteq DOMAIN authorization_codes'
<1>1. ASSUME NEW r \in Request, CreateCode(r)
      PROVE  DOMAIN authorization_codes \subseteq DOMAIN authorization_codes'
  BY <1>1 DEF CreateCode, Insert
<1>2. ASSUME NEW r \in Request, StoreChallenge(r)
      PROVE  DOMAIN authorization_codes \subseteq DOMAIN authorization_codes'
  BY <1>2 DEF StoreChallenge
<1>3. ASSUME NEW r \in Request, NEW x, NEW c, NEW m, NEW v, ExchangeCode(r, x, c, m, v)
      PROVE  DOMAIN authorization_codes \subseteq DOMAIN authorization_codes'
  BY <1>3 DEF ExchangeCode
<1>4. ASSUME NEW r \in Request, Handler(r) \/ Abort(r)
      PROVE  DOMAIN authorization_codes \subseteq DOMAIN authorization_codes'
  BY <1>1, <1>2, <1>4
  DEF Handler, CheckSuspended, RefuseClient, ReadChallenge, LoadUser, FindByHashAny,
      RevokeAllForUser, IssueTokens, OutOfNames, Abort, tables
<1>5. ASSUME NEW r \in Request, Arrival(r)
      PROVE  DOMAIN authorization_codes \subseteq DOMAIN authorization_codes'
  BY <1>3, <1>5
  DEF Arrival, Authorize, InvalidClient, RotateRefreshToken, RotateMiss, Login, tables
<1> QED
  BY <1>4, <1>5
  DEF Next, Logout, CreateClient, SetSuspended, RunCleanup, Tick, vars, tables

\* A spent credential stays spent: no statement clears used or revoked_at, and
\* the cleanup task deletes rows without bringing any back.
LEMMA SpentStays ==
  ASSUME TypeInv, [Next]_vars, NEW x \in Known, Spent(x)
  PROVE  Spent(x)'
<1> USE Names DEF Known
<1>1. ASSUME UNCHANGED <<authorization_codes, refresh_tokens>> PROVE Spent(x)'
  BY <1>1 DEF Spent
<1>2. ASSUME UNCHANGED authorization_codes, NEW S, Revoke(S) PROVE Spent(x)'
  BY <1>2, RevokeRows DEF Spent
<1>3. ASSUME NEW r \in Request, CreateCode(r) PROVE Spent(x)'
  <2>1. PICK y \in FreshCodes : \E row :
          authorization_codes' = Insert(authorization_codes, y, row)
    BY <1>3 DEF CreateCode
  <2> QED
    BY <1>3, <2>1 DEF CreateCode, Spent, Insert, FreshCodes
<1>4. ASSUME NEW r \in Request, StoreChallenge(r) PROVE Spent(x)'
  <2>1. \A y \in DOMAIN authorization_codes : authorization_codes[y] \in CodeRow
    BY DEF TypeInv, TypeOK
  <2>2. /\ DOMAIN authorization_codes' = DOMAIN authorization_codes
        /\ \A y \in DOMAIN authorization_codes :
             authorization_codes[y].used => authorization_codes'[y].used
    BY <1>4, <2>1 DEF StoreChallenge, CodeRow
  <2> QED
    BY <1>4, <2>2 DEF StoreChallenge, Spent
<1>5. ASSUME NEW r \in Request, IssueTokens(r) PROVE Spent(x)'
  <2>1. PICK t \in FreshTokens : \E row : refresh_tokens' = Insert(refresh_tokens, t, row)
    BY <1>5 DEF IssueTokens
  <2> QED
    BY <1>5, <2>1 DEF IssueTokens, Spent, Insert, FreshTokens
<1>6. ASSUME NEW r \in Request, NEW y \in delivered, NEW c, NEW m, NEW v,
             ExchangeCode(r, y, c, m, v)
      PROVE  Spent(x)'
  <2>1. \A z \in DOMAIN authorization_codes : authorization_codes[z] \in CodeRow
    BY DEF TypeInv, TypeOK
  <2>2. /\ DOMAIN authorization_codes' = DOMAIN authorization_codes
        /\ \A z \in DOMAIN authorization_codes :
             authorization_codes[z].used => authorization_codes'[z].used
    BY <1>6, <2>1 DEF ExchangeCode, CodeRow
  <2> QED
    BY <1>6, <2>2 DEF ExchangeCode, Spent
<1>7. CASE RunCleanup
  BY <1>7 DEF RunCleanup, Spent
<1>8. ASSUME NEW r \in Request, Handler(r) \/ Abort(r) PROVE Spent(x)'
  BY <1>8, <1>1, <1>2, <1>3, <1>4, <1>5
  DEF Handler, CheckSuspended, RefuseClient, ReadChallenge, LoadUser, FindByHashAny,
      RevokeAllForUser, OutOfNames, Abort, tables
<1>9. ASSUME NEW r \in Request, Arrival(r) PROVE Spent(x)'
  BY <1>9, <1>1, <1>2, <1>6
  DEF Arrival, Authorize, InvalidClient, RotateRefreshToken, RotateMiss, Login, tables
<1> QED
  BY <1>1, <1>2, <1>7, <1>8, <1>9
  DEF Next, Logout, CreateClient, SetSuspended, Tick, vars, tables

LEMMA InitUseInv == Init => UseInv
  BY DEF Init, UseInv, HeldIsSpent, HeldOnce, HeldIsChildless, OriginIsSpent, SingleUse,
         Holding, Idle

LEMMA NextUseInv == TypeInv /\ UseInv /\ [Next]_vars => UseInv'
<1> SUFFICES ASSUME TypeInv, UseInv, [Next]_vars PROVE UseInv'
  OBVIOUS
<1> USE DEF UseInv
<1>0. Known \subseteq Known' /\ \A x \in Known : Spent(x) => Spent(x)'
  <2>1. TypeInv'
    BY NextTypeInv
  <2>2. DOMAIN minted \subseteq DOMAIN minted'
    BY StepKinds DEF Quiet, Claims, Mints
  <2>3. DOMAIN authorization_codes \subseteq DOMAIN authorization_codes'
    BY CodesStay
  <2> QED
    BY <2>2, <2>3, SpentStays DEF Known
<1>1. CASE Quiet
  <2>1. HeldIsSpent'
    BY <1>0, <1>1, HeldIsKnown DEF Quiet, HeldIsSpent
  <2>2. HeldOnce'
    BY <1>1 DEF Quiet, HeldOnce
  <2>3. HeldIsChildless'
    BY <1>1 DEF Quiet, HeldIsChildless
  <2>4. OriginIsSpent' /\ SingleUse'
    BY <1>0, <1>1 DEF Quiet, OriginIsSpent, SingleUse
  <2> QED
    BY <2>1, <2>2, <2>3, <2>4
<1>2. ASSUME NEW r \in Request, NEW x \in Credential, Claims(r, x) PROVE UseInv'
  <2>0. \A p \in Request \ {r} : Holding(p)' => Holding(p) /\ req'[p].cred = req[p].cred
    BY <1>2 DEF Claims, Holding
  <2>1. HeldIsSpent'
    BY <1>0, <1>2, <2>0, HeldIsKnown DEF Claims, HeldIsSpent
  <2>2. HeldOnce'
    \* x was not spent, so no other handler held it.
    BY <1>2, <2>0 DEF Claims, HeldOnce, HeldIsSpent
  <2>3. HeldIsChildless'
    \* Nor had it a successor.
    BY <1>2, <2>0, Names DEF Claims, HeldIsChildless, OriginIsSpent, Known
  <2>4. OriginIsSpent' /\ SingleUse'
    BY <1>0, <1>2 DEF Claims, OriginIsSpent, SingleUse
  <2> QED
    BY <2>1, <2>2, <2>3, <2>4
<1>3. ASSUME NEW r \in Request, NEW t \in Token, Mints(r, t) PROVE UseInv'
  <2>0. \A p \in Request : Holding(p)' => p # r /\ Holding(p) /\ req'[p].cred = req[p].cred
    BY <1>3 DEF Mints, Holding
  <2>1. HeldIsSpent' /\ HeldOnce'
    BY <1>0, <1>3, <2>0, HeldIsKnown DEF HeldIsSpent, HeldOnce
  <2>2. req[r].cred # NULL => Holding(r)
    BY <1>3 DEF Mints, Holding
  <2>3. HeldIsChildless'
    BY <1>3, <2>0, <2>2, HeldIsKnown DEF Mints, HeldIsChildless, HeldOnce
  <2>4. OriginIsSpent'
    BY <1>0, <1>3, <2>2, HeldIsKnown DEF Mints, OriginIsSpent, HeldIsSpent
  <2>5. SingleUse'
    BY <1>3, <2>2 DEF Mints, SingleUse, HeldIsChildless
  <2> QED
    BY <2>1, <2>3, <2>4, <2>5
<1> QED
  BY <1>1, <1>2, <1>3, StepKinds

\* Of all the requests that present one authorization code or one refresh
\* token, however they interleave, fail or are retried, at most one obtains a
\* new refresh token for it.
THEOREM SingleUseHolds == Spec => []SingleUse
<1>1. Spec => []TypeInv
  BY InitTypeInv, NextTypeInv, PTL DEF Spec
<1>2. Init => UseInv
  BY InitUseInv
<1>3. TypeInv /\ UseInv /\ [Next]_vars => UseInv'
  BY NextUseInv
<1>4. UseInv => SingleUse
  BY DEF UseInv
<1> QED
  BY <1>1, <1>2, <1>3, <1>4, PTL DEF Spec

-----------------------------------------------------------------------------
(* The refinement.  A step grants, claims or mints a credential, or only    *)
(* takes some away; each is a step of CredentialLedger.                     *)

Good(x) == Exchangeable(x) \/ Rotatable(x)

\* What is claimed or good is issued, and what is claimed is not good.
Apart == \A x \in Credential :
  /\ Claimed(x) => Issued(x) /\ ~Good(x)
  /\ Good(x) => Issued(x)

\* The four states of the ledger, from what is issued, claimed and good.
LEMMA StatusNow ==
  ASSUME Apart, NEW x \in Credential
  PROVE  /\ ~Issued(x) => LedgerStatus[x] = "fresh"
         /\ Claimed(x) => LedgerStatus[x] = "claimed"
         /\ Good(x) => LedgerStatus[x] = "live"
         /\ Issued(x) /\ ~Claimed(x) /\ ~Good(x) => LedgerStatus[x] = "spent"
<1>0. (Claimed(x) => Issued(x) /\ ~Good(x)) /\ (Good(x) => Issued(x))
  BY DEF Apart
<1>1. ASSUME ~Issued(x), ~Claimed(x), ~Good(x) PROVE LedgerStatus[x] = "fresh"
  BY <1>1 DEF LedgerStatus, Good
<1>2. ASSUME Issued(x), Claimed(x), ~Good(x) PROVE LedgerStatus[x] = "claimed"
  BY <1>2 DEF LedgerStatus, Good
<1>3. ASSUME Issued(x), ~Claimed(x), Good(x) PROVE LedgerStatus[x] = "live"
  BY <1>3 DEF LedgerStatus, Good
<1>4. ASSUME Issued(x), ~Claimed(x), ~Good(x) PROVE LedgerStatus[x] = "spent"
  BY <1>4 DEF LedgerStatus, Good
<1> QED
  BY <1>0, <1>1, <1>2, <1>3, <1>4

LEMMA StatusNext ==
  ASSUME Apart', NEW x \in Credential
  PROVE  /\ ~Issued(x)' => LedgerStatus'[x] = "fresh"
         /\ Claimed(x)' => LedgerStatus'[x] = "claimed"
         /\ Good(x)' => LedgerStatus'[x] = "live"
         /\ Issued(x)' /\ ~Claimed(x)' /\ ~Good(x)' => LedgerStatus'[x] = "spent"
<1>0. (Claimed(x)' => Issued(x)' /\ ~Good(x)') /\ (Good(x)' => Issued(x)')
  BY DEF Apart
<1>1. ASSUME ~Issued(x)', ~Claimed(x)', ~Good(x)' PROVE LedgerStatus'[x] = "fresh"
  BY <1>1 DEF LedgerStatus, Good
<1>2. ASSUME Issued(x)', Claimed(x)', ~Good(x)' PROVE LedgerStatus'[x] = "claimed"
  BY <1>2 DEF LedgerStatus, Good
<1>3. ASSUME Issued(x)', ~Claimed(x)', Good(x)' PROVE LedgerStatus'[x] = "live"
  BY <1>3 DEF LedgerStatus, Good
<1>4. ASSUME Issued(x)', ~Claimed(x)', ~Good(x)' PROVE LedgerStatus'[x] = "spent"
  BY <1>4 DEF LedgerStatus, Good
<1> QED
  BY <1>0, <1>1, <1>2, <1>3, <1>4

LEMMA StatusRange ==
  /\ LedgerStatus = [x \in Credential |-> LedgerStatus[x]]
  /\ LedgerStatus' = [x \in Credential |-> LedgerStatus'[x]]
  BY DEF LedgerStatus

LEMMA OriginRange ==
  /\ LedgerOrigin = [x \in Credential |-> LedgerOrigin[x]]
  /\ LedgerOrigin' = [x \in Credential |-> LedgerOrigin'[x]]
  /\ UNCHANGED minted => UNCHANGED LedgerOrigin
  BY DEF LedgerOrigin

\* To be claimed is to be held by a handler.
LEMMA ClaimedNow ==
  ASSUME NEW x \in Credential
  PROVE  /\ Claimed(x) <=> \E r \in Request : Holding(r) /\ req[r].cred = x
         /\ Claimed(x)' <=> \E r \in Request : Holding(r)' /\ req'[r].cred = x
  BY DisjointAssumption DEF Claimed, Holding

LEMMA ApartHolds == TypeInv /\ UseInv => Apart
<1> SUFFICES ASSUME TypeInv, UseInv, NEW x \in Credential
             PROVE  /\ Claimed(x) => Issued(x) /\ ~Good(x)
                    /\ Good(x) => Issued(x)
  BY DEF Apart
<1>1. Good(x) => Issued(x) /\ ~Spent(x)
  BY Names DEF Good, Exchangeable, Rotatable, Issued, Spent
<1>2. ASSUME Claimed(x) PROVE Issued(x) /\ Spent(x)
  <2>1. PICK r \in Request : Holding(r) /\ req[r].cred = x
    BY <1>2, ClaimedNow
  <2> QED
    BY <2>1, HeldIsKnown DEF UseInv, HeldIsSpent, Known, Issued
<1> QED
  BY <1>1, <1>2

-----------------------------------------------------------------------------
(* The four kinds of steps, and the action of the ledger each is.           *)

\* Nothing happens to x.
Same(x) ==
  (Issued(x)' <=> Issued(x)) /\ (Claimed(x)' <=> Claimed(x)) /\ (Good(x)' <=> Good(x))

\* Credentials are dropped: spent without a holder, expired, given up.
Decays ==
  /\ UNCHANGED minted
  /\ \A x \in Credential :
       (Issued(x)' <=> Issued(x)) /\ (Claimed(x)' => Claimed(x)) /\ (Good(x)' => Good(x))
\* x appears, with no predecessor.
Grants(x) ==
  /\ UNCHANGED LedgerOrigin
  /\ ~Issued(x)
  /\ Issued(x)' /\ ~Claimed(x)' /\ Good(x)'
  /\ \A y \in Credential \ {x} : Same(y)
\* A handler wins x.
Takes(x) ==
  /\ UNCHANGED minted
  /\ Issued(x) /\ ~Claimed(x) /\ Good(x)
  /\ Issued(x)' /\ Claimed(x)'
  /\ \A y \in Credential \ {x} : Same(y)
\* The holder of x mints t.
Succeeds(x, t) ==
  /\ LedgerOrigin' = [LedgerOrigin EXCEPT ![t] = x]
  /\ Issued(x) /\ Claimed(x) /\ ~Issued(t)
  /\ Issued(x)' /\ ~Claimed(x)' /\ ~Good(x)'
  /\ Issued(t)' /\ ~Claimed(t)' /\ Good(t)'
  /\ \A y \in Credential \ {x, t} : Same(y)

LEMMA SameStatus ==
  ASSUME Apart, Apart', NEW x \in Credential, Same(x)
  PROVE  LedgerStatus'[x] = LedgerStatus[x]
  BY StatusNow, StatusNext DEF Same

LEMMA DecaysStep ==
  ASSUME Apart, Apart', Decays
  PROVE  [Ledger!Next]_(Ledger!ledgerVars)
<1> DEFINE S == {x \in Credential : LedgerStatus'[x] # LedgerStatus[x]}
<1>1. UNCHANGED LedgerOrigin
  BY OriginRange DEF Decays
<1>2. ASSUME NEW x \in S
      PROVE  LedgerStatus[x] \in {"live", "claimed"} /\ LedgerStatus'[x] = "spent"
  <2>1. /\ Issued(x)' <=> Issued(x)
        /\ Claimed(x)' => Claimed(x)
        /\ Good(x)' => Good(x)
        /\ Claimed(x) => ~Good(x)
    BY DEF Decays, Apart
  <2> QED
    BY <2>1, StatusNow, StatusNext
<1>3. LedgerStatus' = [x \in Credential |-> IF x \in S THEN "spent" ELSE LedgerStatus[x]]
  <2>1. \A x \in Credential : LedgerStatus'[x] = IF x \in S THEN "spent" ELSE LedgerStatus[x]
    BY <1>2
  <2> QED
    BY <2>1, StatusRange
<1>4. CASE S = {}
  <2>1. LedgerStatus' = LedgerStatus
    BY <1>4, StatusRange
  <2> QED
    BY <1>1, <2>1 DEF Ledger!ledgerVars
<1>5. CASE S # {}
  <2>1. S \in SUBSET Ledger!Droppable
    BY <1>2 DEF Ledger!Droppable
  <2>2. Ledger!Drop(S)
    BY <1>1, <1>3, <1>5 DEF Ledger!Drop
  <2> QED
    BY <2>1, <2>2 DEF Ledger!Next
<1> QED
  BY <1>4, <1>5

\* The status of all credentials but one stays.
LEMMA OneStatus ==
  ASSUME Apart, Apart', NEW x \in Credential, \A y \in Credential \ {x} : Same(y)
  PROVE  LedgerStatus' = [LedgerStatus EXCEPT ![x] = LedgerStatus'[x]]
<1>1. \A y \in Credential \ {x} : LedgerStatus'[y] = LedgerStatus[y]
  BY SameStatus
<1> QED
  BY <1>1, StatusRange

LEMMA GrantsStep ==
  ASSUME Apart, Apart', NEW x \in Credential, Grants(x)
  PROVE  [Ledger!Next]_(Ledger!ledgerVars)
<1>1. LedgerStatus[x] = "fresh" /\ LedgerStatus'[x] = "live"
  BY StatusNow, StatusNext DEF Grants
<1>2. Ledger!Grant(x)
  BY <1>1, OneStatus DEF Grants, Ledger!Grant
<1> QED
  BY <1>2 DEF Ledger!Next

LEMMA TakesStep ==
  ASSUME Apart, Apart', NEW x \in Credential, Takes(x)
  PROVE  [Ledger!Next]_(Ledger!ledgerVars)
<1>1. LedgerStatus[x] = "live" /\ LedgerStatus'[x] = "claimed"
  BY StatusNow, StatusNext DEF Takes
<1>2. Ledger!Claim(x)
  BY <1>1, OneStatus, OriginRange DEF Takes, Ledger!Claim
<1> QED
  BY <1>2 DEF Ledger!Next

LEMMA SucceedsStep ==
  ASSUME Apart, Apart', NEW x \in Credential, NEW t \in Credential, Succeeds(x, t)
  PROVE  [Ledger!Next]_(Ledger!ledgerVars)
<1>1. /\ LedgerStatus[x] = "claimed" /\ LedgerStatus'[x] = "spent"
      /\ LedgerStatus[t] = "fresh" /\ LedgerStatus'[t] = "live"
  BY StatusNow, StatusNext DEF Succeeds
<1>2. \A y \in Credential \ {x, t} : LedgerStatus'[y] = LedgerStatus[y]
  BY SameStatus DEF Succeeds
<1>3. LedgerStatus' = [LedgerStatus EXCEPT ![x] = "spent", ![t] = "live"]
  BY <1>1, <1>2, StatusRange
<1>4. Ledger!Mint(x, t)
  BY <1>1, <1>3 DEF Succeeds, Ledger!Mint
<1> QED
  BY <1>4 DEF Ledger!Next

-----------------------------------------------------------------------------
(* What the statements do to what is good.                                  *)

LEMMA RevokeGood ==
  ASSUME TypeInv, NEW S, Revoke(S), UNCHANGED <<authorization_codes, now>>, NEW x
  PROVE  /\ Good(x)' => Good(x)
         /\ x \in S => ~Rotatable(x)'
         /\ x \notin S => (Good(x)' <=> Good(x))
  BY RevokeRows DEF Good, Exchangeable, Rotatable

LEMMA CreateCodeGood ==
  ASSUME TypeInv, NEW r \in Request, CreateCode(r)
  PROVE  \E x \in FreshCodes :
           /\ DOMAIN authorization_codes' = DOMAIN authorization_codes \cup {x}
           /\ Good(x)'
           /\ \A y : y # x => (Good(y)' <=> Good(y))
<1>1. PICK x \in FreshCodes :
        authorization_codes' = Insert(authorization_codes, x,
          [user |-> req[r].user, client |-> req[r].client, challenge |-> NULL,
           used |-> FALSE, expires_at |-> now + CodeTTL])
  BY DEF CreateCode
<1>2. UNCHANGED <<refresh_tokens, now>> /\ now \in Nat /\ CodeTTL \in Nat \ {0}
  BY TTLAssumption DEF CreateCode, TypeInv, TypeOK
<1>3. /\ DOMAIN authorization_codes' = DOMAIN authorization_codes \cup {x}
      /\ authorization_codes'[x].used = FALSE
      /\ authorization_codes'[x].expires_at = now + CodeTTL
      /\ \A y \in DOMAIN authorization_codes \ {x} :
           authorization_codes'[y] = authorization_codes[y]
  BY <1>1 DEF Insert
<1>4. Good(x)'
  BY <1>2, <1>3 DEF Good, Exchangeable
<1>5. \A y : y # x => (Good(y)' <=> Good(y))
  BY <1>2, <1>3 DEF Good, Exchangeable, Rotatable
<1> QED
  BY <1>3, <1>4, <1>5

LEMMA StoreChallengeGood ==
  ASSUME TypeInv, NEW r \in Request, StoreChallenge(r), NEW x
  PROVE  Good(x)' <=> Good(x)
<1>1. UNCHANGED <<refresh_tokens, now>>
  BY DEF StoreChallenge
<1>2. DOMAIN authorization_codes' = DOMAIN authorization_codes
  BY DEF StoreChallenge
<1>3. \A y \in DOMAIN authorization_codes :
        /\ authorization_codes'[y].used = authorization_codes[y].used
        /\ authorization_codes'[y].expires_at = authorization_codes[y].expires_at
  <2>1. \A y \in DOMAIN authorization_codes : authorization_codes[y] \in CodeRow
    BY DEF TypeInv, TypeOK
  <2>2. \A y \in DOMAIN authorization_codes :
          \/ authorization_codes'[y] = authorization_codes[y]
          \/ authorization_codes'[y]
               = [authorization_codes[y] EXCEPT !.challenge = req[r].verifier]
    BY DEF StoreChallenge
  <2> QED
    BY <2>1, <2>2 DEF CodeRow
<1> QED
  BY <1>1, <1>2, <1>3 DEF Good, Exchangeable, Rotatable

LEMMA ExchangeCodeGood ==
  ASSUME TypeInv, NEW r \in Request, NEW x \in delivered, NEW c, NEW m, NEW v,
         ExchangeCode(r, x, c, m, v)
  PROVE  /\ \A y : Good(y)' => Good(y)
         /\ \A y : y # x => (Good(y)' <=> Good(y))
<1>1. /\ authorization_codes' = [authorization_codes EXCEPT ![x].used = TRUE]
      /\ UNCHANGED <<refresh_tokens, now>>
  BY DEF ExchangeCode
<1>2. x \in DOMAIN authorization_codes /\ authorization_codes[x] \in CodeRow
  BY DEF TypeInv, TypeOK
<1>3. /\ DOMAIN authorization_codes' = DOMAIN authorization_codes
      /\ \A y \in DOMAIN authorization_codes \ {x} :
           authorization_codes'[y] = authorization_codes[y]
      /\ authorization_codes'[x] = [authorization_codes[x] EXCEPT !.used = TRUE]
  BY <1>1, <1>2
<1>4. authorization_codes'[x].used = TRUE
  BY <1>2, <1>3 DEF CodeRow
<1> QED
  BY <1>1, <1>2, <1>3, <1>4 DEF Good, Exchangeable, Rotatable

LEMMA IssueTokensGood ==
  ASSUME TypeInv, NEW r \in Request, IssueTokens(r)
  PROVE  \E t \in FreshTokens :
           /\ minted' = Insert(minted, t,
                [origin |-> req[r].cred, user |-> req[r].user, client |-> req[r].client,
                 verifier |-> req[r].verifier, expires_at |-> now + RefreshTTL,
                 late |-> req[r].cred \in replayed])
           /\ Good(t)'
           /\ \A y : y # t => (Good(y)' <=> Good(y))
<1>1. PICK t \in FreshTokens :
        /\ refresh_tokens' = Insert(refresh_tokens, t,
             [user |-> req[r].user, client |-> req[r].client,
              expires_at |-> now + RefreshTTL, revoked |-> FALSE])
        /\ minted' = Insert(minted, t,
             [origin |-> req[r].cred, user |-> req[r].user, client |-> req[r].client,
              verifier |-> req[r].verifier, expires_at |-> now + RefreshTTL,
              late |-> req[r].cred \in replayed])
  BY DEF IssueTokens
<1>2. UNCHANGED <<authorization_codes, now>> /\ now \in Nat /\ RefreshTTL \in Nat \ {0}
  BY TTLAssumption DEF IssueTokens, TypeInv, TypeOK
<1>3. /\ DOMAIN refresh_tokens' = DOMAIN refresh_tokens \cup {t}
      /\ refresh_tokens'[t].revoked = FALSE
      /\ refresh_tokens'[t].expires_at = now + RefreshTTL
      /\ \A y \in DOMAIN refresh_tokens \ {t} : refresh_tokens'[y] = refresh_tokens[y]
  BY <1>1 DEF Insert
<1>4. Good(t)'
  BY <1>2, <1>3 DEF Good, Rotatable
<1>5. \A y : y # t => (Good(y)' <=> Good(y))
  BY <1>2, <1>3 DEF Good, Exchangeable, Rotatable
<1> QED
  BY <1>1, <1>4, <1>5

\* What is good fades, and no step makes an issued credential good again.
LEMMA GoodFades ==
  ASSUME TypeInv, [Next]_vars, NEW x \in Known, Good(x)'
  PROVE  Good(x)
<1>1. ASSUME UNCHANGED <<authorization_codes, refresh_tokens, now>> PROVE Good(x)
  BY <1>1 DEF Good, Exchangeable, Rotatable
<1>2. ASSUME UNCHANGED <<authorization_codes, now>>, NEW S, Revoke(S) PROVE Good(x)
  BY <1>2, RevokeGood
<1>3. ASSUME NEW r \in Request, CreateCode(r) PROVE Good(x)
  BY <1>3, CreateCodeGood, Names DEF FreshCodes, Known
<1>4. ASSUME NEW r \in Request, IssueTokens(r) PROVE Good(x)
  BY <1>4, IssueTokensGood, Names DEF FreshTokens, Known
<1>5. CASE RunCleanup
  <2>1. UNCHANGED <<authorization_codes, now>>
    BY <1>5 DEF RunCleanup
  <2>2. /\ DOMAIN refresh_tokens' \subseteq DOMAIN refresh_tokens
        /\ \A t \in DOMAIN refresh_tokens' : refresh_tokens'[t] = refresh_tokens[t]
    BY <1>5 DEF RunCleanup
  <2> QED
    BY <2>1, <2>2 DEF Good, Exchangeable, Rotatable
<1>6. CASE Tick
  <2>1. /\ UNCHANGED <<authorization_codes, refresh_tokens>>
        /\ now' = now + 1 /\ now \in Nat
        /\ \A y \in DOMAIN authorization_codes : authorization_codes[y].expires_at \in Nat
        /\ \A t \in DOMAIN refresh_tokens : refresh_tokens[t].expires_at \in Nat
    BY <1>6 DEF Tick, tables, TypeInv, TypeOK, CodeRow, TokenRow
  <2> QED
    BY <2>1 DEF Good, Exchangeable, Rotatable
<1>7. ASSUME NEW r \in Request, Handler(r) \/ Abort(r) PROVE Good(x)
  BY <1>7, <1>1, <1>2, <1>3, <1>4, StoreChallengeGood
  DEF Handler, CheckSuspended, RefuseClient, ReadChallenge, LoadUser, FindByHashAny,
      RevokeAllForUser, OutOfNames, Abort, tables
<1>8. ASSUME NEW r \in Request, Arrival(r) PROVE Good(x)
  BY <1>8, <1>1, <1>2, ExchangeCodeGood
  DEF Arrival, Authorize, InvalidClient, RotateRefreshToken, RotateMiss, Login, tables
<1> QED
  BY <1>1, <1>2, <1>5, <1>6, <1>7, <1>8
  DEF Next, Logout, CreateClient, SetSuspended, vars, tables

\* Only CreateCode stores a code.
LEMMA NewCodes ==
  ASSUME TypeInv, [Next]_vars, ~\E r \in Request : CreateCode(r)
  PROVE  DOMAIN authorization_codes' = DOMAIN authorization_codes
<1>1. ASSUME NEW r \in Request, StoreChallenge(r)
      PROVE  DOMAIN authorization_codes' = DOMAIN authorization_codes
  BY <1>1 DEF StoreChallenge
<1>2. ASSUME NEW r \in Request, NEW x, NEW c, NEW m, NEW v, ExchangeCode(r, x, c, m, v)
      PROVE  DOMAIN authorization_codes' = DOMAIN authorization_codes
  BY <1>2 DEF ExchangeCode
<1>3. ASSUME NEW r \in Request, Handler(r) \/ Abort(r)
      PROVE  DOMAIN authorization_codes' = DOMAIN authorization_codes
  BY <1>1, <1>3
  DEF Handler, CheckSuspended, RefuseClient, ReadChallenge, LoadUser, FindByHashAny,
      RevokeAllForUser, IssueTokens, OutOfNames, Abort, tables
<1>4. ASSUME NEW r \in Request, Arrival(r)
      PROVE  DOMAIN authorization_codes' = DOMAIN authorization_codes
  BY <1>2, <1>4
  DEF Arrival, Authorize, InvalidClient, RotateRefreshToken, RotateMiss, Login, tables
<1> QED
  BY <1>3, <1>4
  DEF Next, Logout, CreateClient, SetSuspended, RunCleanup, Tick, vars, tables

-----------------------------------------------------------------------------
(* Which statements are which kind.                                         *)

\* A step that neither wins a credential nor mints one can only drop some.
LEMMA QuietDecays ==
  ASSUME TypeInv, Apart', [Next]_vars, Quiet,
         DOMAIN authorization_codes' = DOMAIN authorization_codes
  PROVE  Decays
<1>1. ASSUME NEW x \in Credential
      PROVE  (Issued(x)' <=> Issued(x)) /\ (Claimed(x)' => Claimed(x)) /\ (Good(x)' => Good(x))
  <2>1. Issued(x)' <=> Issued(x)
    BY DEF Quiet, Issued
  <2>2. Claimed(x)' => Claimed(x)
    BY ClaimedNow DEF Quiet
  <2>3. Good(x)' => x \in Known
    BY <2>1 DEF Apart, Issued, Known
  <2> QED
    BY <2>1, <2>2, <2>3, GoodFades
<1> QED
  BY <1>1 DEF Decays, Quiet

LEMMA CreateCodeGrants ==
  ASSUME TypeInv, Apart, NEW r \in Request, CreateCode(r)
  PROVE  \E x \in Credential : Grants(x)
<1>1. PICK x \in FreshCodes :
        /\ DOMAIN authorization_codes' = DOMAIN authorization_codes \cup {x}
        /\ Good(x)'
        /\ \A y : y # x => (Good(y)' <=> Good(y))
  BY CreateCodeGood
<1>2. UNCHANGED minted
  BY DEF CreateCode
<1>3. x \in Credential /\ ~Issued(x) /\ Issued(x)' /\ \A y : y # x => (Issued(y)' <=> Issued(y))
  BY <1>1, <1>2, Names DEF FreshCodes, Issued, Credential
<1>4. ~Holding(r) /\ ~Holding(r)'
  <2>1. req'[r].pc \in {"idle", "store_challenge"}
    BY RespondSlot DEF CreateCode, Idle, TypeInv, TypeOK, Slot
  <2> QED
    BY <2>1 DEF CreateCode, At, Holding
<1>5. \A p \in Request \ {r} : req'[p] = req[p]
  BY DEF CreateCode, Respond, TypeInv, TypeOK
<1>6. \A y \in Credential : Claimed(y)' <=> Claimed(y)
  BY <1>4, <1>5, ClaimedNow DEF Holding
<1>7. ~Claimed(x)'
  BY <1>3, <1>6 DEF Apart
<1> QED
  BY <1>1, <1>2, <1>3, <1>6, <1>7, OriginRange DEF Grants, Same

\* A request that wins a credential takes it from live to claimed.
LEMMA WinTakes ==
  ASSUME TypeInv, UseInv, NEW r \in Request, NEW x \in Credential, Claims(r, x),
         At(r, "idle"), Holding(r)', DOMAIN authorization_codes' = DOMAIN authorization_codes,
         Good(x), \A y : y # x => (Good(y)' <=> Good(y))
  PROVE  Takes(x)
<1>1. ~Claimed(x)
  BY ApartHolds DEF Apart
<1>2. Claimed(x)'
  BY ClaimedNow DEF Claims
<1>3. \A y \in Credential : Issued(y)' <=> Issued(y)
  BY DEF Claims, Issued
<1>4. \A y \in Credential \ {x} : Claimed(y)' <=> Claimed(y)
  BY ClaimedNow DEF Claims, Holding, At
<1>5. Issued(x)
  BY DEF Claims, Known, Issued
<1> QED
  BY <1>1, <1>2, <1>3, <1>4, <1>5 DEF Takes, Same, Claims

LEMMA ExchangesTakes ==
  ASSUME TypeInv, UseInv, Apart', [Next]_vars,
         NEW r \in Request, NEW x \in delivered, Exchanges(r, x)
  PROVE  Decays \/ Takes(x)
<1>1. PICK c \in Client, m \in BOOLEAN, v \in Verifier \cup {NULL} : ExchangeCode(r, x, c, m, v)
  BY DEF Exchanges
<1>2. DOMAIN authorization_codes' = DOMAIN authorization_codes /\ UNCHANGED minted
  BY <1>1 DEF ExchangeCode, history
<1>3. CASE UNCHANGED req
  BY <1>2, <1>3, QuietDecays DEF Quiet, Holding
<1>4. CASE req' = [req EXCEPT ![r] = [Idle EXCEPT !.pc = "read_challenge", !.cred = x,
                     !.user = authorization_codes[x].user, !.client = c, !.verifier = v,
                     !.barred = is_suspended[authorization_codes[x].user]]]
  <2> DEFINE s == [Idle EXCEPT !.pc = "read_challenge", !.cred = x,
                     !.user = authorization_codes[x].user, !.client = c, !.verifier = v,
                     !.barred = is_suspended[authorization_codes[x].user]]
  <2>1. s.pc = "read_challenge" /\ req' = [req EXCEPT ![r] = s]
    BY <1>4 DEF Idle
  <2> HIDE DEF s
  <2>2. Holding(r)'
    BY <2>1, OthersSame DEF Holding
  <2>3. At(r, "idle") /\ Good(x)
    BY <1>1 DEF ExchangeCode, Good
  <2>4. x \in Credential
    BY Names DEF TypeInv, TypeOK, Credential
  <2>5. \A y : y # x => (Good(y)' <=> Good(y))
    BY <1>1, ExchangeCodeGood
  <2> QED
    BY <1>2, <2>2, <2>3, <2>4, <2>5, WinTakes DEF Exchanges
<1> QED
  BY <1>1, <1>3, <1>4 DEF ExchangeCode

LEMMA RotatesTakes ==
  ASSUME TypeInv, UseInv, Apart', [Next]_vars,
         NEW r \in Request, NEW t \in DOMAIN minted, Rotates(r, t)
  PROVE  Decays \/ Takes(t)
<1>1. PICK c \in Client : RotateRefreshToken(r, t, c)
  BY DEF Rotates
<1>2. UNCHANGED <<authorization_codes, now, minted>> /\ Revoke({t})
  BY <1>1 DEF RotateRefreshToken, history
<1>3. CASE UNCHANGED req
  BY <1>2, <1>3, QuietDecays DEF Quiet, Holding
<1>4. CASE req' = [req EXCEPT ![r] =
             [Idle EXCEPT !.pc = "load_user", !.cred = t, !.user = refresh_tokens[t].user,
                !.client = c, !.barred = is_suspended[refresh_tokens[t].user]]]
  <2> DEFINE s == [Idle EXCEPT !.pc = "load_user", !.cred = t, !.user = refresh_tokens[t].user,
                     !.client = c, !.barred = is_suspended[refresh_tokens[t].user]]
  <2>1. s.pc = "load_user" /\ req' = [req EXCEPT ![r] = s]
    BY <1>4 DEF Idle
  <2> HIDE DEF s
  <2>2. Holding(r)'
    BY <2>1, OthersSame DEF Holding
  <2>3. At(r, "idle") /\ Good(t)
    BY <1>1 DEF RotateRefreshToken, Good
  <2>4. t \in Credential
    BY Names DEF Credential
  <2>5. \A y : y # t => (Good(y)' <=> Good(y))
    BY <1>2, RevokeGood
  <2> QED
    BY <1>2, <2>2, <2>3, <2>4, <2>5, WinTakes DEF Rotates
<1> QED
  BY <1>1, <1>3, <1>4 DEF RotateRefreshToken

\* A new token is a grant after a login, and otherwise the one successor of
\* the credential its handler holds, which no other handler holds.
LEMMA IssuesSucceeds ==
  ASSUME TypeInv, UseInv, Apart, NEW r \in Request, IssueTokens(r)
  PROVE  \E t \in Credential : Grants(t) \/ \E x \in Credential : Succeeds(x, t)
<1>0. PICK x : x = req[r].cred
  OBVIOUS
<1>1. PICK t \in FreshTokens :
        /\ minted' = Insert(minted, t,
             [origin |-> x, user |-> req[r].user, client |-> req[r].client,
              verifier |-> req[r].verifier, expires_at |-> now + RefreshTTL,
              late |-> x \in replayed])
        /\ Good(t)'
        /\ \A y : y # t => (Good(y)' <=> Good(y))
  BY <1>0, IssueTokensGood
<1>2. /\ UNCHANGED authorization_codes
      /\ req[r].pc = "issue"
      /\ req'[r].pc = "idle" /\ \A p \in Request \ {r} : req'[p] = req[p]
  <2>1. Idle.pc = "idle"
    BY DEF Idle
  <2> QED
    BY <2>1, OthersSame DEF IssueTokens, At, Respond
<1>3. /\ DOMAIN minted' = DOMAIN minted \cup {t}
      /\ minted'[t].origin = x
      /\ \A y \in DOMAIN minted : minted'[y] = minted[y]
      /\ t \notin DOMAIN minted
  BY <1>1 DEF Insert, FreshTokens
<1>4. t \in Credential /\ ~Issued(t) /\ Issued(t)' /\ \A y : y # t => (Issued(y)' <=> Issued(y))
  BY <1>1, <1>2, <1>3, Names DEF FreshTokens, Issued, Credential
<1>5. \A y \in Credential \ {x} : Claimed(y)' <=> Claimed(y)
  BY <1>0, <1>2, ClaimedNow DEF Holding
<1>6. ~Claimed(t)
  BY <1>4 DEF Apart
<1>7. \A y \in Credential : LedgerOrigin'[y] = IF y = t THEN x ELSE LedgerOrigin[y]
  BY <1>3 DEF LedgerOrigin
<1>8. CASE x = NULL
  <2>1. LedgerOrigin[t] = NULL
    BY <1>3, <1>4 DEF LedgerOrigin
  <2>2. UNCHANGED LedgerOrigin
    BY <1>7, <1>8, <2>1, OriginRange
  <2>3. \A y \in Credential : Claimed(y)' <=> Claimed(y)
    BY <1>5, <1>8, DisjointAssumption
  <2>4. Grants(t)
    BY <1>1, <1>4, <1>6, <2>2, <2>3 DEF Grants, Same
  <2> QED
    BY <1>4, <2>4
<1>9. CASE x # NULL
  <2>1. Holding(r) /\ req[r].cred = x
    BY <1>0, <1>2, <1>9 DEF Holding
  <2>2. x \in Credential /\ Issued(x) /\ x # t
    BY <1>4, <2>1, HeldIsKnown, Names DEF Known, Issued, Credential
  <2>3. Claimed(x) /\ ~Good(x)
    BY <2>1, <2>2, ClaimedNow DEF Apart
  <2>4. ~Claimed(x)'
    BY <1>2, <2>1, <2>2, ClaimedNow DEF UseInv, HeldOnce, Holding
  <2>5. ~Good(x)' /\ Issued(x)' /\ ~Claimed(t)'
    BY <1>1, <1>4, <1>5, <1>6, <2>2, <2>3
  <2>6. LedgerOrigin' = [LedgerOrigin EXCEPT ![t] = x]
    BY <1>7, OriginRange
  <2>7. Succeeds(x, t)
    BY <1>1, <1>4, <1>5, <2>2, <2>3, <2>4, <2>5, <2>6 DEF Succeeds, Same
  <2> QED
    BY <1>4, <2>2, <2>7
<1> QED
  BY <1>8, <1>9

LEMMA LedgerNext ==
  TypeInv /\ UseInv /\ Apart /\ Apart' /\ [Next]_vars => [Ledger!Next]_(Ledger!ledgerVars)
<1> SUFFICES ASSUME TypeInv, UseInv, Apart, Apart', [Next]_vars
             PROVE  [Ledger!Next]_(Ledger!ledgerVars)
  OBVIOUS
<1>1. DOMAIN minted \subseteq Credential /\ delivered \subseteq Credential
  BY Names DEF TypeInv, TypeOK, Credential
<1>2. \/ Decays
      \/ \E x \in Credential : Grants(x) \/ Takes(x)
      \/ \E x, t \in Credential : Succeeds(x, t)
  <2>1. CASE \E r \in Request : CreateCode(r)
    BY <2>1, CreateCodeGrants
  <2>2. CASE Quiet /\ ~\E r \in Request : CreateCode(r)
    BY <2>2, NewCodes, QuietDecays
  <2>3. ASSUME NEW r \in Request, NEW x \in delivered, Exchanges(r, x) PROVE Decays \/ Takes(x)
    BY <2>3, ExchangesTakes
  <2>4. ASSUME NEW r \in Request, NEW t \in DOMAIN minted, Rotates(r, t)
        PROVE  Decays \/ Takes(t)
    BY <2>4, RotatesTakes
  <2>5. ASSUME NEW r \in Request, Issues(r)
        PROVE  \E t \in Credential : Grants(t) \/ \E x \in Credential : Succeeds(x, t)
    BY <2>5, IssuesSucceeds DEF Issues
  <2> QED
    BY <1>1, <2>1, <2>2, <2>3, <2>4, <2>5, StepActions
<1> QED
  BY <1>2, DecaysStep, GrantsStep, TakesStep, SucceedsStep

\* The tables and handlers keep the promise of CredentialLedger: codes and
\* refresh tokens are issued once, spent once, never revived, and each mints
\* at most one successor (oauth_store.rs:41-141).
THEOREM LedgerHolds == Spec => LedgerSpec
<1>1. Init => Ledger!Init
  <2> SUFFICES ASSUME Init PROVE Ledger!Init
    OBVIOUS
  <2>1. Apart
    BY InitTypeInv, InitUseInv, ApartHolds
  <2>2. \A x \in Credential : ~Issued(x)
    BY DEF Init, Issued
  <2>3. LedgerStatus = [x \in Credential |-> "fresh"]
    BY <2>1, <2>2, StatusNow, StatusRange
  <2>4. LedgerOrigin = [x \in Credential |-> NULL]
    BY DEF Init, LedgerOrigin
  <2> QED
    BY <2>3, <2>4 DEF Ledger!Init
<1>2. Spec => []TypeInv /\ []UseInv
  BY InitTypeInv, NextTypeInv, InitUseInv, NextUseInv, PTL DEF Spec
<1>3. TypeInv /\ UseInv /\ Apart /\ Apart' /\ [Next]_vars => [Ledger!Next]_(Ledger!ledgerVars)
  BY LedgerNext
<1> QED
  BY <1>1, <1>2, <1>3, ApartHolds, PTL DEF Spec, LedgerSpec, Ledger!Spec
=============================================================================
