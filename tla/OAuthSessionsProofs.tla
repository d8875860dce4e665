------------------------ MODULE OAuthSessionsProofs -------------------------
(***************************************************************************)
(* What a session keeps, for any number of users, clients, codes, tokens   *)
(* and concurrent requests: its owner, its challenge, the evidence of a    *)
(* replay, its end after one; and what a suspension stops.                 *)
(***************************************************************************)
EXTENDS OAuthTokensProofs

\* What a handler has copied from codes (cs), of which those in dl are
\* delivered, and from minted tokens (mi).
CarriesIn(s, cs, dl, mi) ==
  /\ s.pc = "store_challenge" => s.cred \notin dl
  /\ s.pc = "read_challenge" =>
       s.cred \in dl /\ s.user = cs[s.cred].user /\ s.client = cs[s.cred].client
  /\ s.pc = "load_user" => s.user = mi[s.cred].user /\ s.client = mi[s.cred].client
  /\ s.pc = "revoke_all" => s.user = mi[s.cred].user
  /\ s.pc = "issue" =>
       \/ s.cred = NULL
       \/ /\ s.cred \in dl
          /\ s.user = cs[s.cred].user /\ s.client = cs[s.cred].client
          /\ s.verifier = cs[s.cred].challenge
       \/ /\ s.cred \in DOMAIN mi
          /\ s.user = mi[s.cred].user /\ s.client = mi[s.cred].client

\* What a minted token has from the credential it was minted from.
MintIn(m, cs, dl, mi) ==
  /\ m.origin \in Code =>
       /\ m.origin \in dl
       /\ m.user = cs[m.origin].user /\ m.client = cs[m.origin].client
       /\ m.verifier = cs[m.origin].challenge
  /\ m.origin \in Token =>
       /\ m.origin \in DOMAIN mi
       /\ m.user = mi[m.origin].user /\ m.client = mi[m.origin].client

RowIn(row, m) ==
  row.user = m.user /\ row.client = m.client /\ row.expires_at = m.expires_at

Carry == \A r \in Request : CarriesIn(req[r], authorization_codes, delivered, minted)

\* No two handlers are about to store the challenge of one code.
StoreOnce ==
  \A p, q \in Request :
    req[p].pc = "store_challenge" /\ req[q].pc = "store_challenge" /\ req[p].cred = req[q].cred
      => p = q

MintsMatch == \A t \in DOMAIN minted : MintIn(minted[t], authorization_codes, delivered, minted)
RowsMatch == \A t \in DOMAIN refresh_tokens : RowIn(refresh_tokens[t], minted[t])

ChainInv == Carry /\ StoreOnce /\ MintsMatch /\ RowsMatch /\ ReplayEvidenceKept /\ ReplayEndsSession

\* What no step undoes.
Stable ==
  /\ DOMAIN authorization_codes \subseteq DOMAIN authorization_codes'
  /\ delivered \subseteq delivered'
  /\ \A x \in delivered :
       /\ authorization_codes'[x].user = authorization_codes[x].user
       /\ authorization_codes'[x].client = authorization_codes[x].client
       /\ authorization_codes'[x].challenge = authorization_codes[x].challenge
  /\ DOMAIN minted \subseteq DOMAIN minted'
  /\ \A t \in DOMAIN minted : minted'[t] = minted[t]
  /\ now <= now'

\* s and t agree in what CarriesIn looks at.
Alike(s, t) ==
  s.pc = t.pc /\ s.user = t.user /\ s.client = t.client /\ s.cred = t.cred
    /\ s.verifier = t.verifier

\* At the start there are no sessions.
LEMMA InitChainInv == Init => ChainInv
  BY DEF Init, ChainInv, Carry, CarriesIn, StoreOnce, MintsMatch, RowsMatch, ReplayEvidenceKept,
         ReplayEndsSession, Idle

\* A slot that nobody touches still carries what it carried.
LEMMA CarryOn ==
  ASSUME TypeInv, Stable, NEW r \in Request, Alike(req'[r], req[r]),
         CarriesIn(req[r], authorization_codes, delivered, minted),
         req[r].pc = "store_challenge" => req[r].cred \notin delivered'
  PROVE  CarriesIn(req'[r], authorization_codes', delivered', minted')
<1>1. SlotOK(r)
  BY DEF TypeInv
<1>2. CASE req[r].pc = "store_challenge"
  BY <1>2 DEF Alike, CarriesIn
<1>3. CASE req[r].pc = "read_challenge"
  BY <1>3 DEF Alike, CarriesIn, Stable
<1>4. CASE req[r].pc \in {"load_user", "revoke_all"}
  BY <1>1, <1>4 DEF Alike, CarriesIn, Stable, SlotOK
<1>5. CASE req[r].pc = "issue"
  BY <1>5 DEF Alike, CarriesIn, Stable
<1>6. CASE req[r].pc \notin {"store_challenge", "read_challenge", "load_user", "revoke_all",
                             "issue"}
  BY <1>6 DEF Alike, CarriesIn
<1> QED
  BY <1>2, <1>3, <1>4, <1>5, <1>6

\* What a token has from its origin it keeps.
LEMMA MintOn ==
  ASSUME Stable, MintsMatch, NEW t \in DOMAIN minted
  PROVE  MintIn(minted'[t], authorization_codes', delivered', minted')
  BY DEF Stable, MintsMatch, MintIn

\* A step of one handler that leaves the delivered codes alone.
LEMMA OneCarries ==
  ASSUME TypeInv, ChainInv, Stable, NEW r \in Request, NEW s,
         req' = [req EXCEPT ![r] = s],
         CarriesIn(s, authorization_codes', delivered', minted'),
         s.pc = "store_challenge" => \A p \in Request \ {r} :
           req[p].pc = "store_challenge" => req[p].cred # s.cred,
         \A p \in Request \ {r} : req[p].pc = "store_challenge" => req[p].cred \notin delivered'
  PROVE  Carry' /\ StoreOnce'
<1>1. req'[r] = s /\ \A p \in Request \ {r} : req'[p] = req[p]
  BY OthersSame
<1>2. ASSUME NEW p \in Request
      PROVE  CarriesIn(req'[p], authorization_codes', delivered', minted')
  <2>1. CASE p = r
    BY <1>1, <2>1
  <2>2. CASE p # r
    <3>1. Alike(req'[p], req[p])
      BY <1>1, <2>2 DEF Alike
    <3>2. CarriesIn(req[p], authorization_codes, delivered, minted)
      BY DEF ChainInv, Carry
    <3> QED
      BY <2>2, <3>1, <3>2, CarryOn
  <2> QED
    BY <2>1, <2>2
<1>3. StoreOnce'
  BY <1>1 DEF ChainInv, StoreOnce
<1> QED
  BY <1>2, <1>3 DEF Carry

\* A step of one handler that changes no table and no history.
LEMMA QuietStep ==
  ASSUME TypeInv, ChainInv, NEW r \in Request, NEW s,
         req' = [req EXCEPT ![r] = s],
         UNCHANGED <<authorization_codes, refresh_tokens, now, history>>,
         s.pc # "store_challenge",
         CarriesIn(s, authorization_codes, delivered, minted)
  PROVE  ChainInv'
<1>1. Stable
  BY DEF Stable, history, TypeInv, TypeOK
<1>2. UNCHANGED delivered /\ UNCHANGED minted /\ UNCHANGED replayed
  BY DEF history
<1>3. \A p \in Request \ {r} : req[p].pc = "store_challenge" => req[p].cred \notin delivered'
  BY <1>2 DEF ChainInv, Carry, CarriesIn
<1>4. CarriesIn(s, authorization_codes', delivered', minted')
  BY <1>2
<1>5. Carry' /\ StoreOnce'
  BY <1>1, <1>3, <1>4, OneCarries
<1>6. (MintsMatch /\ RowsMatch /\ ReplayEvidenceKept /\ ReplayEndsSession)'
  BY <1>2 DEF ChainInv, MintsMatch, RowsMatch, ReplayEvidenceKept, ReplayEndsSession, LiveToken
<1> QED
  BY <1>5, <1>6 DEF ChainInv

\* A slot at one of the other statements carries nothing.
LEMMA CarriesNothing ==
  ASSUME NEW s, NEW cs, NEW dl, NEW mi,
         s.pc \notin {"store_challenge", "read_challenge", "load_user", "revoke_all", "issue"}
  PROVE  CarriesIn(s, cs, dl, mi)
  BY DEF CarriesIn

\* A handler that answers, or moves on to a statement it may carry what it
\* carries to, changes no session.
LEMMA RespondStep ==
  ASSUME TypeInv, ChainInv, NEW r \in Request, Respond(r),
         UNCHANGED <<authorization_codes, refresh_tokens, now, history>>
  PROVE  ChainInv'
<1>1. Idle.pc = "idle"
  BY DEF Idle
<1>2. req' = [req EXCEPT ![r] = Idle]
  BY DEF Respond
<1> QED
  BY <1>1, <1>2, CarriesNothing, QuietStep

LEMMA GotoStep ==
  ASSUME TypeInv, ChainInv, NEW r \in Request, NEW label \in PC, Goto(r, label),
         UNCHANGED <<authorization_codes, refresh_tokens, now, history>>,
         label # "store_challenge",
         \A s : s.pc = label /\ s.user = req[r].user /\ s.client = req[r].client
                  /\ s.cred = req[r].cred /\ s.verifier = req[r].verifier
           => CarriesIn(s, authorization_codes, delivered, minted)
  PROVE  ChainInv'
<1>1. PICK s \in Slot :
        /\ req' = [req EXCEPT ![r] = s]
        /\ s.pc = label
        /\ s.user = req[r].user /\ s.client = req[r].client
        /\ s.cred = req[r].cred /\ s.verifier = req[r].verifier
  BY GotoSlot
<1> QED
  BY <1>1, QuietStep

-----------------------------------------------------------------------------
(* The steps that only move a handler on.                                  *)

\* A request that begins, as far as it only reads.
LEMMA ArrivalKeeps ==
  ASSUME TypeInv, ChainInv, NEW r \in Request, NEW u, NEW c, NEW v, NEW t,
         \/ Authorize(r, u, c, v) \/ InvalidClient(r, t, c) \/ RotateMiss(r, t, c)
         \/ Login(r, u, c)
  PROVE  ChainInv'
<1>1. CASE Authorize(r, u, c, v)
  <2> DEFINE s == [Idle EXCEPT !.pc = "check_suspended", !.user = u, !.client = c,
                     !.verifier = v, !.barred = is_suspended[u]]
  <2>1. s.pc = "check_suspended"
    BY DEF Idle
  <2>2. /\ req' = [req EXCEPT ![r] = s]
        /\ UNCHANGED <<authorization_codes, refresh_tokens, now, history>>
    BY <1>1 DEF Authorize, tables
  <2> HIDE DEF s
  <2> QED
    BY <2>1, <2>2, CarriesNothing, QuietStep
<1>2. CASE InvalidClient(r, t, c)
  <2> DEFINE s == [Idle EXCEPT !.pc = "invalid_client", !.client = c, !.cred = t]
  <2>1. s.pc = "invalid_client"
    BY DEF Idle
  <2>2. /\ req' = [req EXCEPT ![r] = s]
        /\ UNCHANGED <<authorization_codes, refresh_tokens, now, history>>
    BY <1>2 DEF InvalidClient, tables
  <2> HIDE DEF s
  <2> QED
    BY <2>1, <2>2, CarriesNothing, QuietStep
<1>3. CASE RotateMiss(r, t, c)
  <2> DEFINE s == [Idle EXCEPT !.pc = "find_any", !.cred = t, !.client = c]
  <2>1. s.pc = "find_any"
    BY DEF Idle
  <2>2. /\ req' = [req EXCEPT ![r] = s]
        /\ UNCHANGED <<authorization_codes, refresh_tokens, now, history>>
    BY <1>3 DEF RotateMiss, tables
  <2> HIDE DEF s
  <2> QED
    BY <2>1, <2>2, CarriesNothing, QuietStep
<1>4. CASE Login(r, u, c)
  <2> DEFINE s == [Idle EXCEPT !.pc = "issue", !.user = u, !.client = c]
  <2>1. s.pc = "issue" /\ s.cred = NULL
    BY DEF Idle
  <2>2. /\ req' = [req EXCEPT ![r] = s]
        /\ UNCHANGED <<authorization_codes, refresh_tokens, now, history>>
    BY <1>4 DEF Login, tables
  <2> HIDE DEF s
  <2>3. CarriesIn(s, authorization_codes, delivered, minted)
    BY <2>1 DEF CarriesIn
  <2> QED
    BY <2>1, <2>2, <2>3, QuietStep
<1> QED
  BY <1>1, <1>2, <1>3, <1>4

\* /authorize, the look at is_suspended (oauth.rs:101-119).
LEMMA CheckSuspendedKeeps ==
  ASSUME TypeInv, ChainInv, NEW r \in Request, CheckSuspended(r)
  PROVE  ChainInv'
<1>1. UNCHANGED <<authorization_codes, refresh_tokens, now, history>>
  BY DEF CheckSuspended, tables
<1>2. CASE Respond(r)
  BY <1>1, <1>2, RespondStep
<1>3. CASE Goto(r, "create_code")
  <2>1. "create_code" \in PC
    BY DEF PC
  <2> QED
    BY <1>1, <1>3, <2>1, CarriesNothing, GotoStep
<1> QED
  BY <1>2, <1>3 DEF CheckSuspended

\* A handler that answers at once, or dies.
LEMMA AnswerKeeps ==
  ASSUME TypeInv, ChainInv, NEW r \in Request,
         RefuseClient(r) \/ OutOfNames(r) \/ Abort(r)
  PROVE  ChainInv'
<1>1. Respond(r) /\ UNCHANGED <<authorization_codes, refresh_tokens, now, history>>
  BY DEF RefuseClient, OutOfNames, Abort, tables
<1> QED
  BY <1>1, RespondStep

\* /token with a code: only a matching verifier goes on to issue_tokens.
LEMMA ReadChallengeKeeps ==
  ASSUME TypeInv, ChainInv, NEW r \in Request, ReadChallenge(r)
  PROVE  ChainInv'
<1>1. UNCHANGED <<authorization_codes, refresh_tokens, now, history>>
  BY DEF ReadChallenge, tables
<1>2. CASE Respond(r)
  BY <1>1, <1>2, RespondStep
<1>3. CASE Goto(r, "issue") /\ authorization_codes[req[r].cred].challenge = req[r].verifier
  <2>1. "issue" \in PC
    BY DEF PC
  <2>2. /\ req[r].cred \in delivered
        /\ req[r].user = authorization_codes[req[r].cred].user
        /\ req[r].client = authorization_codes[req[r].cred].client
    BY DEF ReadChallenge, At, ChainInv, Carry, CarriesIn
  <2>3. ASSUME NEW s, s.pc = "issue" /\ s.user = req[r].user /\ s.client = req[r].client
                 /\ s.cred = req[r].cred /\ s.verifier = req[r].verifier
        PROVE  CarriesIn(s, authorization_codes, delivered, minted)
    BY <1>3, <2>2, <2>3 DEF CarriesIn
  <2> QED
    BY <1>1, <1>3, <2>1, <2>3, GotoStep
<1> QED
  BY <1>2, <1>3 DEF ReadChallenge

\* /token with a refresh token: the user of the rotated row goes on.
LEMMA LoadUserKeeps ==
  ASSUME TypeInv, ChainInv, NEW r \in Request, LoadUser(r)
  PROVE  ChainInv'
<1>1. UNCHANGED <<authorization_codes, refresh_tokens, now, history>>
  BY DEF LoadUser, tables
<1>2. CASE Respond(r)
  BY <1>1, <1>2, RespondStep
<1>3. CASE Goto(r, "issue")
  <2>1. "issue" \in PC
    BY DEF PC
  <2>2. /\ req[r].cred \in DOMAIN minted
        /\ req[r].user = minted[req[r].cred].user
        /\ req[r].client = minted[req[r].cred].client
    BY DEF LoadUser, At, ChainInv, Carry, CarriesIn, TypeInv, SlotOK
  <2>3. ASSUME NEW s, s.pc = "issue" /\ s.user = req[r].user /\ s.client = req[r].client
                 /\ s.cred = req[r].cred /\ s.verifier = req[r].verifier
        PROVE  CarriesIn(s, authorization_codes, delivered, minted)
    BY <2>2, <2>3 DEF CarriesIn
  <2> QED
    BY <1>1, <1>3, <2>1, <2>3, GotoStep
<1> QED
  BY <1>2, <1>3 DEF LoadUser

\* The user to be logged out is the one of the row presented again.
LEMMA FindByHashAnyKeeps ==
  ASSUME TypeInv, ChainInv, NEW r \in Request, FindByHashAny(r)
  PROVE  ChainInv'
<1>1. UNCHANGED <<authorization_codes, refresh_tokens, now, history>>
  BY DEF FindByHashAny, tables
<1>2. CASE Respond(r)
  BY <1>1, <1>2, RespondStep
<1>3. CASE /\ req[r].cred \in DOMAIN refresh_tokens
           /\ req' = [req EXCEPT ![r].pc = "revoke_all",
                                 ![r].user = refresh_tokens[req[r].cred].user]
  <2> DEFINE s == [req[r] EXCEPT !.pc = "revoke_all", !.user = refresh_tokens[req[r].cred].user]
  <2>1. /\ req' = [req EXCEPT ![r] = s]
        /\ s.pc = "revoke_all" /\ s.cred = req[r].cred
        /\ s.user = refresh_tokens[req[r].cred].user
    BY <1>3 DEF TypeInv, TypeOK, Slot
  <2> HIDE DEF s
  <2>2. s.user = minted[s.cred].user
    BY <1>3, <2>1 DEF ChainInv, RowsMatch, RowIn
  <2>3. CarriesIn(s, authorization_codes, delivered, minted)
    BY <2>1, <2>2 DEF CarriesIn
  <2> QED
    BY <1>1, <2>1, <2>3, QuietStep
<1> QED
  BY <1>2, <1>3 DEF FindByHashAny

-----------------------------------------------------------------------------
(* The steps that write codes.                                             *)

\* Tokens do not depend on codes that are not delivered.
LEMMA CodeStep ==
  ASSUME TypeInv, ChainInv, Stable, UNCHANGED <<refresh_tokens, now, minted, replayed>>,
         Carry', StoreOnce'
  PROVE  ChainInv'
<1>1. MintsMatch'
  <2>1. ASSUME NEW t \in DOMAIN minted
        PROVE  MintIn(minted'[t], authorization_codes', delivered', minted')
    BY MintOn DEF ChainInv
  <2> QED
    BY <2>1 DEF MintsMatch
<1>2. (RowsMatch /\ ReplayEvidenceKept /\ ReplayEndsSession)'
  BY DEF ChainInv, RowsMatch, ReplayEvidenceKept, ReplayEndsSession, LiveToken
<1> QED
  BY <1>1, <1>2 DEF ChainInv

\* A new code is nobody else's, and is delivered at once or held by its handler.
LEMMA CreateCodeKeeps ==
  ASSUME TypeInv, ChainInv, NEW r \in Request, CreateCode(r)
  PROVE  ChainInv'
<1>1. PICK x \in FreshCodes :
        /\ authorization_codes' = Insert(authorization_codes, x,
             [user |-> req[r].user, client |-> req[r].client, challenge |-> NULL,
              used |-> FALSE, expires_at |-> now + CodeTTL])
        /\ \/ /\ delivered' = delivered \cup {x}
              /\ Respond(r)
           \/ /\ req' = [req EXCEPT ![r].pc = "store_challenge", ![r].cred = x]
              /\ UNCHANGED delivered
  BY DEF CreateCode
<1>2. UNCHANGED <<refresh_tokens, now, minted, replayed>>
  BY DEF CreateCode
<1>3. x \notin DOMAIN authorization_codes /\ x \notin delivered
  BY DEF FreshCodes, TypeInv, TypeOK
<1>4. /\ DOMAIN authorization_codes \subseteq DOMAIN authorization_codes'
      /\ \A y \in DOMAIN authorization_codes : authorization_codes'[y] = authorization_codes[y]
  BY <1>1, <1>3 DEF Insert
<1>5. delivered \subseteq DOMAIN authorization_codes /\ now \in Nat
  BY DEF TypeInv, TypeOK
<1>6. Stable
  <2>1. delivered \subseteq delivered'
    BY <1>1
  <2> QED
    BY <1>2, <1>4, <1>5, <2>1 DEF Stable
<1>7. \A p \in Request : req[p].pc = "store_challenge"
        => req[p].cred \in DOMAIN authorization_codes /\ req[p].cred \notin delivered
  BY DEF TypeInv, SlotOK, ChainInv, Carry, CarriesIn
<1>8. \A p \in Request \ {r} : req[p].pc = "store_challenge" => req[p].cred \notin delivered'
  BY <1>1, <1>3, <1>7
<1>9. CASE Respond(r)
  <2>1. req' = [req EXCEPT ![r] = Idle] /\ Idle.pc = "idle"
    BY <1>9 DEF Respond, Idle
  <2>2. CarriesIn(Idle, authorization_codes', delivered', minted')
    BY <2>1, CarriesNothing
  <2>3. Carry' /\ StoreOnce'
    BY <1>6, <1>8, <2>1, <2>2, OneCarries
  <2> QED
    BY <1>2, <1>6, <2>3, CodeStep
<1>10. CASE req' = [req EXCEPT ![r].pc = "store_challenge", ![r].cred = x] /\ UNCHANGED delivered
  <2> DEFINE s == [req[r] EXCEPT !.pc = "store_challenge", !.cred = x]
  <2>1. req' = [req EXCEPT ![r] = s] /\ s.pc = "store_challenge" /\ s.cred = x
    BY <1>10 DEF TypeInv, TypeOK, Slot
  <2> HIDE DEF s
  <2>2. CarriesIn(s, authorization_codes', delivered', minted')
    BY <1>3, <1>10, <2>1 DEF CarriesIn
  <2>3. \A p \in Request \ {r} : req[p].pc = "store_challenge" => req[p].cred # s.cred
    BY <1>3, <1>7, <2>1
  <2>4. Carry' /\ StoreOnce'
    BY <1>6, <1>8, <2>1, <2>2, <2>3, OneCarries
  <2> QED
    BY <1>2, <1>6, <2>4, CodeStep
<1> QED
  BY <1>1, <1>9, <1>10

\* The challenge changes before the code is delivered, so before it is redeemed.
LEMMA StoreChallengeKeeps ==
  ASSUME TypeInv, ChainInv, NEW r \in Request, StoreChallenge(r)
  PROVE  ChainInv'
<1> DEFINE x == req[r].cred
<1>1. /\ req[r].pc = "store_challenge"
      /\ delivered' = delivered \cup {x}
      /\ req' = [req EXCEPT ![r] = Idle] /\ Idle.pc = "idle"
      /\ UNCHANGED <<refresh_tokens, now, minted, replayed>>
  BY DEF StoreChallenge, At, Respond, Idle
<1>2. x \in DOMAIN authorization_codes /\ x \notin delivered
  BY <1>1 DEF TypeInv, SlotOK, ChainInv, Carry, CarriesIn
<1>3. /\ DOMAIN authorization_codes' = DOMAIN authorization_codes
      /\ \A y \in DOMAIN authorization_codes \ {x} :
           authorization_codes'[y] = authorization_codes[y]
  BY DEF StoreChallenge
<1>4. Stable
  <2>1. delivered \subseteq DOMAIN authorization_codes \ {x} /\ now \in Nat
    BY <1>2 DEF TypeInv, TypeOK
  <2> QED
    BY <1>1, <1>3, <2>1 DEF Stable
<1>5. \A p \in Request \ {r} : req[p].pc = "store_challenge" => req[p].cred \notin delivered'
  BY <1>1 DEF ChainInv, Carry, CarriesIn, StoreOnce
<1>6. CarriesIn(Idle, authorization_codes', delivered', minted')
  BY <1>1, CarriesNothing
<1>7. Carry' /\ StoreOnce'
  BY <1>1, <1>4, <1>5, <1>6, OneCarries
<1> QED
  BY <1>1, <1>4, <1>7, CodeStep

\* The slot takes user and client from the row the UPDATE returned.
LEMMA ExchangeCodeKeeps ==
  ASSUME TypeInv, ChainInv, NEW r \in Request, NEW x \in delivered, NEW c, NEW m, NEW v,
         ExchangeCode(r, x, c, m, v)
  PROVE  ChainInv'
<1>1. /\ authorization_codes' = [authorization_codes EXCEPT ![x].used = TRUE]
      /\ UNCHANGED <<refresh_tokens, now, delivered, minted, replayed>>
  BY DEF ExchangeCode, history
<1>2. x \in DOMAIN authorization_codes /\ authorization_codes[x] \in CodeRow
      /\ delivered \subseteq DOMAIN authorization_codes /\ now \in Nat
  BY DEF TypeInv, TypeOK
<1>3. /\ DOMAIN authorization_codes' = DOMAIN authorization_codes
      /\ \A y \in DOMAIN authorization_codes :
           /\ authorization_codes'[y].user = authorization_codes[y].user
           /\ authorization_codes'[y].client = authorization_codes[y].client
           /\ authorization_codes'[y].challenge = authorization_codes[y].challenge
  <2>1. \A y \in DOMAIN authorization_codes \ {x} :
          authorization_codes'[y] = authorization_codes[y]
    BY <1>1
  <2>2. authorization_codes'[x] = [authorization_codes[x] EXCEPT !.used = TRUE]
    BY <1>1, <1>2
  <2>3. /\ authorization_codes'[x].user = authorization_codes[x].user
        /\ authorization_codes'[x].client = authorization_codes[x].client
        /\ authorization_codes'[x].challenge = authorization_codes[x].challenge
    BY <1>2, <2>2 DEF CodeRow
  <2>4. DOMAIN authorization_codes' = DOMAIN authorization_codes
    BY <1>1
  <2> QED
    BY <2>1, <2>3, <2>4
<1>4. Stable
  BY <1>1, <1>2, <1>3 DEF Stable
<1>5. \A p \in Request : req[p].pc = "store_challenge" => req[p].cred \notin delivered'
  BY <1>1 DEF ChainInv, Carry, CarriesIn
<1>6. CASE UNCHANGED req
  <2>1. ASSUME NEW p \in Request
        PROVE  CarriesIn(req'[p], authorization_codes', delivered', minted')
    <3>1. Alike(req'[p], req[p])
      BY <1>6 DEF Alike
    <3> QED
      BY <1>4, <1>5, <3>1, CarryOn DEF ChainInv, Carry
  <2>2. StoreOnce'
    BY <1>6 DEF ChainInv, StoreOnce
  <2> QED
    BY <1>1, <1>4, <2>1, <2>2, CodeStep DEF Carry
<1>7. CASE /\ c = authorization_codes[x].client
           /\ req' = [req EXCEPT ![r] = [Idle EXCEPT !.pc = "read_challenge", !.cred = x,
                        !.user = authorization_codes[x].user, !.client = c, !.verifier = v,
                        !.barred = is_suspended[authorization_codes[x].user]]]
  <2> DEFINE s == [Idle EXCEPT !.pc = "read_challenge", !.cred = x,
                     !.user = authorization_codes[x].user, !.client = c, !.verifier = v,
                     !.barred = is_suspended[authorization_codes[x].user]]
  <2>1. /\ s.pc = "read_challenge" /\ s.cred = x /\ s.client = c
        /\ s.user = authorization_codes[x].user
    BY DEF Idle
  <2>2. req' = [req EXCEPT ![r] = s]
    BY <1>7
  <2> HIDE DEF s
  <2>3. CarriesIn(s, authorization_codes', delivered', minted')
    BY <1>1, <1>2, <1>3, <1>7, <2>1 DEF CarriesIn
  <2>4. Carry' /\ StoreOnce'
    BY <1>4, <1>5, <2>1, <2>2, <2>3, OneCarries
  <2> QED
    BY <1>1, <1>4, <2>4, CodeStep
<1> QED
  BY <1>6, <1>7 DEF ExchangeCode

-----------------------------------------------------------------------------
(* The steps that write refresh tokens.                                    *)

\* Revoking rows neither changes what a row says of its session nor deletes
\* it, and brings nothing back to life.
LEMMA RevokeStep ==
  ASSUME TypeInv, ChainInv, NEW S, Revoke(S),
         UNCHANGED <<authorization_codes, now, delivered, minted>>
  PROVE  /\ Stable
         /\ (MintsMatch /\ RowsMatch /\ ReplayEvidenceKept)'
         /\ \A p \in Request : req[p].pc = "store_challenge" => req[p].cred \notin delivered'
         /\ \A t : LiveToken(t)' => LiveToken(t) /\ t \notin S
<1>1. /\ DOMAIN refresh_tokens' = DOMAIN refresh_tokens
      /\ \A t \in DOMAIN refresh_tokens :
           /\ refresh_tokens'[t].user = refresh_tokens[t].user
           /\ refresh_tokens'[t].client = refresh_tokens[t].client
           /\ refresh_tokens'[t].expires_at = refresh_tokens[t].expires_at
           /\ t \in S => refresh_tokens'[t].revoked = TRUE
           /\ t \notin S => refresh_tokens'[t] = refresh_tokens[t]
  BY RevokeRows
<1>2. Stable
  BY DEF Stable, TypeInv, TypeOK
<1>3. MintsMatch'
  BY DEF ChainInv, MintsMatch
<1>4. RowsMatch'
  BY <1>1 DEF ChainInv, RowsMatch, RowIn
<1>5. ReplayEvidenceKept'
  BY <1>1 DEF ChainInv, ReplayEvidenceKept
<1>6. \A p \in Request : req[p].pc = "store_challenge" => req[p].cred \notin delivered'
  BY DEF ChainInv, Carry, CarriesIn
<1>7. ASSUME NEW t, LiveToken(t)' PROVE LiveToken(t) /\ t \notin S
  <2>1. t \in DOMAIN refresh_tokens /\ ~refresh_tokens'[t].revoked
    BY <1>1, <1>7 DEF LiveToken
  <2>2. t \notin S
    BY <1>1, <2>1
  <2> QED
    BY <1>1, <2>1, <2>2 DEF LiveToken
<1> QED
  BY <1>2, <1>3, <1>4, <1>5, <1>6, <1>7

\* The slots when none of them moves.
LEMMA NoneCarries ==
  ASSUME TypeInv, ChainInv, Stable, UNCHANGED delivered,
         \A p \in Request : Alike(req'[p], req[p])
  PROVE  Carry' /\ StoreOnce'
<1>1. \A p \in Request : req[p].pc = "store_challenge" => req[p].cred \notin delivered'
  BY DEF ChainInv, Carry, CarriesIn
<1>2. \A p \in Request : CarriesIn(req'[p], authorization_codes', delivered', minted')
  BY <1>1, CarryOn DEF ChainInv, Carry
<1>3. StoreOnce'
  BY DEF ChainInv, StoreOnce, Alike
<1> QED
  BY <1>2, <1>3 DEF Carry

\* /logout revokes one row.
LEMMA LogoutKeeps ==
  ASSUME TypeInv, ChainInv, NEW t, Logout(t)
  PROVE  ChainInv'
<1>1. Revoke({t}) /\ UNCHANGED <<authorization_codes, now, req, delivered, minted, replayed>>
  BY DEF Logout, history
<1>2. /\ Stable
      /\ (MintsMatch /\ RowsMatch /\ ReplayEvidenceKept)'
      /\ \A s : LiveToken(s)' => LiveToken(s)
  BY <1>1, RevokeStep
<1>3. Carry' /\ StoreOnce'
  BY <1>1, <1>2, NoneCarries DEF Alike
<1>4. ReplayEndsSession'
  BY <1>1, <1>2 DEF ChainInv, ReplayEndsSession
<1> QED
  BY <1>2, <1>3, <1>4 DEF ChainInv

\* The slot takes user and client from the row rotate returned, which are those
\* of the token as it was minted.
LEMMA RotateRefreshTokenKeeps ==
  ASSUME TypeInv, ChainInv, NEW r \in Request, NEW t, NEW c, RotateRefreshToken(r, t, c)
  PROVE  ChainInv'
<1>1. /\ Revoke({t})
      /\ UNCHANGED <<authorization_codes, now, delivered, minted, replayed>>
      /\ t \in DOMAIN refresh_tokens
  BY DEF RotateRefreshToken, Rotatable, history
<1>2. /\ Stable
      /\ (MintsMatch /\ RowsMatch /\ ReplayEvidenceKept)'
      /\ \A p \in Request : req[p].pc = "store_challenge" => req[p].cred \notin delivered'
      /\ \A s : LiveToken(s)' => LiveToken(s)
  BY <1>1, RevokeStep
<1>3. ReplayEndsSession'
  BY <1>1, <1>2 DEF ChainInv, ReplayEndsSession
<1>4. CASE UNCHANGED req
  <2>1. Carry' /\ StoreOnce'
    BY <1>1, <1>2, <1>4, NoneCarries DEF Alike
  <2> QED
    BY <1>2, <1>3, <2>1 DEF ChainInv
<1>5. CASE /\ c = refresh_tokens[t].client
           /\ req' = [req EXCEPT ![r] =
                [Idle EXCEPT !.pc = "load_user", !.cred = t, !.user = refresh_tokens[t].user,
                   !.client = c, !.barred = is_suspended[refresh_tokens[t].user]]]
  <2> DEFINE s == [Idle EXCEPT !.pc = "load_user", !.cred = t, !.user = refresh_tokens[t].user,
                     !.client = c, !.barred = is_suspended[refresh_tokens[t].user]]
  <2>1. /\ s.pc = "load_user" /\ s.cred = t
        /\ s.user = refresh_tokens[t].user /\ s.client = c
    BY DEF Idle
  <2>2. req' = [req EXCEPT ![r] = s]
    BY <1>5
  <2> HIDE DEF s
  <2>3. s.user = minted'[s.cred].user /\ s.client = minted'[s.cred].client
    BY <1>1, <1>5, <2>1 DEF ChainInv, RowsMatch, RowIn
  <2>4. CarriesIn(s, authorization_codes', delivered', minted')
    BY <2>1, <2>3 DEF CarriesIn
  <2>5. Carry' /\ StoreOnce'
    BY <1>2, <2>1, <2>2, <2>4, OneCarries
  <2> QED
    BY <1>2, <1>3, <2>5 DEF ChainInv
<1> QED
  BY <1>4, <1>5 DEF RotateRefreshToken

\* The replay branch kills every row of the user whose token came back, so
\* everything minted from that token, which is the same user's.
LEMMA RevokeAllForUserKeeps ==
  ASSUME TypeInv, ChainInv, NEW r \in Request, RevokeAllForUser(r)
  PROVE  ChainInv'
<1> DEFINE S == {t \in DOMAIN refresh_tokens : refresh_tokens[t].user = req[r].user}
<1> DEFINE x == req[r].cred
<1>1. /\ Revoke(S)
      /\ replayed' = replayed \cup {x}
      /\ req' = [req EXCEPT ![r] = Idle] /\ Idle.pc = "idle"
      /\ UNCHANGED <<authorization_codes, now, delivered, minted>>
  BY DEF RevokeAllForUser, Respond, Idle
<1>2. /\ Stable
      /\ (MintsMatch /\ RowsMatch /\ ReplayEvidenceKept)'
      /\ \A p \in Request : req[p].pc = "store_challenge" => req[p].cred \notin delivered'
      /\ \A s : LiveToken(s)' => LiveToken(s) /\ s \notin S
  BY <1>1, RevokeStep
<1>3. CarriesIn(Idle, authorization_codes', delivered', minted')
  BY <1>1, CarriesNothing
<1>4. Carry' /\ StoreOnce'
  BY <1>1, <1>2, <1>3, OneCarries
<1>5. x \in DOMAIN minted /\ req[r].user = minted[x].user
  BY DEF RevokeAllForUser, At, TypeInv, SlotOK, ChainInv, Carry, CarriesIn
<1>6. ASSUME NEW s \in DOMAIN minted, minted[s].origin = x PROVE ~LiveToken(s)'
  <2>1. x \in Token
    BY <1>5, Names
  <2>2. minted[s].user = minted[x].user
    BY <1>6, <2>1 DEF ChainInv, MintsMatch, MintIn
  <2>3. s \in DOMAIN refresh_tokens => s \in S
    BY <1>5, <2>2 DEF ChainInv, RowsMatch, RowIn
  <2> QED
    BY <1>2, <2>3 DEF LiveToken
<1>7. ReplayEndsSession'
  BY <1>1, <1>2, <1>6 DEF ChainInv, ReplayEndsSession
<1> QED
  BY <1>2, <1>4, <1>7 DEF ChainInv

\* A new token takes its session from the slot, which has it from a
\* delivered code, from a minted token or from a login.
LEMMA IssueTokensKeeps ==
  ASSUME TypeInv, ChainInv, NEW r \in Request, IssueTokens(r)
  PROVE  ChainInv'
<1> DEFINE q == req[r]
<1>1. PICK t \in FreshTokens :
        /\ refresh_tokens' = Insert(refresh_tokens, t,
             [user |-> q.user, client |-> q.client,
              expires_at |-> now + RefreshTTL, revoked |-> FALSE])
        /\ minted' = Insert(minted, t,
             [origin |-> q.cred, user |-> q.user, client |-> q.client,
              verifier |-> q.verifier, expires_at |-> now + RefreshTTL,
              late |-> q.cred \in replayed])
  BY DEF IssueTokens
<1>2. /\ req' = [req EXCEPT ![r] = Idle] /\ Idle.pc = "idle"
      /\ UNCHANGED <<authorization_codes, now, delivered, replayed>>
  BY DEF IssueTokens, Respond, Idle
<1>3. t \notin DOMAIN minted /\ t \notin DOMAIN refresh_tokens
  BY Names DEF FreshTokens
<1>4. /\ DOMAIN minted' = DOMAIN minted \cup {t}
      /\ \A s \in DOMAIN minted : minted'[s] = minted[s]
      /\ minted'[t].origin = q.cred /\ minted'[t].user = q.user
      /\ minted'[t].client = q.client /\ minted'[t].verifier = q.verifier
      /\ minted'[t].expires_at = now + RefreshTTL
      /\ minted'[t].late = (q.cred \in replayed)
  BY <1>1, <1>3 DEF Insert
<1>5. /\ DOMAIN refresh_tokens' = DOMAIN refresh_tokens \cup {t}
      /\ \A s \in DOMAIN refresh_tokens : refresh_tokens'[s] = refresh_tokens[s]
      /\ refresh_tokens'[t].user = q.user /\ refresh_tokens'[t].client = q.client
      /\ refresh_tokens'[t].expires_at = now + RefreshTTL
  BY <1>1, <1>3 DEF Insert
<1>6. Stable
  BY <1>2, <1>4 DEF Stable, TypeInv, TypeOK
<1>7. \A p \in Request : req[p].pc = "store_challenge" => req[p].cred \notin delivered'
  BY <1>2 DEF ChainInv, Carry, CarriesIn
<1>8. CarriesIn(Idle, authorization_codes', delivered', minted')
  BY <1>2, CarriesNothing
<1>9. Carry' /\ StoreOnce'
  BY <1>2, <1>6, <1>7, <1>8, OneCarries
<1>10. MintsMatch'
  <2>1. MintIn(minted'[t], authorization_codes, delivered, minted')
    <3>1. \/ q.cred = NULL
          \/ /\ q.cred \in delivered
             /\ q.user = authorization_codes[q.cred].user
             /\ q.client = authorization_codes[q.cred].client
             /\ q.verifier = authorization_codes[q.cred].challenge
          \/ /\ q.cred \in DOMAIN minted
             /\ q.user = minted[q.cred].user /\ q.client = minted[q.cred].client
      BY DEF IssueTokens, At, ChainInv, Carry, CarriesIn
    <3>2. CASE q.cred = NULL
      BY <1>4, <3>2, Names DEF MintIn
    <3>3. CASE /\ q.cred \in delivered
               /\ q.user = authorization_codes[q.cred].user
               /\ q.client = authorization_codes[q.cred].client
               /\ q.verifier = authorization_codes[q.cred].challenge
      <4>1. q.cred \in Code /\ q.cred \notin Token
        BY <3>3, Names DEF TypeInv, TypeOK
      <4> QED
        BY <1>4, <3>3, <4>1 DEF MintIn
    <3>4. CASE /\ q.cred \in DOMAIN minted
               /\ q.user = minted[q.cred].user /\ q.client = minted[q.cred].client
      <4>1. q.cred \in Token /\ q.cred \notin Code
        BY <3>4, Names
      <4> QED
        BY <1>4, <3>4, <4>1 DEF MintIn
    <3> QED
      BY <3>1, <3>2, <3>3, <3>4
  <2>2. \A s \in DOMAIN minted :
          MintIn(minted'[s], authorization_codes', delivered', minted')
    BY <1>6, MintOn DEF ChainInv
  <2> QED
    BY <1>2, <1>4, <2>1, <2>2 DEF MintsMatch
<1>11. RowsMatch'
  <2>1. \A s \in DOMAIN refresh_tokens : RowIn(refresh_tokens'[s], minted'[s])
    BY <1>4, <1>5, Names DEF ChainInv, RowsMatch
  <2>2. RowIn(refresh_tokens'[t], minted'[t])
    BY <1>4, <1>5 DEF RowIn
  <2> QED
    BY <1>5, <2>1, <2>2 DEF RowsMatch
<1>12. ReplayEvidenceKept'
  BY <1>2, <1>4, <1>5 DEF ChainInv, ReplayEvidenceKept
<1>13. ReplayEndsSession'
  <2>1. \A s \in DOMAIN minted : LiveToken(s)' => LiveToken(s)
    BY <1>3, <1>4, <1>5 DEF LiveToken
  <2>2. \A x \in replayed : minted'[t].origin = x => minted'[t].late
    BY <1>4
  <2> QED
    BY <1>2, <1>4, <2>1, <2>2 DEF ChainInv, ReplayEndsSession
<1> QED
  BY <1>9, <1>10, <1>11, <1>12, <1>13 DEF ChainInv

\* The cleanup deletes only rows that have expired.
LEMMA RunCleanupKeeps ==
  ASSUME TypeInv, ChainInv, RunCleanup
  PROVE  ChainInv'
<1> DEFINE kept == {t \in DOMAIN refresh_tokens : ~(refresh_tokens[t].expires_at < now)}
<1>1. /\ refresh_tokens' = [t \in kept |-> refresh_tokens[t]]
      /\ UNCHANGED <<authorization_codes, now, req, delivered, minted, replayed>>
  BY DEF RunCleanup, history
<1>2. /\ DOMAIN refresh_tokens' = kept
      /\ \A t \in kept : t \in DOMAIN refresh_tokens /\ refresh_tokens'[t] = refresh_tokens[t]
  BY <1>1
<1>3. Stable
  BY <1>1 DEF Stable, TypeInv, TypeOK
<1>4. Carry' /\ StoreOnce'
  BY <1>1, <1>3, NoneCarries DEF Alike
<1>5. MintsMatch'
  BY <1>1 DEF ChainInv, MintsMatch
<1>6. RowsMatch'
  BY <1>1, <1>2 DEF ChainInv, RowsMatch
<1>7. ReplayEvidenceKept'
  <2>1. ASSUME NEW t \in DOMAIN minted, t \notin kept PROVE minted[t].expires_at < now
    <3>1. CASE t \in DOMAIN refresh_tokens
      BY <2>1, <3>1 DEF ChainInv, RowsMatch, RowIn
    <3>2. CASE t \notin DOMAIN refresh_tokens
      BY <3>2 DEF ChainInv, ReplayEvidenceKept
    <3> QED
      BY <3>1, <3>2
  <2> QED
    BY <1>1, <1>2, <2>1 DEF ReplayEvidenceKept
<1>8. ReplayEndsSession'
  BY <1>1, <1>2 DEF ChainInv, ReplayEndsSession, LiveToken
<1> QED
  BY <1>4, <1>5, <1>6, <1>7, <1>8 DEF ChainInv

\* Administration and the clock touch no session.
LEMMA OutsideKeeps ==
  ASSUME TypeInv, ChainInv,
         \/ \E c : CreateClient(c)
         \/ \E u, b : SetSuspended(u, b)
         \/ Tick
         \/ UNCHANGED vars
  PROVE  ChainInv'
<1>1. UNCHANGED <<authorization_codes, refresh_tokens, delivered, minted, replayed>>
  BY DEF CreateClient, SetSuspended, Tick, vars, tables, history
<1>2. now \in Nat /\ now' \in Nat /\ now <= now'
  BY DEF CreateClient, SetSuspended, Tick, vars, TypeInv, TypeOK
<1>3. Stable
  BY <1>1, <1>2 DEF Stable
<1>4. \A p \in Request : Alike(req'[p], req[p])
  <2>1. CASE UNCHANGED req
    BY <2>1 DEF Alike
  <2>2. ASSUME NEW u, NEW b, SetSuspended(u, b)
        PROVE  \A p \in Request : Alike(req'[p], req[p])
    <3>1. \A p \in Request : req'[p] = [req[p] EXCEPT !.barred = FALSE] \/ req'[p] = req[p]
      BY <2>2 DEF SetSuspended
    <3>2. \A p \in Request : req[p] \in Slot
      BY DEF TypeInv, TypeOK
    <3> QED
      BY <3>1, <3>2 DEF Alike, Slot
  <2> QED
    BY <2>1, <2>2 DEF CreateClient, Tick, vars
<1>5. Carry' /\ StoreOnce'
  BY <1>1, <1>3, <1>4, NoneCarries
<1>6. (MintsMatch /\ RowsMatch /\ ReplayEndsSession)'
  BY <1>1 DEF ChainInv, MintsMatch, RowsMatch, ReplayEndsSession, LiveToken
<1>7. ReplayEvidenceKept'
  <2>1. \A t \in DOMAIN minted : minted[t].expires_at \in Nat
    BY DEF TypeInv, TypeOK, Mint
  <2> QED
    BY <1>1, <1>2, <2>1 DEF ChainInv, ReplayEvidenceKept
<1> QED
  BY <1>5, <1>6, <1>7 DEF ChainInv

\* Every step keeps the invariant.
LEMMA NextChainInv == TypeInv /\ ChainInv /\ [Next]_vars => ChainInv'
<1> SUFFICES ASSUME TypeInv, ChainInv, [Next]_vars PROVE ChainInv'
  OBVIOUS
<1>1. ASSUME NEW r \in Request, Handler(r) PROVE ChainInv'
  BY <1>1, CheckSuspendedKeeps, CreateCodeKeeps, StoreChallengeKeeps, ReadChallengeKeeps,
     LoadUserKeeps, FindByHashAnyKeeps, RevokeAllForUserKeeps, IssueTokensKeeps, AnswerKeeps
  DEF Handler
<1>2. ASSUME NEW r \in Request, Arrival(r) PROVE ChainInv'
  BY <1>2, ArrivalKeeps, ExchangeCodeKeeps, RotateRefreshTokenKeeps DEF Arrival
<1>3. ASSUME NEW r \in Request, Abort(r) PROVE ChainInv'
  BY <1>3, AnswerKeeps
<1>4. ASSUME NEW t \in Token, Logout(t) PROVE ChainInv'
  BY <1>4, LogoutKeeps
<1>5. CASE RunCleanup
  BY <1>5, RunCleanupKeeps
<1> QED
  BY <1>1, <1>2, <1>3, <1>4, <1>5, OutsideKeeps DEF Next

\* So it always holds.
LEMMA ChainInvHolds == Spec => []ChainInv
<1>1. Spec => []TypeInv
  BY InitTypeInv, NextTypeInv, PTL DEF Spec
<1>2. Init => ChainInv
  BY InitChainInv
<1>3. TypeInv /\ ChainInv /\ [Next]_vars => ChainInv'
  BY NextChainInv
<1> QED
  BY <1>1, <1>2, <1>3, PTL DEF Spec

\* Whatever interleaves, a token has the user and the client of the code or
\* token it was minted from (issue_tokens, oauth.rs:436-567).
THEOREM ChainKeepsOwnerHolds == Spec => []ChainKeepsOwner
<1>1. ChainInv => ChainKeepsOwner
  BY DEF ChainInv, MintsMatch, MintIn, ChainKeepsOwner
<1> QED
  BY <1>1, ChainInvHolds, PTL

\* Whatever interleaves, a code is redeemed with the verifier of the
\* challenge its row ended up with (oauth.rs:132-155, 226-297).
THEOREM PkceStoredHolds == Spec => []PkceStored
<1>1. ChainInv => PkceStored
  BY DEF ChainInv, MintsMatch, MintIn, PkceStored
<1> QED
  BY <1>1, ChainInvHolds, PTL

\* Neither rotate nor the cleanup task loses the row that tells a replay
\* before it has expired (oauth_store.rs:103-116, cleanup.rs:49-52).
THEOREM ReplayEvidenceKeptHolds == Spec => []ReplayEvidenceKept
<1>1. ChainInv => ReplayEvidenceKept
  BY DEF ChainInv
<1> QED
  BY <1>1, ChainInvHolds, PTL

\* Once the replay of a token is answered, what had been minted from it is
\* dead for good (oauth.rs:398-426).
THEOREM ReplayEndsSessionHolds == Spec => []ReplayEndsSession
<1>1. ChainInv => ReplayEndsSession
  BY DEF ChainInv
<1> QED
  BY <1>1, ChainInvHolds, PTL

-----------------------------------------------------------------------------
(* Suspension.  A handler that began while its user was suspended waits at  *)
(* the one statement that looks, and the user is still suspended then, or   *)
(* it is redeeming a code.                                                  *)

Redeems(s) == s.pc \in {"read_challenge", "issue"} /\ s.cred \in Code

BarredIn(s) ==
  s.barred => /\ s.pc \in {"check_suspended", "load_user"} \/ Redeems(s)
              /\ is_suspended[s.user]

BarredInv == \A r \in Request : BarredIn(req[r])

\* One slot changes, or answers.
LEMMA OneBarred ==
  ASSUME TypeInv, BarredInv, NEW r \in Request, NEW s, req' = [req EXCEPT ![r] = s],
         UNCHANGED is_suspended, BarredIn(s)
  PROVE  BarredInv'
  BY OthersSame DEF BarredInv, BarredIn

LEMMA RespondBarred ==
  ASSUME TypeInv, BarredInv, NEW r \in Request, Respond(r), UNCHANGED is_suspended
  PROVE  BarredInv'
<1>1. BarredIn(Idle)
  BY DEF BarredIn, Idle
<1> QED
  BY <1>1, OneBarred DEF Respond

\* A handler moves past its check only when not barred.
LEMMA GotoBarred ==
  ASSUME TypeInv, BarredInv, NEW r \in Request, NEW label \in PC, Goto(r, label),
         UNCHANGED is_suspended, ~req[r].barred
  PROVE  BarredInv'
<1>1. PICK s \in Slot : req' = [req EXCEPT ![r] = s] /\ s.barred = req[r].barred
  BY GotoSlot
<1>2. BarredIn(s)
  BY <1>1 DEF BarredIn
<1> QED
  BY <1>1, <1>2, OneBarred

\* A request that begins is barred only if it still has its check before it,
\* or redeems a code.
LEMMA ArrivalBarred ==
  ASSUME TypeInv, BarredInv, NEW r \in Request, Arrival(r)
  PROVE  BarredInv'
<1>1. UNCHANGED is_suspended
  BY DEF Arrival, Authorize, ExchangeCode, InvalidClient, RotateRefreshToken, RotateMiss,
         Login, tables
<1>2. ASSUME NEW s, req' = [req EXCEPT ![r] = s], s.barred = FALSE PROVE BarredInv'
  <2>1. BarredIn(s)
    BY <1>2 DEF BarredIn
  <2> QED
    BY <1>1, <1>2, <2>1, OneBarred
<1>3. ASSUME UNCHANGED req PROVE BarredInv'
  BY <1>1, <1>3 DEF BarredInv, BarredIn
<1>4. ASSUME NEW u, NEW c, NEW v, Authorize(r, u, c, v) PROVE BarredInv'
  <2> DEFINE s == [Idle EXCEPT !.pc = "check_suspended", !.user = u, !.client = c,
                     !.verifier = v, !.barred = is_suspended[u]]
  <2>1. s.pc = "check_suspended" /\ s.user = u /\ s.barred = is_suspended[u]
    BY DEF Idle
  <2>2. req' = [req EXCEPT ![r] = s]
    BY <1>4 DEF Authorize
  <2> HIDE DEF s
  <2>3. BarredIn(s)
    BY <2>1 DEF BarredIn
  <2> QED
    BY <1>1, <2>2, <2>3, OneBarred
<1>5. ASSUME NEW x \in Code, NEW c, NEW m, NEW v, ExchangeCode(r, x, c, m, v) PROVE BarredInv'
  <2>1. CASE UNCHANGED req
    BY <1>3, <2>1
  <2>2. CASE req' = [req EXCEPT ![r] = [Idle EXCEPT !.pc = "read_challenge", !.cred = x,
                       !.user = authorization_codes[x].user, !.client = c, !.verifier = v,
                       !.barred = is_suspended[authorization_codes[x].user]]]
    <3> DEFINE s == [Idle EXCEPT !.pc = "read_challenge", !.cred = x,
                       !.user = authorization_codes[x].user, !.client = c, !.verifier = v,
                       !.barred = is_suspended[authorization_codes[x].user]]
    <3>1. /\ s.pc = "read_challenge" /\ s.cred = x /\ s.user = authorization_codes[x].user
          /\ s.barred = is_suspended[authorization_codes[x].user]
      BY DEF Idle
    <3>2. req' = [req EXCEPT ![r] = s]
      BY <2>2
    <3> HIDE DEF s
    <3>3. BarredIn(s)
      BY <3>1 DEF BarredIn, Redeems
    <3> QED
      BY <1>1, <3>2, <3>3, OneBarred
  <2> QED
    BY <1>5, <2>1, <2>2 DEF ExchangeCode
<1>6. ASSUME NEW t, NEW c, RotateRefreshToken(r, t, c) PROVE BarredInv'
  <2>1. CASE UNCHANGED req
    BY <1>3, <2>1
  <2>2. CASE req' = [req EXCEPT ![r] =
               [Idle EXCEPT !.pc = "load_user", !.cred = t, !.user = refresh_tokens[t].user,
                  !.client = c, !.barred = is_suspended[refresh_tokens[t].user]]]
    <3> DEFINE s == [Idle EXCEPT !.pc = "load_user", !.cred = t, !.user = refresh_tokens[t].user,
                       !.client = c, !.barred = is_suspended[refresh_tokens[t].user]]
    <3>1. /\ s.pc = "load_user" /\ s.user = refresh_tokens[t].user
          /\ s.barred = is_suspended[refresh_tokens[t].user]
      BY DEF Idle
    <3>2. req' = [req EXCEPT ![r] = s]
      BY <2>2
    <3> HIDE DEF s
    <3>3. BarredIn(s)
      BY <3>1 DEF BarredIn
    <3> QED
      BY <1>1, <3>2, <3>3, OneBarred
  <2> QED
    BY <1>6, <2>1, <2>2 DEF RotateRefreshToken
<1>7. ASSUME NEW t, NEW c, InvalidClient(r, t, c) PROVE BarredInv'
  <2> DEFINE s == [Idle EXCEPT !.pc = "invalid_client", !.client = c, !.cred = t]
  <2>1. s.barred = FALSE
    BY DEF Idle
  <2>2. req' = [req EXCEPT ![r] = s]
    BY <1>7 DEF InvalidClient
  <2> HIDE DEF s
  <2> QED
    BY <1>2, <2>1, <2>2
<1>8. ASSUME NEW t, NEW c, RotateMiss(r, t, c) PROVE BarredInv'
  <2> DEFINE s == [Idle EXCEPT !.pc = "find_any", !.cred = t, !.client = c]
  <2>1. s.barred = FALSE
    BY DEF Idle
  <2>2. req' = [req EXCEPT ![r] = s]
    BY <1>8 DEF RotateMiss
  <2> HIDE DEF s
  <2> QED
    BY <1>2, <2>1, <2>2
<1>9. ASSUME NEW u, NEW p, Login(r, u, p) PROVE BarredInv'
  <2> DEFINE s == [Idle EXCEPT !.pc = "issue", !.user = u, !.client = p]
  <2>1. s.barred = FALSE
    BY DEF Idle
  <2>2. req' = [req EXCEPT ![r] = s]
    BY <1>9 DEF Login
  <2> HIDE DEF s
  <2> QED
    BY <1>2, <2>1, <2>2
<1>10. \A x \in delivered : x \in Code
  BY DEF TypeInv, TypeOK
<1> QED
  BY <1>4, <1>5, <1>6, <1>7, <1>8, <1>9, <1>10 DEF Arrival

\* A barred handler cannot pass its check, and one that redeems a code goes
\* on redeeming it.
LEMMA HandlerBarred ==
  ASSUME TypeInv, BarredInv, NEW r \in Request, Handler(r) \/ Abort(r)
  PROVE  BarredInv'
<1> USE DEF At
<1>1. UNCHANGED is_suspended
  BY DEF Handler, Abort, CheckSuspended, CreateCode, StoreChallenge, RefuseClient,
         ReadChallenge, LoadUser, FindByHashAny, RevokeAllForUser, IssueTokens, OutOfNames,
         tables
<1>2. CASE Respond(r)
  BY <1>1, <1>2, RespondBarred
<1>3. req[r] \in Slot /\ BarredIn(req[r])
  BY DEF TypeInv, TypeOK, BarredInv
<1>4. CASE CheckSuspended(r) \/ LoadUser(r)
  <2>1. CASE is_suspended[req[r].user]
    BY <1>2, <1>4, <2>1 DEF CheckSuspended, LoadUser
  <2>2. CASE ~is_suspended[req[r].user]
    <3>1. ~req[r].barred
      BY <1>3, <2>2 DEF BarredIn
    <3>2. "create_code" \in PC /\ "issue" \in PC
      BY DEF PC
    <3> QED
      BY <1>1, <1>4, <2>2, <3>1, <3>2, GotoBarred DEF CheckSuspended, LoadUser
  <2> QED
    BY <2>1, <2>2
<1>5. CASE ReadChallenge(r)
  <2>1. ASSUME Goto(r, "issue") PROVE BarredInv'
    <3> DEFINE s == [req[r] EXCEPT !.pc = "issue"]
    <3>1. /\ s.pc = "issue" /\ s.cred = req[r].cred /\ s.user = req[r].user
          /\ s.barred = req[r].barred
      BY <1>3 DEF Slot
    <3>2. req' = [req EXCEPT ![r] = s]
      BY <2>1 DEF Goto
    <3> HIDE DEF s
    <3>3. BarredIn(s)
      BY <1>3, <1>5, <3>1 DEF BarredIn, Redeems, ReadChallenge
    <3> QED
      BY <1>1, <3>2, <3>3, OneBarred
  <2> QED
    BY <1>2, <1>5, <2>1 DEF ReadChallenge
<1>6. CASE CreateCode(r)
  <2>1. ~req[r].barred
    BY <1>3, <1>6 DEF BarredIn, Redeems, CreateCode
  <2>2. ASSUME NEW x, req' = [req EXCEPT ![r].pc = "store_challenge", ![r].cred = x]
        PROVE  BarredInv'
    <3> DEFINE s == [req[r] EXCEPT !.pc = "store_challenge", !.cred = x]
    <3>1. req' = [req EXCEPT ![r] = s] /\ s.barred = req[r].barred
      BY <1>3, <2>2 DEF Slot, TypeInv, TypeOK
    <3> HIDE DEF s
    <3>2. BarredIn(s)
      BY <2>1, <3>1 DEF BarredIn
    <3> QED
      BY <1>1, <3>1, <3>2, OneBarred
  <2> QED
    BY <1>2, <1>6, <2>2 DEF CreateCode
<1>7. CASE FindByHashAny(r)
  <2>1. ~req[r].barred
    BY <1>3, <1>7 DEF BarredIn, Redeems, FindByHashAny
  <2>2. ASSUME NEW u, req' = [req EXCEPT ![r].pc = "revoke_all", ![r].user = u]
        PROVE  BarredInv'
    <3> DEFINE s == [req[r] EXCEPT !.pc = "revoke_all", !.user = u]
    <3>1. req' = [req EXCEPT ![r] = s] /\ s.barred = req[r].barred
      BY <1>3, <2>2 DEF Slot, TypeInv, TypeOK
    <3> HIDE DEF s
    <3>2. BarredIn(s)
      BY <2>1, <3>1 DEF BarredIn
    <3> QED
      BY <1>1, <3>1, <3>2, OneBarred
  <2> QED
    BY <1>2, <1>7, <2>2 DEF FindByHashAny
<1> QED
  BY <1>2, <1>4, <1>5, <1>6, <1>7
  DEF Handler, Abort, StoreChallenge, RefuseClient, RevokeAllForUser, IssueTokens, OutOfNames

\* Lifting a suspension ends every bar on the user; nothing else lifts one.
LEMMA SetSuspendedBarred ==
  ASSUME TypeInv, BarredInv, NEW u \in User, NEW b \in BOOLEAN, SetSuspended(u, b)
  PROVE  BarredInv'
<1>1. ASSUME NEW r \in Request PROVE BarredIn(req[r])'
  <2>1. /\ req'[r] = IF req[r].user = u /\ ~b THEN [req[r] EXCEPT !.barred = FALSE] ELSE req[r]
        /\ is_suspended' = [is_suspended EXCEPT ![u] = b]
    BY <1>1 DEF SetSuspended
  <2>2. req[r] \in Slot /\ is_suspended \in [User -> BOOLEAN] /\ SlotOK(r) /\ BarredIn(req[r])
    BY DEF TypeInv, TypeOK, BarredInv
  <2>3. CASE req[r].user = u /\ ~b
    <3>1. req'[r].barred = FALSE
      BY <2>1, <2>2, <2>3 DEF Slot
    <3> QED
      BY <3>1 DEF BarredIn
  <2>4. CASE ~(req[r].user = u /\ ~b)
    <3>1. SUFFICES ASSUME req[r].barred
                   PROVE  /\ req[r].pc \in {"check_suspended", "load_user"} \/ Redeems(req[r])
                          /\ is_suspended'[req[r].user]
      BY <2>1, <2>4 DEF BarredIn, Redeems
    <3>2. /\ req[r].pc \in {"check_suspended", "load_user"} \/ Redeems(req[r])
          /\ is_suspended[req[r].user]
      BY <2>2, <3>1 DEF BarredIn
    <3>3. req[r].user \in User
      BY <2>2, <3>2 DEF SlotOK, Redeems
    <3>4. CASE req[r].user = u
      BY <2>1, <2>2, <2>4, <3>2, <3>4
    <3>5. CASE req[r].user # u
      BY <2>1, <2>2, <3>2, <3>3, <3>5
    <3> QED
      BY <3>2, <3>4, <3>5
  <2> QED
    BY <2>3, <2>4
<1> QED
  BY <1>1 DEF BarredInv

\* Every step keeps the invariant.
LEMMA NextBarredInv == TypeInv /\ BarredInv /\ [Next]_vars => BarredInv'
<1> SUFFICES ASSUME TypeInv, BarredInv, [Next]_vars PROVE BarredInv'
  OBVIOUS
<1>1. CASE UNCHANGED <<req, is_suspended>>
  BY <1>1 DEF BarredInv, BarredIn
<1>2. CASE RunCleanup \/ Tick \/ UNCHANGED vars
          \/ (\E t \in Token : Logout(t)) \/ (\E c \in OAuthClient : CreateClient(c))
  BY <1>1, <1>2 DEF RunCleanup, Tick, vars, tables, Logout, CreateClient
<1> QED
  BY <1>2, HandlerBarred, ArrivalBarred, SetSuspendedBarred DEF Next

\* A request begun by a suspended user, who stays so, never gets as far as
\* writing a code, and as far as writing a token only if it redeems a code,
\* the one grant that checks no suspension, whoever suspends and reinstates
\* whom meanwhile (oauth.rs:101-119, 206-318, 368-391; auth.rs:271-286).
THEOREM SuspendedOnlyRedeemsHolds == Spec => []SuspendedOnlyRedeemsCodes
<1>1. Spec => []TypeInv
  BY InitTypeInv, NextTypeInv, PTL DEF Spec
<1>2. Init => BarredInv
  BY DEF Init, BarredInv, BarredIn, Idle
<1>3. TypeInv /\ BarredInv /\ [Next]_vars => BarredInv'
  BY NextBarredInv
<1>4. BarredInv => SuspendedOnlyRedeemsCodes
  BY DEF BarredInv, BarredIn, Redeems, SuspendedOnlyRedeemsCodes
<1> QED
  BY <1>1, <1>2, <1>3, <1>4, PTL DEF Spec

-----------------------------------------------------------------------------
(* Clients.  A handler that holds a credential works for a registered      *)
(* client, and one that holds none for a project.                          *)

ClientIn(s) ==
  /\ s.pc \in {"read_challenge", "load_user"} => s.client \in OAuthClient
  /\ s.pc = "issue" => (s.client \in OAuthClient <=> s.cred # NULL)

ClientInv ==
  /\ oauth2_clients \subseteq OAuthClient
  /\ \A r \in Request : ClientIn(req[r])
  /\ \A t \in DOMAIN minted : minted[t].client \in OAuthClient <=> minted[t].origin # NULL

\* One slot changes, and no token is minted.
LEMMA OneClient ==
  ASSUME TypeInv, ClientInv, NEW r \in Request, NEW s, req' = [req EXCEPT ![r] = s],
         UNCHANGED <<oauth2_clients, minted>>, ClientIn(s)
  PROVE  ClientInv'
  BY OthersSame DEF ClientInv, ClientIn

LEMMA RespondClient ==
  ASSUME TypeInv, ClientInv, NEW r \in Request, Respond(r), UNCHANGED <<oauth2_clients, minted>>
  PROVE  ClientInv'
<1>1. ClientIn(Idle)
  BY DEF ClientIn, Idle
<1> QED
  BY <1>1, OneClient DEF Respond

\* Only a registered client gets past validate_client_secret with a
\* credential in hand; /login has none.
LEMMA ArrivalClient ==
  ASSUME TypeInv, ClientInv, NEW r \in Request, Arrival(r)
  PROVE  ClientInv'
<1>1. UNCHANGED <<oauth2_clients, minted>>
  BY DEF Arrival, Authorize, ExchangeCode, InvalidClient, RotateRefreshToken, RotateMiss,
         Login, tables, history
<1>2. ASSUME NEW s, req' = [req EXCEPT ![r] = s], s.pc \notin {"read_challenge", "load_user", "issue"}
      PROVE  ClientInv'
  <2>1. ClientIn(s)
    BY <1>2 DEF ClientIn
  <2> QED
    BY <1>1, <1>2, <2>1, OneClient
<1>3. ASSUME UNCHANGED req PROVE ClientInv'
  BY <1>1, <1>3 DEF ClientInv, ClientIn
<1>4. ASSUME NEW u, NEW c, NEW v, Authorize(r, u, c, v) PROVE ClientInv'
  <2> DEFINE s == [Idle EXCEPT !.pc = "check_suspended", !.user = u, !.client = c,
                     !.verifier = v, !.barred = is_suspended[u]]
  <2>1. req' = [req EXCEPT ![r] = s] /\ s.pc = "check_suspended"
    BY <1>4 DEF Authorize, Idle
  <2> HIDE DEF s
  <2> QED
    BY <1>2, <2>1
<1>5. ASSUME NEW x, NEW c, NEW m, NEW v, ExchangeCode(r, x, c, m, v) PROVE ClientInv'
  <2>1. CASE UNCHANGED req
    BY <1>3, <2>1
  <2>2. CASE req' = [req EXCEPT ![r] = [Idle EXCEPT !.pc = "read_challenge", !.cred = x,
                       !.user = authorization_codes[x].user, !.client = c, !.verifier = v,
                       !.barred = is_suspended[authorization_codes[x].user]]]
    <3> DEFINE s == [Idle EXCEPT !.pc = "read_challenge", !.cred = x,
                       !.user = authorization_codes[x].user, !.client = c, !.verifier = v,
                       !.barred = is_suspended[authorization_codes[x].user]]
    <3>1. req' = [req EXCEPT ![r] = s] /\ s.pc = "read_challenge" /\ s.client = c
      BY <2>2 DEF Idle
    <3>2. c \in OAuthClient
      BY <1>5 DEF ExchangeCode, ClientInv
    <3> HIDE DEF s
    <3>3. ClientIn(s)
      BY <3>1, <3>2 DEF ClientIn
    <3> QED
      BY <1>1, <3>1, <3>3, OneClient
  <2> QED
    BY <1>5, <2>1, <2>2 DEF ExchangeCode
<1>6. ASSUME NEW t, NEW c, RotateRefreshToken(r, t, c) PROVE ClientInv'
  <2>1. CASE UNCHANGED req
    BY <1>3, <2>1
  <2>2. CASE req' = [req EXCEPT ![r] =
               [Idle EXCEPT !.pc = "load_user", !.cred = t, !.user = refresh_tokens[t].user,
                  !.client = c, !.barred = is_suspended[refresh_tokens[t].user]]]
    <3> DEFINE s == [Idle EXCEPT !.pc = "load_user", !.cred = t, !.user = refresh_tokens[t].user,
                       !.client = c, !.barred = is_suspended[refresh_tokens[t].user]]
    <3>1. req' = [req EXCEPT ![r] = s] /\ s.pc = "load_user" /\ s.client = c
      BY <2>2 DEF Idle
    <3>2. c \in OAuthClient
      BY <1>6 DEF RotateRefreshToken, ClientInv
    <3> HIDE DEF s
    <3>3. ClientIn(s)
      BY <3>1, <3>2 DEF ClientIn
    <3> QED
      BY <1>1, <3>1, <3>3, OneClient
  <2> QED
    BY <1>6, <2>1, <2>2 DEF RotateRefreshToken
<1>7. ASSUME NEW t, NEW c, InvalidClient(r, t, c) PROVE ClientInv'
  <2> DEFINE s == [Idle EXCEPT !.pc = "invalid_client", !.client = c, !.cred = t]
  <2>1. req' = [req EXCEPT ![r] = s] /\ s.pc = "invalid_client"
    BY <1>7 DEF InvalidClient, Idle
  <2> HIDE DEF s
  <2> QED
    BY <1>2, <2>1
<1>8. ASSUME NEW t, NEW c, RotateMiss(r, t, c) PROVE ClientInv'
  <2> DEFINE s == [Idle EXCEPT !.pc = "find_any", !.cred = t, !.client = c]
  <2>1. req' = [req EXCEPT ![r] = s] /\ s.pc = "find_any"
    BY <1>8 DEF RotateMiss, Idle
  <2> HIDE DEF s
  <2> QED
    BY <1>2, <2>1
<1>9. ASSUME NEW u, NEW p \in ProjectClient, Login(r, u, p) PROVE ClientInv'
  <2> DEFINE s == [Idle EXCEPT !.pc = "issue", !.user = u, !.client = p]
  <2>1. req' = [req EXCEPT ![r] = s] /\ s.pc = "issue" /\ s.client = p /\ s.cred = NULL
    BY <1>9 DEF Login, Idle
  <2>2. p \notin OAuthClient
    BY DisjointAssumption
  <2> HIDE DEF s
  <2>3. ClientIn(s)
    BY <2>1, <2>2 DEF ClientIn
  <2> QED
    BY <1>1, <2>1, <2>3, OneClient
<1> QED
  BY <1>4, <1>5, <1>6, <1>7, <1>8, <1>9 DEF Arrival

\* A handler goes on to issue_tokens with the client and the credential it has.
LEMMA HandlerClient ==
  ASSUME TypeInv, ClientInv, NEW r \in Request, Handler(r) \/ Abort(r)
  PROVE  ClientInv'
<1> USE DEF At
<1>0. req[r] \in Slot /\ SlotOK(r) /\ ClientIn(req[r])
  BY DEF TypeInv, TypeOK, ClientInv
<1>1. ASSUME UNCHANGED <<oauth2_clients, minted>>, NEW label \in PC, Goto(r, label), label # "issue",
             label \notin {"read_challenge", "load_user"}
      PROVE  ClientInv'
  <2>1. PICK s \in Slot : req' = [req EXCEPT ![r] = s] /\ s.pc = label
    BY <1>1, GotoSlot
  <2>2. ClientIn(s)
    BY <1>1, <2>1 DEF ClientIn
  <2> QED
    BY <1>1, <2>1, <2>2, OneClient
<1>2. CASE IssueTokens(r)
  <2>1. PICK t \in FreshTokens : minted' = Insert(minted, t,
               [origin |-> req[r].cred, user |-> req[r].user, client |-> req[r].client,
                verifier |-> req[r].verifier, expires_at |-> now + RefreshTTL,
                late |-> req[r].cred \in replayed])
    BY <1>2 DEF IssueTokens
  <2>2. /\ DOMAIN minted' = DOMAIN minted \cup {t}
        /\ minted'[t].client = req[r].client /\ minted'[t].origin = req[r].cred
        /\ \A s \in DOMAIN minted : s # t => minted'[s] = minted[s]
    BY <2>1 DEF Insert
  <2>3. req[r].client \in OAuthClient <=> req[r].cred # NULL
    BY <1>0, <1>2 DEF ClientIn, IssueTokens
  <2>4. (\A s \in DOMAIN minted : minted[s].client \in OAuthClient <=> minted[s].origin # NULL)'
    BY <2>2, <2>3 DEF ClientInv
  <2>5. Respond(r) /\ UNCHANGED oauth2_clients
    BY <1>2 DEF IssueTokens
  <2>6. \A p \in Request : ClientIn(req[p])'
    <3>1. req'[r] = Idle /\ \A p \in Request \ {r} : req'[p] = req[p]
      BY <2>5, OthersSame DEF Respond
    <3>2. Idle.pc = "idle"
      BY DEF Idle
    <3> QED
      BY <3>1, <3>2 DEF ClientIn, ClientInv
  <2> QED
    BY <2>4, <2>5, <2>6 DEF ClientInv
<1>3. CASE ReadChallenge(r) \/ LoadUser(r)
  <2>1. UNCHANGED <<oauth2_clients, minted>>
    BY <1>3 DEF ReadChallenge, LoadUser, tables, history
  <2>2. CASE Goto(r, "issue")
    <3>1. "issue" \in PC
      BY DEF PC
    <3>2. PICK s \in Slot : /\ req' = [req EXCEPT ![r] = s] /\ s.pc = "issue"
                            /\ s.client = req[r].client /\ s.cred = req[r].cred
      BY <2>2, <3>1, GotoSlot
    <3>3. req[r].client \in OAuthClient /\ req[r].cred # NULL
      BY <1>0, <1>3, Names DEF ReadChallenge, LoadUser, ClientIn, SlotOK
    <3>4. ClientIn(s)
      BY <3>2, <3>3 DEF ClientIn
    <3> QED
      BY <2>1, <3>2, <3>4, OneClient
  <2> QED
    BY <1>3, <2>1, <2>2, RespondClient DEF ReadChallenge, LoadUser
<1>4. CASE CheckSuspended(r)
  <2>1. UNCHANGED <<oauth2_clients, minted>> /\ "create_code" \in PC
    BY <1>4 DEF CheckSuspended, tables, history, PC
  <2> QED
    BY <1>1, <1>4, <2>1, RespondClient DEF CheckSuspended
<1>5. CASE CreateCode(r) \/ FindByHashAny(r)
  <2>1. UNCHANGED <<oauth2_clients, minted>>
    BY <1>5 DEF CreateCode, FindByHashAny, tables, history
  <2>2. CASE Respond(r)
    BY <2>1, <2>2, RespondClient
  <2>3. ASSUME NEW x, req' = [req EXCEPT ![r].pc = "store_challenge", ![r].cred = x]
        PROVE  ClientInv'
    <3> DEFINE s == [req[r] EXCEPT !.pc = "store_challenge", !.cred = x]
    <3>1. req' = [req EXCEPT ![r] = s] /\ s.pc = "store_challenge"
      BY <1>0, <2>3 DEF Slot, TypeInv, TypeOK
    <3> HIDE DEF s
    <3>2. ClientIn(s)
      BY <3>1 DEF ClientIn
    <3> QED
      BY <2>1, <3>1, <3>2, OneClient
  <2>4. ASSUME NEW u, req' = [req EXCEPT ![r].pc = "revoke_all", ![r].user = u]
        PROVE  ClientInv'
    <3> DEFINE s == [req[r] EXCEPT !.pc = "revoke_all", !.user = u]
    <3>1. req' = [req EXCEPT ![r] = s] /\ s.pc = "revoke_all"
      BY <1>0, <2>4 DEF Slot, TypeInv, TypeOK
    <3> HIDE DEF s
    <3>2. ClientIn(s)
      BY <3>1 DEF ClientIn
    <3> QED
      BY <2>1, <3>1, <3>2, OneClient
  <2> QED
    BY <1>5, <2>2, <2>3, <2>4 DEF CreateCode, FindByHashAny
<1>6. CASE StoreChallenge(r) \/ RefuseClient(r) \/ RevokeAllForUser(r) \/ OutOfNames(r) \/ Abort(r)
  BY <1>6, RespondClient
  DEF StoreChallenge, RefuseClient, RevokeAllForUser, OutOfNames, Abort, tables, history
<1> QED
  BY <1>2, <1>3, <1>4, <1>5, <1>6 DEF Handler

\* Every step keeps the invariant; create_client adds no project.
LEMMA NextClientInv == TypeInv /\ ClientInv /\ [Next]_vars => ClientInv'
<1> SUFFICES ASSUME TypeInv, ClientInv, [Next]_vars PROVE ClientInv'
  OBVIOUS
<1>1. CASE UNCHANGED <<req, minted>> /\ oauth2_clients' \subseteq OAuthClient
  BY <1>1 DEF ClientInv, ClientIn
<1>2. CASE RunCleanup \/ Tick \/ UNCHANGED vars \/ (\E t \in Token : Logout(t))
  BY <1>1, <1>2 DEF RunCleanup, Tick, vars, tables, history, Logout, ClientInv
<1>3. ASSUME NEW c \in OAuthClient, CreateClient(c) PROVE ClientInv'
  BY <1>1, <1>3 DEF CreateClient, history, ClientInv
<1>4. ASSUME NEW u, NEW b, SetSuspended(u, b) PROVE ClientInv'
  <2>1. UNCHANGED <<oauth2_clients, minted>>
    BY <1>4 DEF SetSuspended, history
  <2>2. ASSUME NEW p \in Request PROVE ClientIn(req[p])'
    <3>1. req[p] \in Slot /\ ClientIn(req[p])
      BY DEF TypeInv, TypeOK, ClientInv
    <3>2. /\ req'[p].pc = req[p].pc /\ req'[p].client = req[p].client
          /\ req'[p].cred = req[p].cred
      BY <1>4, <3>1 DEF SetSuspended, Slot
    <3> QED
      BY <3>1, <3>2 DEF ClientIn
  <2> QED
    BY <2>1, <2>2 DEF ClientInv
<1> QED
  BY <1>2, <1>3, <1>4, HandlerClient, ArrivalClient DEF Next

\* Whichever client presents it, the refresh token of a login never becomes
\* another token: every chain of rotations goes back to a code
\* (oauth.rs:322-392, auth.rs:134-141, 310).
THEOREM RefreshedSessionsHold == Spec => []RefreshedSessionsBeganWithACode
<1>1. Spec => []TypeInv
  BY InitTypeInv, NextTypeInv, PTL DEF Spec
<1>2. Init => ClientInv
  BY ClientAssumption DEF Init, ClientInv, ClientIn, Idle
<1>3. TypeInv /\ ClientInv /\ [Next]_vars => ClientInv'
  BY NextClientInv
<1>4. TypeInv /\ ClientInv /\ ChainInv => RefreshedSessionsBeganWithACode
  <2> SUFFICES ASSUME TypeInv, ClientInv, ChainInv, NEW t \in DOMAIN minted,
                      minted[t].origin \in Token
               PROVE  minted[minted[t].origin].origin # NULL
    BY DEF RefreshedSessionsBeganWithACode
  <2>1. /\ minted[t].origin \in DOMAIN minted
        /\ minted[t].client = minted[minted[t].origin].client
    BY DEF ChainInv, MintsMatch, MintIn
  <2>2. minted[t].origin # NULL
    BY Names
  <2> QED
    BY <2>1, <2>2 DEF ClientInv
<1> QED
  BY <1>1, <1>2, <1>3, <1>4, ChainInvHolds, PTL DEF Spec
=============================================================================
