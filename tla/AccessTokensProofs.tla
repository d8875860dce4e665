------------------------- MODULE AccessTokensProofs --------------------------
(***************************************************************************)
(* For any number of keys, tokens, calls and requests: the client's key is *)
(* recent, and a token on the deny-list is refused until its exp.          *)
(***************************************************************************)
EXTENDS AccessTokens, TLAPS

-----------------------------------------------------------------------------
(* The key.                                                                *)

Deployed(k) == retired[k] # NULL

KeyInv ==
  /\ \A k \in serving : retired[k] = 0
  /\ decoding_key = NULL => age = Old
  /\ decoding_key # NULL => Deployed(decoding_key)
  /\ decoding_key # NULL /\ decoding_key \notin serving /\ ~excused
       => retired[decoding_key] <= age
  /\ \A c \in Call :
       /\ call[c].pc = "store" => call[c].key \in Key /\ Deployed(call[c].key)
       /\ call[c].pc = "decode" /\ ~call[c].waited => age <= JwksTTL

JwksInv == JwksTypeOK /\ KeyInv

keyVars == <<serving, retired, decoding_key, age, excused, call>>

LEMMA OldIs == Old \in Nat /\ Old = JwksTTL + 1 /\ NULL \notin 0..Old /\ NULL \notin Key
  BY JwksAssumption, KeyAssumption DEF Old

LEMMA JwksInitInv == JwksInit => JwksInv
<1> SUFFICES ASSUME JwksInit PROVE JwksInv
  OBVIOUS
<1>1. PICK k \in Key : serving = {k} /\ retired = [x \in Key |-> IF x = k THEN 0 ELSE NULL]
  BY DEF JwksInit
<1>2. IdleCall \in CallSlot /\ IdleCall.pc = "idle"
  BY DEF IdleCall, CallSlot
<1>3. \A c \in Call : call[c] = IdleCall
  BY DEF JwksInit
<1>4. retired \in [Key -> 0..Old \cup {NULL}]
  BY <1>1, OldIs
<1>5. JwksTypeOK
  <2>1. serving \subseteq Key /\ serving # {}
    BY <1>1
  <2>2. call \in [Call -> CallSlot]
    BY <1>2 DEF JwksInit
  <2>3. age \in 0..Old /\ faults \in 0..MaxFaults
    BY OldIs, JwksAssumption DEF JwksInit
  <2>4. excused \in BOOLEAN /\ decoding_key \in Key \cup {NULL}
    BY DEF JwksInit
  <2> QED
    BY <1>4, <2>1, <2>2, <2>3, <2>4 DEF JwksInit, JwksTypeOK
<1>6. KeyInv
  BY <1>1, <1>2, <1>3 DEF JwksInit, KeyInv
<1> QED
  BY <1>5, <1>6 DEF JwksInv

LEMMA FaultBound ==
  ASSUME JwksTypeOK, Fault
  PROVE  faults' \in 0..MaxFaults
BY JwksAssumption DEF JwksTypeOK, Fault

\* A step of one call that leaves the key alone.
LEMMA CallStep ==
  ASSUME JwksInv, NEW c \in Call, NEW s \in CallSlot, call' = [call EXCEPT ![c] = s],
         UNCHANGED <<serving, retired, decoding_key, age, excused>>,
         faults' \in 0..MaxFaults,
         s.pc = "store" => s.key \in Key /\ Deployed(s.key),
         s.pc = "decode" /\ ~s.waited => age <= JwksTTL
  PROVE  JwksInv'
<1>1. /\ call' \in [Call -> CallSlot] /\ call'[c] = s
      /\ \A d \in Call \ {c} : call'[d] = call[d]
  BY DEF JwksInv, JwksTypeOK
<1>2. JwksTypeOK'
  BY <1>1 DEF JwksInv, JwksTypeOK
<1>3. KeyInv'
  <2>1. \A d \in Call :
          /\ call'[d].pc = "store" => call'[d].key \in Key /\ retired[call'[d].key] # NULL
          /\ call'[d].pc = "decode" /\ ~call'[d].waited => age <= JwksTTL
    BY <1>1 DEF JwksInv, KeyInv, Deployed
  <2> QED
    BY <2>1 DEF JwksInv, KeyInv, Deployed
<1> QED
  BY <1>2, <1>3 DEF JwksInv

LEMMA ReturnKeeps ==
  ASSUME JwksInv, NEW c \in Call, Return(c),
         UNCHANGED <<serving, retired, decoding_key, age, excused>>,
         faults' \in 0..MaxFaults
  PROVE  JwksInv'
<1>1. IdleCall \in CallSlot /\ IdleCall.pc = "idle"
  BY DEF IdleCall, CallSlot
<1> QED
  BY <1>1, CallStep DEF Return

LEMMA StartReplicaKeeps ==
  ASSUME JwksInv, NEW k \in Key, StartReplica(k)
  PROVE  JwksInv'
<1>1. /\ retired'[k] = 0 /\ \A x \in Key \ {k} : retired'[x] = retired[x]
      /\ retired[k] = NULL /\ retired' \in [Key -> 0..Old \cup {NULL}]
      /\ serving' = serving \cup {k}
      /\ UNCHANGED <<decoding_key, age, excused, call, faults>>
  BY OldIs DEF JwksInv, JwksTypeOK, StartReplica
<1>2. JwksTypeOK'
  BY <1>1 DEF JwksInv, JwksTypeOK
<1>3. \A x \in Key : Deployed(x) => retired'[x] = retired[x] /\ retired'[x] # NULL
  BY <1>1 DEF Deployed
<1>4. KeyInv'
  <2>1. \A x \in serving' : retired'[x] = 0
    BY <1>1 DEF JwksInv, JwksTypeOK, KeyInv
  <2>2. decoding_key # NULL => decoding_key \in Key /\ Deployed(decoding_key)
    BY DEF JwksInv, JwksTypeOK, KeyInv
  <2> QED
    BY <1>1, <1>3, <2>1, <2>2 DEF JwksInv, KeyInv, Deployed
<1> QED
  BY <1>2, <1>4 DEF JwksInv

LEMMA StopReplicaKeeps ==
  ASSUME JwksInv, NEW k \in Key, StopReplica(k)
  PROVE  JwksInv'
<1>1. /\ serving' = serving \ {k} /\ k \in serving /\ serving # {k}
      /\ UNCHANGED <<retired, decoding_key, age, excused, call, faults>>
  BY DEF StopReplica
<1>2. JwksTypeOK'
  BY <1>1 DEF JwksInv, JwksTypeOK
<1>3. KeyInv'
  <2>1. retired[k] = 0 /\ 0 <= age
    BY <1>1, OldIs DEF JwksInv, JwksTypeOK, KeyInv
  <2> QED
    BY <1>1, <2>1 DEF JwksInv, KeyInv, Deployed
<1> QED
  BY <1>2, <1>3 DEF JwksInv

LEMMA VerifyLocallyKeeps ==
  ASSUME JwksInv, NEW c \in Call, NEW j \in Token, VerifyLocally(c, j)
  PROVE  JwksInv'
<1> DEFINE label == IF age <= JwksTTL THEN "decode" ELSE "fetch"
           s == [IdleCall EXCEPT !.token = j, !.pc = label]
<1>1. label \in {"decode", "fetch"} /\ (label = "decode" => age <= JwksTTL)
  OBVIOUS
<1>2. /\ call' = [call EXCEPT ![c] = s]
      /\ UNCHANGED <<serving, retired, decoding_key, age, excused>>
      /\ faults' \in 0..MaxFaults
  BY DEF VerifyLocally, JwksInv, JwksTypeOK
<1> HIDE DEF label
<1>3. s \in CallSlot /\ s.pc = label
  BY <1>1 DEF IdleCall, CallSlot
<1> HIDE DEF s
<1> QED
  BY <1>1, <1>2, <1>3, CallStep

LEMMA RefreshJwksKeeps ==
  ASSUME JwksInv, NEW c \in Call, RefreshJwks(c)
  PROVE  JwksInv'
<1> DEFINE s == [call[c] EXCEPT !.pc = "fetch"]
<1>1. call[c] \in CallSlot
  BY DEF JwksInv, JwksTypeOK
<1>2. s \in CallSlot /\ s.pc = "fetch"
  BY <1>1 DEF CallSlot
<1>3. /\ call' = [call EXCEPT ![c] = s]
      /\ UNCHANGED <<serving, retired, decoding_key, age, excused>>
      /\ faults' \in 0..MaxFaults
  BY DEF RefreshJwks, JwksInv, JwksTypeOK
<1> HIDE DEF s
<1> QED
  BY <1>2, <1>3, CallStep

LEMMA FetchJwksKeeps ==
  ASSUME JwksInv, NEW c \in Call, FetchJwks(c)
  PROVE  JwksInv'
<1>1. ASSUME NEW k \in serving, call' = [call EXCEPT ![c].pc = "store", ![c].key = k],
             UNCHANGED faults
      PROVE  JwksInv'
  <2> DEFINE s == [call[c] EXCEPT !.pc = "store", !.key = k]
  <2>1. call \in [Call -> CallSlot] /\ call[c] \in CallSlot /\ k \in Key /\ Deployed(k)
    BY OldIs DEF JwksInv, JwksTypeOK, KeyInv, Deployed
  <2>2. s \in CallSlot /\ s.pc = "store" /\ s.key = k
    BY <2>1 DEF CallSlot
  <2>3. /\ call' = [call EXCEPT ![c] = s]
        /\ UNCHANGED <<serving, retired, decoding_key, age, excused>>
        /\ faults' \in 0..MaxFaults
    BY <1>1, <2>1 DEF FetchJwks, JwksInv, JwksTypeOK
  <2> HIDE DEF s
  <2> QED
    BY <2>1, <2>2, <2>3, CallStep
<1>2. CASE Fault /\ Return(c)
  BY <1>2, FaultBound, ReturnKeeps DEF FetchJwks, JwksInv
<1> QED
  BY <1>1, <1>2 DEF FetchJwks

LEMMA StoreKeyKeeps ==
  ASSUME JwksInv, NEW c \in Call, StoreKey(c)
  PROVE  JwksInv'
<1> DEFINE k == call[c].key
           t == [call[c] EXCEPT !.pc = "decode", !.key = NULL]
<1>1. /\ call[c] \in CallSlot /\ k \in Key /\ Deployed(k) /\ call \in [Call -> CallSlot]
      /\ decoding_key' = k /\ age' = 0 /\ excused' = (k \notin serving)
      /\ UNCHANGED <<serving, retired, faults>>
  BY DEF StoreKey, CallAt, JwksInv, JwksTypeOK, KeyInv
<1>2. /\ t \in CallSlot /\ t.pc = "decode"
      /\ IdleCall \in CallSlot /\ IdleCall.pc = "idle"
  BY <1>1 DEF CallSlot, IdleCall
<1>3. PICK s \in CallSlot : s.pc # "store" /\ call' = [call EXCEPT ![c] = s]
  <2>1. CASE call[c].token = NULL
    BY <1>2, <2>1 DEF StoreKey, Return
  <2>2. CASE call[c].token # NULL
    BY <1>1, <1>2, <2>2 DEF StoreKey
  <2> QED
    BY <2>1, <2>2
<1>4. /\ call' \in [Call -> CallSlot] /\ call'[c] = s
      /\ \A d \in Call \ {c} : call'[d] = call[d]
  BY <1>1, <1>3
<1>5. JwksTypeOK'
  BY <1>1, <1>4, OldIs DEF JwksInv, JwksTypeOK
<1>6. KeyInv'
  <2>1. \A x \in serving' : retired'[x] = 0
    BY <1>1 DEF JwksInv, KeyInv
  <2>2. decoding_key' # NULL /\ Deployed(decoding_key)'
    BY <1>1, OldIs DEF Deployed
  <2>3. decoding_key' \in serving' \/ excused'
    BY <1>1
  <2>4. \A d \in Call : call'[d].pc = "store" =>
          call'[d].key \in Key /\ retired'[call'[d].key] # NULL
    BY <1>1, <1>3, <1>4 DEF JwksInv, KeyInv, Deployed
  <2>5. age' <= JwksTTL
    BY <1>1, JwksAssumption
  <2> QED
    BY <2>1, <2>2, <2>3, <2>4, <2>5 DEF KeyInv, Deployed
<1> QED
  BY <1>5, <1>6 DEF JwksInv

LEMMA JwksTickKeeps ==
  ASSUME JwksInv, JwksTick
  PROVE  JwksInv'
<1>1. UNCHANGED <<serving, decoding_key, excused, faults>>
  BY DEF JwksTick
<1>2. /\ age \in 0..Old /\ age' \in 0..Old
      /\ age' = IF age < Old THEN age + 1 ELSE age
  BY OldIs DEF JwksTick, JwksInv, JwksTypeOK
<1>3. \A k \in Key :
        /\ retired[k] \in 0..Old \cup {NULL}
        /\ retired'[k] = IF retired[k] # NULL /\ k \notin serving /\ retired[k] < Old
                           THEN retired[k] + 1 ELSE retired[k]
  BY DEF JwksTick, JwksInv, JwksTypeOK
<1>4. \A k \in Key : /\ retired'[k] \in 0..Old \cup {NULL}
                     /\ retired[k] # NULL => retired'[k] # NULL
                     /\ retired[k] # NULL /\ retired[k] <= age => retired'[k] <= age'
                     /\ k \in serving => retired'[k] = retired[k]
  <2> TAKE k \in Key
  <2>1. CASE retired[k] = NULL
    BY <1>3, <2>1
  <2>2. CASE retired[k] # NULL
    <3>1. retired[k] \in 0..Old
      BY <1>3, <2>2
    <3>2. retired'[k] \in 0..Old
      BY <1>3, <3>1, <2>2, OldIs
    <3>3. retired[k] <= age => retired'[k] <= age'
      BY <1>2, <1>3, <3>1, <2>2, OldIs
    <3> QED
      BY <1>3, <3>2, <3>3, OldIs
  <2> QED
    BY <2>1, <2>2
<1>5. retired' \in [Key -> 0..Old \cup {NULL}]
  BY <1>4 DEF JwksTick
<1>6. \A c \in Call : /\ call'[c] \in CallSlot
                      /\ call'[c].pc = call[c].pc /\ call'[c].key = call[c].key
                      /\ call'[c].pc = "decode" => call'[c].waited
  <2> TAKE c \in Call
  <2>1. call[c] \in CallSlot
    BY DEF JwksInv, JwksTypeOK
  <2>2. call'[c] = IF call[c].pc = "decode" THEN [call[c] EXCEPT !.waited = TRUE] ELSE call[c]
    BY DEF JwksTick, CallAt
  <2> QED
    BY <2>1, <2>2 DEF CallSlot
<1>7. call' \in [Call -> CallSlot]
  BY <1>6 DEF JwksTick
<1>8. JwksTypeOK'
  BY <1>1, <1>2, <1>5, <1>7 DEF JwksInv, JwksTypeOK
<1>9. KeyInv'
  <2>1. decoding_key \in Key \cup {NULL} /\ serving \subseteq Key
    BY DEF JwksInv, JwksTypeOK
  <2>2. \A k \in serving' : retired'[k] = 0
    BY <1>1, <1>4, <2>1 DEF JwksInv, KeyInv
  <2>3. decoding_key' = NULL => age' = Old
    BY <1>1, <1>2, OldIs DEF JwksInv, KeyInv
  <2>4. decoding_key' # NULL => Deployed(decoding_key)'
    BY <1>1, <1>4, <2>1 DEF JwksInv, KeyInv, Deployed
  <2>5. decoding_key' # NULL /\ decoding_key' \notin serving' /\ ~excused'
          => retired'[decoding_key'] <= age'
    BY <1>1, <1>4, <2>1 DEF JwksInv, KeyInv, Deployed
  <2>6. \A c \in Call :
          /\ call'[c].pc = "store" => call'[c].key \in Key /\ retired'[call'[c].key] # NULL
          /\ call'[c].pc = "decode" => call'[c].waited
    BY <1>4, <1>6 DEF JwksInv, KeyInv, Deployed
  <2> QED
    BY <2>2, <2>3, <2>4, <2>5, <2>6 DEF KeyInv, Deployed
<1> QED
  BY <1>8, <1>9 DEF JwksInv

LEMMA JwksNextKeeps ==
  ASSUME JwksInv, JwksNext
  PROVE  JwksInv'
<1>1. ASSUME NEW c \in Call, Decode(c) PROVE JwksInv'
  BY <1>1, ReturnKeeps DEF Decode, JwksInv, JwksTypeOK
<1>2. ASSUME NEW c \in Call, Cancel(c) PROVE JwksInv'
  BY <1>2, FaultBound, ReturnKeeps DEF Cancel, JwksInv
<1> QED
  BY <1>1, <1>2, StartReplicaKeeps, StopReplicaKeeps, FetchJwksKeeps, StoreKeyKeeps,
     RefreshJwksKeeps, VerifyLocallyKeeps DEF JwksNext

\* The other steps leave the client alone.
LEMMA JwksStill ==
  ASSUME JwksInv, UNCHANGED keyVars, faults' \in 0..MaxFaults
  PROVE  JwksInv'
BY DEF keyVars, JwksInv, JwksTypeOK, KeyInv, Deployed
-----------------------------------------------------------------------------
(* The deny-list.                                                          *)

Left(j) == jwts[j].left

TokenTypeOK ==
  /\ aud_tolerated \in BOOLEAN
  /\ jwts \in [Token -> Jwt]
  /\ jwt_revoked \in [Token -> 0..Lifetime]
  /\ req \in [Request -> Slot]
  /\ denied \subseteq Token /\ logged_out \subseteq Token

\* What a slot relies on.
SlotOK(s) ==
  /\ s.pc # "idle" => s.token \in Token /\ Signed(s.token)
  /\ s.pc = "set_revoked" => s.ttl > 0 /\ s.ttl >= Left(s.token) - Leeway
  /\ s.barred => s.token \in denied
  /\ s.pc = "expand" /\ s.barred => s.blind \/ PastExp(s.token)

DenyInv ==
  /\ \A r \in Request : SlotOK(req[r])
  /\ \A j \in denied : Signed(j) /\ jwt_revoked[j] >= Left(j) - Leeway

TokenInv == TokenTypeOK /\ DenyInv

LEMMA TimeIs ==
  /\ Lifetime \in Nat /\ Lifetime > 0 /\ Leeway \in Nat
  /\ Lifetime + Leeway \in Nat
BY LifetimeAssumption

LEMMA IdleIs == Idle \in Slot /\ Idle.pc = "idle" /\ Idle.barred = FALSE
BY TimeIs DEF Idle, Slot

LEMMA TokenInitInv == Init => TokenInv
<1> SUFFICES ASSUME Init PROVE TokenInv
  OBVIOUS
<1>1. \A r \in Request : req[r] = Idle
  BY DEF Init
<1>2. [key |-> NULL, left |-> 0] \in Jwt
  BY TimeIs DEF Jwt
<1>3. TokenTypeOK
  <2>1. jwts \in [Token -> Jwt] /\ req \in [Request -> Slot]
    BY <1>2, IdleIs DEF Init
  <2>2. jwt_revoked \in [Token -> 0..Lifetime]
    BY TimeIs DEF Init
  <2> QED
    BY <2>1, <2>2 DEF Init, TokenTypeOK
<1>4. DenyInv
  BY <1>1, IdleIs DEF Init, DenyInv, SlotOK
<1> QED
  BY <1>3, <1>4 DEF TokenInv

\* A step of one request that signs no token and sets no entry.
LEMMA RequestStep ==
  ASSUME TokenInv, NEW r \in Request, NEW s \in Slot, req' = [req EXCEPT ![r] = s],
         UNCHANGED <<aud_tolerated, jwts, jwt_revoked, denied>>,
         logged_out' \subseteq Token, SlotOK(s)
  PROVE  TokenInv'
<1>1. /\ req' \in [Request -> Slot] /\ req'[r] = s
      /\ \A q \in Request \ {r} : req'[q] = req[q]
  BY DEF TokenInv, TokenTypeOK
<1>2. TokenTypeOK'
  BY <1>1 DEF TokenInv, TokenTypeOK
<1>3. \A q \in Request : SlotOK(req'[q])
  BY <1>1 DEF TokenInv, DenyInv
<1>4. \A q \in Request : SlotOK(req[q])'
  BY <1>3 DEF SlotOK, Signed, Left, PastExp
<1>5. DenyInv'
  BY <1>4 DEF TokenInv, DenyInv, Signed, Left
<1> QED
  BY <1>2, <1>5 DEF TokenInv

LEMMA RespondKeeps ==
  ASSUME TokenInv, NEW r \in Request, Respond(r),
         UNCHANGED <<aud_tolerated, jwts, jwt_revoked, denied>>,
         logged_out' \subseteq Token
  PROVE  TokenInv'
<1>1. SlotOK(Idle)
  BY IdleIs DEF SlotOK
<1> QED
  BY <1>1, IdleIs, RequestStep DEF Respond

LEMMA SignKeeps ==
  ASSUME TokenInv, JwksInv, NEW j \in Token, NEW k \in Key, Sign(j, k)
  PROVE  TokenInv'
<1> DEFINE t == [key |-> k, left |-> Lifetime + Leeway]
<1>1. t \in Jwt /\ t.key = k /\ k # NULL
  BY TimeIs, OldIs DEF Jwt
<1>2. /\ jwts' = [jwts EXCEPT ![j] = t] /\ jwts[j].key = NULL
      /\ UNCHANGED <<aud_tolerated, jwt_revoked, req, denied, logged_out>>
  BY DEF Sign, Signed
<1> HIDE DEF t
<1>3. /\ jwts' \in [Token -> Jwt] /\ jwts'[j] = t
      /\ \A i \in Token \ {j} : jwts'[i] = jwts[i]
  BY <1>1, <1>2 DEF TokenInv, TokenTypeOK
<1>4. TokenTypeOK'
  BY <1>2, <1>3 DEF TokenInv, TokenTypeOK
<1>5. \A i \in Token : Signed(i) => jwts'[i] = jwts[i]
  BY <1>2, <1>3 DEF Signed
<1>6. \A q \in Request : SlotOK(req[q])'
  <2> SUFFICES ASSUME NEW q \in Request PROVE SlotOK(req[q])'
    OBVIOUS
  <2>1. SlotOK(req[q])
    BY DEF TokenInv, DenyInv
  <2>2. req[q].pc # "idle" => jwts'[req[q].token] = jwts[req[q].token]
    BY <1>5, <2>1 DEF SlotOK
  <2> QED
    BY <1>2, <2>1, <2>2 DEF SlotOK, Signed, Left, PastExp
<1>7. DenyInv'
  <2>1. \A i \in denied : jwts'[i] = jwts[i]
    BY <1>5 DEF TokenInv, DenyInv, TokenTypeOK
  <2> QED
    BY <1>2, <1>6, <2>1 DEF TokenInv, DenyInv, Signed, Left
<1> QED
  BY <1>4, <1>7 DEF TokenInv

LEMMA IntrospectKeeps ==
  ASSUME TokenInv, JwksInv, NEW r \in Request, NEW j \in Token, Introspect(r, j)
  PROVE  TokenInv'
<1> DEFINE b == j \in denied
           s == [Idle EXCEPT !.pc = "get_revoked", !.token = j, !.barred = b]
<1>1. b \in BOOLEAN /\ (b => j \in denied)
  OBVIOUS
<1>2. /\ req' = [req EXCEPT ![r] = s]
      /\ UNCHANGED <<aud_tolerated, jwts, jwt_revoked, denied, logged_out>>
  BY DEF Introspect
<1> HIDE DEF b
<1>3. s \in Slot /\ s.pc = "get_revoked" /\ s.token = j /\ s.barred = b
  BY <1>1, IdleIs DEF Slot
<1>4. Signed(j)
  BY OldIs DEF Introspect, Signed, JwksInv, JwksTypeOK
<1> HIDE DEF s
<1>5. SlotOK(s)
  BY <1>1, <1>3, <1>4 DEF SlotOK
<1> QED
  BY <1>3, <1>2, <1>5, RequestStep DEF TokenInv, TokenTypeOK

LEMMA GetRevokedKeeps ==
  ASSUME TokenInv, NEW r \in Request, GetRevoked(r)
  PROVE  TokenInv'
<1>1. /\ req \in [Request -> Slot] /\ req[r] \in Slot /\ req[r].pc = "get_revoked"
      /\ SlotOK(req[r])
      /\ UNCHANGED <<aud_tolerated, jwts, jwt_revoked, denied>> /\ logged_out' \subseteq Token
  BY DEF GetRevoked, At, TokenInv, TokenTypeOK, DenyInv
<1>2. req[r].token \in Token /\ Signed(req[r].token) /\ (req[r].barred => req[r].token \in denied)
  BY <1>1 DEF SlotOK
<1>3. CASE Respond(r)
  BY <1>1, <1>3, RespondKeeps
<1>4. CASE /\ jwt_revoked[req[r].token] = 0
           /\ req' = [req EXCEPT ![r].pc = "expand"]
  <2> DEFINE s == [req[r] EXCEPT !.pc = "expand"]
  <2>1. /\ s \in Slot /\ s.pc = "expand" /\ s.token = req[r].token /\ s.barred = req[r].barred
    BY <1>1 DEF Slot
  <2>2. req' = [req EXCEPT ![r] = s]
    BY <1>4
  <2> HIDE DEF s
  <2>3. s.barred => PastExp(s.token)
    <3> SUFFICES ASSUME s.barred PROVE jwts[s.token].left <= Leeway
      BY DEF PastExp
    <3>1. 0 >= jwts[s.token].left - Leeway
      BY <1>2, <1>4, <2>1 DEF TokenInv, DenyInv, Left
    <3>2. jwts[s.token].left \in Nat
      BY <1>2, <2>1, TimeIs DEF TokenInv, TokenTypeOK, Jwt
    <3> QED
      BY <3>1, <3>2, TimeIs
  <2>4. SlotOK(s)
    BY <1>2, <2>1, <2>3 DEF SlotOK
  <2> QED
    BY <1>1, <2>1, <2>2, <2>4, RequestStep
<1>5. CASE req' = [req EXCEPT ![r].pc = "expand", ![r].blind = TRUE]
  <2> DEFINE s == [req[r] EXCEPT !.pc = "expand", !.blind = TRUE]
  <2>1. /\ s \in Slot /\ s.pc = "expand" /\ s.token = req[r].token /\ s.blind
        /\ s.barred = req[r].barred
    BY <1>1 DEF Slot
  <2>2. req' = [req EXCEPT ![r] = s]
    BY <1>1, <1>5
  <2> HIDE DEF s
  <2>3. SlotOK(s)
    BY <1>2, <2>1 DEF SlotOK
  <2> QED
    BY <1>1, <2>1, <2>2, <2>3, RequestStep
<1> QED
  BY <1>3, <1>4, <1>5 DEF GetRevoked

LEMMA RevokeKeeps ==
  ASSUME TokenInv, NEW r \in Request, NEW j \in Token, Revoke(r, j)
  PROVE  TokenInv'
<1> DEFINE s == [Idle EXCEPT !.pc = "revoke", !.token = j]
<1>1. s \in Slot /\ s.pc = "revoke" /\ s.token = j /\ s.barred = FALSE
  BY IdleIs DEF Slot
<1>2. /\ req' = [req EXCEPT ![r] = s] /\ Signed(j)
      /\ UNCHANGED <<aud_tolerated, jwts, jwt_revoked, denied, logged_out>>
  BY DEF Revoke
<1> HIDE DEF s
<1>3. SlotOK(s)
  BY <1>1, <1>2 DEF SlotOK
<1> QED
  BY <1>1, <1>2, <1>3, RequestStep DEF TokenInv, TokenTypeOK

LEMMA DecodeForRevokeKeeps ==
  ASSUME TokenInv, NEW r \in Request, DecodeForRevoke(r)
  PROVE  TokenInv'
<1> DEFINE j == req[r].token
           ttl == IF PastExp(j) THEN 1 ELSE jwts[j].left - Leeway
           s == [req[r] EXCEPT !.pc = "set_revoked", !.ttl = ttl]
<1>1. /\ req \in [Request -> Slot] /\ req[r] \in Slot /\ req[r].pc = "revoke" /\ SlotOK(req[r])
      /\ UNCHANGED <<aud_tolerated, jwts, jwt_revoked, denied>>
  BY DEF DecodeForRevoke, At, TokenInv, TokenTypeOK, DenyInv
<1>2. j \in Token /\ Signed(j) /\ (req[r].barred => j \in denied)
  BY <1>1 DEF SlotOK
<1>3. logged_out' \subseteq Token
  BY <1>2 DEF DecodeForRevoke, TokenInv, TokenTypeOK
<1>4. CASE aud_tolerated
  <2>1. jwts[j].left \in 0..(Lifetime + Leeway)
    BY <1>2 DEF TokenInv, TokenTypeOK, Jwt
  <2>2. ttl \in 0..Lifetime /\ ttl > 0 /\ ttl >= jwts[j].left - Leeway
    BY <2>1, TimeIs DEF PastExp
  <2>3. req' = [req EXCEPT ![r] = s]
    BY <1>1, <1>4 DEF DecodeForRevoke
  <2> HIDE DEF ttl
  <2>4. /\ s \in Slot /\ s.pc = "set_revoked" /\ s.token = j /\ s.ttl = ttl
        /\ s.barred = req[r].barred
    BY <1>1, <2>2 DEF Slot
  <2> HIDE DEF s
  <2>5. SlotOK(s)
    BY <1>2, <2>2, <2>4 DEF SlotOK, Left
  <2> QED
    BY <1>1, <1>3, <2>3, <2>4, <2>5, RequestStep
<1>5. CASE ~aud_tolerated
  BY <1>1, <1>3, <1>5, RespondKeeps DEF DecodeForRevoke
<1> QED
  BY <1>4, <1>5

LEMMA SetRevokedKeeps ==
  ASSUME TokenInv, NEW r \in Request, SetRevoked(r)
  PROVE  TokenInv'
<1>1. /\ req \in [Request -> Slot] /\ req[r] \in Slot /\ req[r].pc = "set_revoked"
      /\ SlotOK(req[r]) /\ UNCHANGED <<aud_tolerated, jwts>> /\ Respond(r)
  BY DEF SetRevoked, At, TokenInv, TokenTypeOK, DenyInv
<1>2. PICK j \in Token : j = req[r].token
  BY <1>1 DEF SlotOK
<1>3. CASE /\ jwt_revoked' = [jwt_revoked EXCEPT ![j] = req[r].ttl]
           /\ denied' = denied \cup {j}
           /\ logged_out' = logged_out \cup {j}
  <2>1. /\ Signed(j) /\ req[r].ttl >= Left(j) - Leeway /\ req[r].ttl \in 0..Lifetime
    BY <1>1, <1>2 DEF SlotOK, Slot
  <2>2. /\ jwt_revoked' \in [Token -> 0..Lifetime] /\ jwt_revoked'[j] = req[r].ttl
        /\ \A i \in Token \ {j} : jwt_revoked'[i] = jwt_revoked[i]
    BY <1>3, <2>1 DEF TokenInv, TokenTypeOK
  <2>3. /\ req' \in [Request -> Slot] /\ req'[r] = Idle
        /\ \A q \in Request \ {r} : req'[q] = req[q]
    BY <1>1, IdleIs DEF Respond
  <2>4. TokenTypeOK'
    BY <1>1, <1>3, <2>2, <2>3 DEF TokenInv, TokenTypeOK
  <2>5. \A q \in Request : SlotOK(req[q])'
    <3> SUFFICES ASSUME NEW q \in Request PROVE SlotOK(req[q])'
      OBVIOUS
    <3>1. CASE q = r
      BY <2>3, <3>1, IdleIs DEF SlotOK
    <3>2. CASE q # r
      <4>1. SlotOK(req[q]) /\ req'[q] = req[q] /\ jwts' = jwts /\ denied \subseteq denied'
        BY <1>1, <1>3, <2>3, <3>2 DEF TokenInv, DenyInv
      <4> QED
        BY <4>1 DEF SlotOK, Signed, Left, PastExp
    <3> QED
      BY <3>1, <3>2
  <2>6. \A i \in denied' : jwts'[i].key # NULL /\ jwt_revoked'[i] >= jwts'[i].left - Leeway
    <3>1. \A i \in denied : i \in Token /\ jwts[i].key # NULL
                            /\ jwt_revoked[i] >= jwts[i].left - Leeway
      BY DEF TokenInv, DenyInv, TokenTypeOK, Signed, Left
    <3> QED
      BY <1>1, <1>3, <2>1, <2>2, <3>1 DEF Signed, Left
  <2>7. DenyInv'
    BY <2>5, <2>6 DEF DenyInv, Signed, Left
  <2> QED
    BY <2>4, <2>7 DEF TokenInv
<1>4. CASE UNCHANGED <<jwt_revoked, denied, logged_out>>
  BY <1>1, <1>4, RespondKeeps DEF TokenInv, TokenTypeOK
<1> QED
  BY <1>2, <1>3, <1>4 DEF SetRevoked

LEMMA TimePasses ==
  ASSUME TokenInv, Tick
  PROVE  TokenInv'
<1>1. UNCHANGED <<aud_tolerated, req, denied, logged_out>>
  BY DEF Tick
<1>2. \A j \in Token :
        /\ jwts[j] \in Jwt /\ jwt_revoked[j] \in 0..Lifetime
        /\ jwts'[j] = [jwts[j] EXCEPT !.left = Less(jwts[j].left)]
        /\ jwt_revoked'[j] = Less(jwt_revoked[j])
  BY DEF Tick, TokenInv, TokenTypeOK
<1>3. ASSUME NEW j \in Token
      PROVE  /\ jwts'[j] \in Jwt /\ jwt_revoked'[j] \in 0..Lifetime
             /\ jwts'[j].key = jwts[j].key
             /\ jwts[j].left \in Nat /\ jwts'[j].left \in Nat /\ jwts'[j].left <= jwts[j].left
             /\ jwt_revoked[j] >= jwts[j].left - Leeway
                  => jwt_revoked'[j] >= jwts'[j].left - Leeway
  <2>1. /\ jwts[j].left \in 0..(Lifetime + Leeway) /\ jwts[j].key \in Key \cup {NULL}
        /\ jwt_revoked[j] \in 0..Lifetime
    BY <1>2 DEF Jwt
  <2>2. /\ Less(jwts[j].left) \in 0..(Lifetime + Leeway)
        /\ Less(jwts[j].left) <= jwts[j].left
        /\ Less(jwt_revoked[j]) \in 0..Lifetime
        /\ jwt_revoked[j] >= jwts[j].left - Leeway
             => Less(jwt_revoked[j]) >= Less(jwts[j].left) - Leeway
    BY <2>1, TimeIs DEF Less
  <2>3. /\ jwts'[j] \in Jwt /\ jwts'[j].key = jwts[j].key
        /\ jwts'[j].left = Less(jwts[j].left)
    <3> DEFINE l == Less(jwts[j].left)
    <3>1. l \in 0..(Lifetime + Leeway)
      BY <2>2
    <3>2. jwts'[j] = [jwts[j] EXCEPT !.left = l]
      BY <1>2
    <3> HIDE DEF l
    <3>3. [jwts[j] EXCEPT !.left = l] \in Jwt
      BY <1>2, <3>1 DEF Jwt
    <3>4. [jwts[j] EXCEPT !.left = l].key = jwts[j].key /\ [jwts[j] EXCEPT !.left = l].left = l
      BY <1>2 DEF Jwt
    <3> QED
      BY <3>2, <3>3, <3>4 DEF l
  <2>4. jwts[j].left \in Nat /\ Less(jwts[j].left) \in Nat
    BY <2>1, <2>2, TimeIs
  <2> QED
    BY <1>2, <2>2, <2>3, <2>4
<1>4. /\ jwts' \in [Token -> Jwt] /\ jwt_revoked' \in [Token -> 0..Lifetime]
  BY <1>3 DEF Tick
<1>5. TokenTypeOK'
  BY <1>1, <1>4 DEF TokenInv, TokenTypeOK
<1>6. \A q \in Request : SlotOK(req[q])'
  <2> SUFFICES ASSUME NEW q \in Request PROVE SlotOK(req[q])'
    OBVIOUS
  <2> DEFINE s == req[q]
             j == req[q].token
  <2>1. /\ SlotOK(s) /\ s' = s /\ s \in Slot
    BY <1>1 DEF TokenInv, DenyInv, TokenTypeOK
  <2>2. s.pc = "idle" => ~s.barred \/ j \in denied
    BY <2>1 DEF SlotOK
  <2>3. CASE s.pc = "idle"
    BY <1>1, <2>1, <2>3 DEF SlotOK
  <2>4. CASE s.pc # "idle"
    <3>1. j \in Token /\ jwts[j].key # NULL
      BY <2>1, <2>4 DEF SlotOK, Signed
    <3>2. /\ jwts'[j].key = jwts[j].key /\ jwts[j].left \in Nat /\ jwts'[j].left \in Nat
          /\ jwts'[j].left <= jwts[j].left
      BY <1>3, <3>1
    <3>3. s.ttl \in Nat /\ s.ttl >= jwts[j].left - Leeway => s.ttl >= jwts'[j].left - Leeway
      BY <3>2, TimeIs
    <3>4. s.ttl \in Nat
      BY <2>1, TimeIs DEF Slot
    <3>5. jwts[j].left <= Leeway => jwts'[j].left <= Leeway
      BY <3>2, TimeIs
    <3>6. /\ s.pc = "set_revoked" => s.ttl > 0 /\ s.ttl >= jwts'[j].left - Leeway
      BY <2>1, <3>3, <3>4 DEF SlotOK, Left
    <3>7. s.pc = "expand" /\ s.barred => s.blind \/ jwts'[j].left <= Leeway
      BY <2>1, <3>5 DEF SlotOK, PastExp
    <3>8. s.barred => j \in denied'
      BY <1>1, <2>1 DEF SlotOK
    <3> QED
      BY <1>1, <3>1, <3>2, <3>6, <3>7, <3>8 DEF SlotOK, Signed, Left, PastExp
  <2> QED
    BY <2>3, <2>4
<1>7. DenyInv'
  <2>1. ASSUME NEW j \in denied
        PROVE  jwts'[j].key # NULL /\ jwt_revoked'[j] >= jwts'[j].left - Leeway
    BY <1>3 DEF TokenInv, DenyInv, TokenTypeOK, Signed, Left
  <2> QED
    BY <1>1, <1>6, <2>1 DEF DenyInv, Signed, Left
<1> QED
  BY <1>5, <1>7 DEF TokenInv

-----------------------------------------------------------------------------
(* Every step, and the theorems.                                           *)

Inv == JwksInv /\ TokenInv

LEMMA TokenStill ==
  ASSUME TokenInv, UNCHANGED tokenVars
  PROVE  TokenInv'
BY DEF tokenVars, TokenInv, TokenTypeOK, DenyInv, SlotOK, Signed, Left, PastExp

LEMMA NextKeeps ==
  ASSUME Inv, [Next]_vars
  PROVE  Inv'
<1> USE DEF Inv
<1>1. CASE UNCHANGED vars
  <2>1. UNCHANGED keyVars /\ faults' \in 0..MaxFaults /\ UNCHANGED tokenVars
    BY <1>1 DEF vars, jwksVars, keyVars, tokenVars, JwksInv, JwksTypeOK
  <2> QED
    BY <2>1, JwksStill, TokenStill
<1>2. CASE JwksNext /\ UNCHANGED tokenVars
  BY <1>2, JwksNextKeeps, TokenStill
<1>3. CASE Tick
  BY <1>3, JwksTickKeeps, TimePasses DEF Tick
<1>4. ASSUME NEW j \in Token, NEW k \in Key, Sign(j, k) PROVE Inv'
  <2>1. UNCHANGED keyVars /\ faults' \in 0..MaxFaults
    BY <1>4 DEF Sign, jwksVars, keyVars, JwksInv, JwksTypeOK
  <2> QED
    BY <1>4, <2>1, JwksStill, SignKeeps
<1>5. ASSUME NEW r \in Request,
             \/ GetRevoked(r) \/ Answer(r) \/ DecodeForRevoke(r) \/ SetRevoked(r)
             \/ Abort(r)
             \/ \E j \in Token : Introspect(r, j) \/ Revoke(r, j)
      PROVE  Inv'
  <2>1. UNCHANGED keyVars
    BY <1>5 DEF GetRevoked, Answer, DecodeForRevoke, SetRevoked, Abort, Introspect, Revoke,
                jwksVars, keyVars
  <2>2. UNCHANGED faults \/ Fault
    BY <1>5 DEF GetRevoked, Answer, DecodeForRevoke, SetRevoked, Abort, Introspect, Revoke,
                jwksVars
  <2>3. faults' \in 0..MaxFaults
    BY <2>2, FaultBound DEF JwksInv, JwksTypeOK
  <2>4. TokenInv'
    <3>1. CASE Answer(r) \/ Abort(r)
      BY <3>1, RespondKeeps DEF Answer, Abort, TokenInv, TokenTypeOK
    <3> QED
      BY <1>5, <3>1, GetRevokedKeeps, DecodeForRevokeKeeps, SetRevokedKeeps, IntrospectKeeps,
         RevokeKeeps
  <2> QED
    BY <2>1, <2>3, <2>4, JwksStill
<1> QED
  BY <1>1, <1>2, <1>3, <1>4, <1>5 DEF Next

THEOREM InvHolds == Spec => []Inv
<1>1. Init => Inv
  BY JwksInitInv, TokenInitInv DEF Init, Inv
<1>2. Inv /\ [Next]_vars => Inv'
  BY NextKeeps
<1> QED
  BY <1>1, <1>2, PTL DEF Spec

\* Every entry of the deny-list is set for at least a second and at most the
\* lifetime of a token (jwt.rs:242-249).
THEOREM TypeCorrect == Spec => []TypeOK
<1>1. Inv => TypeOK
  BY DEF Inv, JwksInv, TokenInv, TokenTypeOK, DenyInv, SlotOK, TypeOK, At
<1> QED
  BY <1>1, InvHolds, PTL

\* Any number of keys, of deployments and of concurrent calls of one client: a
\* key it verifies with is served or was until an hour ago, unless stored late
\* (aspectus-client lib.rs:340-367).
THEOREM KeyCorrect == Spec => []KeyIsRecent
<1>1. Inv => KeyIsRecent
  <2> SUFFICES ASSUME Inv, NEW c \in Call, call[c].pc = "decode", ~call[c].waited,
                      decoding_key \notin serving, ~excused
               PROVE  retired[decoding_key] <= JwksTTL
    BY DEF KeyIsRecent, CallAt
  <2>1. age <= JwksTTL
    BY DEF Inv, JwksInv, KeyInv
  <2>2. decoding_key # NULL
    BY <2>1, OldIs, JwksAssumption DEF Inv, JwksInv, KeyInv
  <2>3. /\ retired[decoding_key] <= age /\ retired[decoding_key] # NULL
        /\ decoding_key \in Key
    BY <2>2 DEF Inv, JwksInv, KeyInv, JwksTypeOK, Deployed
  <2>4. retired[decoding_key] \in 0..Old /\ age \in 0..Old
    BY <2>3 DEF Inv, JwksInv, JwksTypeOK
  <2> QED
    BY <2>1, <2>3, <2>4, OldIs, JwksAssumption
<1> QED
  BY <1>1, InvHolds, PTL

\* Whatever lifetimes, leeways and requests: /introspect refuses a token of the
\* deny-list until its exp, if it can read the list (jwt.rs:205-218, 242-249).
THEOREM RevokedCorrect == Spec => []RevokedRefusedUntilExp
<1>1. Inv => RevokedRefusedUntilExp
  BY DEF Inv, TokenInv, DenyInv, SlotOK, RevokedRefusedUntilExp, At
<1> QED
  BY <1>1, InvHolds, PTL
=============================================================================
