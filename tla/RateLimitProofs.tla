-------------------------- MODULE RateLimitProofs --------------------------
(***************************************************************************)
(* RateLimit never lets more than the allowance through in a window, for   *)
(* any allowances, callers, window length and number of requests.          *)
(***************************************************************************)
EXTENDS RateLimit, FiniteSetTheorems, TLAPS

\* What division by the window's length does to two times.
LEMMA Division ==
  ASSUME NEW t \in Nat, NEW u \in Nat, t <= u
  PROVE  /\ WindowNo(t) \in Nat
         /\ WindowNo(t) <= WindowNo(u)
         /\ WindowNo(t) = WindowNo(u) => u < t + Window
BY RateLimitAssumption, Z3 DEF WindowNo

\* A count is a number up to Many, and still is one when it grows.
LEMMA IncType ==
  ASSUME NEW n \in 0..Many
  PROVE  Inc(n) \in 1..Many /\ Inc(n) >= n /\ Inc(n) <= n + 1
BY RateLimitAssumption DEF Inc

\* INCR and EXPIRE leave a counter that counts and expires.
LEMMA HitType ==
  ASSUME NEW c \in Counter, (c.hits > 0) <=> (c.left > 0)
  PROVE  /\ Hit(c) \in Counter
         /\ Hit(c).hits > 0 /\ Hit(c).left > 0
         /\ Hit(c).hits = Inc(c.hits)
         /\ Hit(c).left = IF c.hits = 0 THEN Window ELSE c.left
<1>1. c.hits \in 0..Many /\ c.left \in 0..Window
  BY DEF Counter
<1>2. Inc(c.hits) \in 1..Many /\ Inc(0) = 1
  BY <1>1, IncType, RateLimitAssumption DEF Inc
<1>3. CASE c.hits = 0
  <2>1. Hit(c) = [hits |-> 1, left |-> Window]
    BY <1>3 DEF Hit
  <2> QED
    BY <1>2, <1>3, <2>1, RateLimitAssumption DEF Counter
<1>4. CASE c.hits # 0
  <2>1. Hit(c) = [hits |-> Inc(c.hits), left |-> c.left]
    BY <1>4 DEF Hit, Counter
  <2> QED
    BY <1>1, <1>2, <1>4, <2>1 DEF Counter
<1> QED
  BY <1>3, <1>4

LEMMA InitType ==
  ASSUME Init
  PROVE  TypeOK
<1>1. 0 \in 0..MaxTime /\ 0 \in Windows /\ 0 \in 0..Many /\ 0 \in 0..Window
  BY RateLimitAssumption, Division DEF Windows
<1>2. Gone \in Counter /\ Idle \in Slot
  BY <1>1 DEF Gone, Idle, Counter, Slot
<1>3. Idle.pc # "script" /\ Gone.hits = 0 /\ Gone.left = 0
  BY DEF Idle, Gone
<1> QED
  BY <1>1, <1>2, <1>3 DEF Init, TypeOK

\* A slot in which a script is awaited names an account.
LEMMA SlotAccount ==
  ASSUME TypeOK, NEW r \in Request, req[r].pc = "script"
  PROVE  /\ req[r].limiter \in Limiter /\ req[r].key \in Key
         /\ req[r].window \in Windows /\ req[r].window <= WindowNo(now)
         /\ <<req[r].limiter, req[r].key, req[r].window>> \in Account
         /\ <<req[r].key, req[r].window>> \in Key \X Windows
<1>1. req[r] \in Slot
  BY DEF TypeOK
<1>2. req[r].window \in Windows
  BY <1>1 DEF Slot
<1> QED
  BY <1>2 DEF TypeOK, Account

\* Counting a request keeps the counters' types.
LEMMA ChargeType ==
  ASSUME TypeOK, NEW r \in Request, req[r].pc = "script", Charge(req[r])
  PROVE  /\ counters' \in [Key \X Windows -> Counter]
         /\ \A c \in Key \X Windows : (counters'[c].hits > 0) <=> (counters'[c].left > 0)
         /\ charged' \in [Account -> 0..Many]
<1> DEFINE c == <<req[r].key, req[r].window>>
           a == <<req[r].limiter, req[r].key, req[r].window>>
<1>1. c \in Key \X Windows /\ a \in Account
  BY SlotAccount
<1>2. /\ counters' = [counters EXCEPT ![c] = Hit(@)]
      /\ charged' = [charged EXCEPT ![a] = Inc(@)]
  BY DEF Charge
<1>3. /\ counters \in [Key \X Windows -> Counter] /\ charged \in [Account -> 0..Many]
      /\ \A d \in Key \X Windows : (counters[d].hits > 0) <=> (counters[d].left > 0)
  BY DEF TypeOK
<1>4. Hit(counters[c]) \in Counter /\ Hit(counters[c]).hits > 0 /\ Hit(counters[c]).left > 0
  BY <1>1, <1>3, HitType
<1>5. Inc(charged[a]) \in 0..Many
  BY <1>1, <1>3, IncType, RateLimitAssumption
<1> HIDE DEF c, a
<1> QED
  BY <1>1, <1>2, <1>3, <1>4, <1>5

\* A slot that becomes idle keeps the slots' types.
LEMMA AnsweredType ==
  ASSUME TypeOK, NEW r \in Request, req' = [req EXCEPT ![r] = Idle], now' = now
  PROVE  /\ req' \in [Request -> Slot]
         /\ \A q \in Request : req'[q].pc = "script" =>
              /\ req'[q].limiter \in Limiter /\ req'[q].key \in Key
              /\ req'[q].window <= WindowNo(now')
<1>1. 0 \in Windows
  BY RateLimitAssumption, Division DEF Windows
<1>2. Idle \in Slot /\ Idle.pc # "script"
  BY <1>1 DEF Idle, Slot
<1> QED
  BY <1>2 DEF TypeOK

LEMMA NextType ==
  ASSUME TypeOK, [Next]_vars
  PROVE  TypeOK'
<1>1. ASSUME NEW r \in Request, NEW l \in Limiter, NEW remote \in Address,
             NEW forwarded \in Address \cup {NULL}, NEW bearer \in Bearer \cup {NULL},
             Check(r, l, remote, forwarded, bearer)
      PROVE  TypeOK'
  <2> DEFINE k == KeyOf(l, remote, forwarded, bearer)
             new == [pc |-> "script", limiter |-> l, key |-> k, window |-> WindowNo(now)]
  <2>1. k \in Key
    BY <1>1, RateLimitAssumption DEF Check, KeyOf, IpKey, Key
  <2>2. WindowNo(now) \in Windows
    <3>1. now \in Nat /\ MaxTime \in Nat /\ now <= MaxTime
      BY RateLimitAssumption DEF TypeOK
    <3>2. WindowNo(now) \in Nat /\ WindowNo(MaxTime) \in Nat /\ WindowNo(now) <= WindowNo(MaxTime)
      BY <3>1, Division
    <3> QED
      BY <3>2 DEF Windows
  <2>3. new \in Slot /\ new.limiter = l /\ new.key = k /\ new.window = WindowNo(now)
    BY <2>1, <2>2 DEF Slot
  <2>4. req' = [req EXCEPT ![r] = new] /\ UNCHANGED <<now, counters, charged, passed, refused>>
    BY <1>1 DEF Check
  <2>5. WindowNo(now) <= WindowNo(now)
    BY <2>2, Division, RateLimitAssumption DEF TypeOK
  <2> HIDE DEF new, k
  <2>6. req' \in [Request -> Slot]
    BY <2>3, <2>4 DEF TypeOK
  <2>7. ASSUME NEW q \in Request, req'[q].pc = "script"
        PROVE  req'[q].limiter \in Limiter /\ req'[q].key \in Key
               /\ req'[q].window <= WindowNo(now')
    <3>1. CASE q = r
      BY <3>1, <2>1, <2>3, <2>4, <2>5 DEF TypeOK
    <3>2. CASE q # r
      BY <3>2, <2>4, <2>7 DEF TypeOK
    <3> QED
      BY <3>1, <3>2
  <2> QED
    BY <2>4, <2>6, <2>7 DEF TypeOK
<1>2. ASSUME NEW r \in Request, Script(r)
      PROVE  TypeOK'
  <2> DEFINE a == <<req[r].limiter, req[r].key, req[r].window>>
  <2>1. /\ req[r].pc = "script" /\ Charge(req[r])
        /\ req' = [req EXCEPT ![r] = Idle] /\ now' = now
    BY <1>2 DEF Script
  <2>2. a \in Account
    BY <2>1, SlotAccount
  <2>3. /\ refused' \in {refused, refused \cup {a}}
        /\ passed' \in {passed, [passed EXCEPT ![a] = Inc(@)]}
    BY <1>2 DEF Script
  <2>4. passed \in [Account -> 0..Many] /\ refused \subseteq Account
    BY DEF TypeOK
  <2>5. Inc(passed[a]) \in 0..Many
    BY <2>2, <2>4, IncType, RateLimitAssumption
  <2> HIDE DEF a
  <2>6. passed' \in [Account -> 0..Many] /\ refused' \subseteq Account
    BY <2>2, <2>3, <2>4, <2>5
  <2> QED
    BY <2>1, <2>6, ChargeType, AnsweredType DEF TypeOK
<1>3. ASSUME NEW r \in Request, NoAnswer(r)
      PROVE  TypeOK'
  <2>1. /\ req[r].pc = "script" /\ UNCHANGED <<now, passed, refused>>
        /\ req' = [req EXCEPT ![r] = Idle]
    BY <1>3 DEF NoAnswer
  <2>2. CASE Charge(req[r])
    BY <2>1, <2>2, ChargeType, AnsweredType DEF TypeOK
  <2>3. CASE UNCHANGED <<counters, charged>>
    BY <2>1, <2>3, AnsweredType DEF TypeOK
  <2> QED
    BY <1>3, <2>2, <2>3 DEF NoAnswer
<1>4. CASE Tick
  <2>1. now \in 0..MaxTime /\ now' = now + 1 /\ now' \in 0..MaxTime
    BY <1>4, RateLimitAssumption DEF Tick, TypeOK
  <2>2. WindowNo(now) \in Nat /\ WindowNo(now') \in Nat /\ WindowNo(now) <= WindowNo(now')
    BY <2>1, Division, RateLimitAssumption
  <2>3. ASSUME NEW c \in Key \X Windows
        PROVE  counters'[c] \in Counter /\ ((counters'[c].hits > 0) <=> (counters'[c].left > 0))
    <3>1. counters[c] \in Counter /\ ((counters[c].hits > 0) <=> (counters[c].left > 0))
      BY DEF TypeOK
    <3>2. counters'[c] = IF counters[c].left > 1 THEN [counters[c] EXCEPT !.left = @ - 1]
                         ELSE Gone
      BY <1>4 DEF Tick
    <3>3. CASE counters[c].left > 1
      BY <3>1, <3>2, <3>3, RateLimitAssumption DEF Counter
    <3>4. CASE ~(counters[c].left > 1)
      <4>1. Gone \in Counter /\ Gone.hits = 0 /\ Gone.left = 0
        BY RateLimitAssumption DEF Gone, Counter
      <4> QED
        BY <3>2, <3>4, <4>1
    <3> QED
      BY <3>3, <3>4
  <2>4. counters' \in [Key \X Windows -> Counter]
    BY <1>4, <2>3 DEF Tick
  <2>5. UNCHANGED <<req, charged, passed, refused>>
    BY <1>4 DEF Tick
  <2>6. ASSUME NEW r \in Request, req'[r].pc = "script"
        PROVE  req'[r].limiter \in Limiter /\ req'[r].key \in Key
               /\ req'[r].window <= WindowNo(now')
    <3>1. req[r].window \in Nat
      <4>1. WindowNo(MaxTime) \in Nat
        BY Division, RateLimitAssumption
      <4>2. req[r].pc = "script"
        BY <2>5, <2>6
      <4>3. req[r].window \in Windows
        BY <4>2, SlotAccount
      <4> QED
        BY <4>1, <4>3 DEF Windows
    <3> QED
      BY <3>1, <2>2, <2>5, <2>6 DEF TypeOK
  <2> QED
    BY <2>1, <2>3, <2>4, <2>5, <2>6 DEF TypeOK
<1>5. CASE UNCHANGED vars
  BY <1>5 DEF vars, TypeOK
<1> QED
  BY <1>1, <1>2, <1>3, <1>4, <1>5 DEF Next

\* rate_limit.rs:53-59: every state has the types of TypeOK; no counter is ever
\* left in Redis without an expiry.
THEOREM TypeCorrect == Spec => []TypeOK
<1>1. Init => TypeOK
  BY InitType
<1>2. TypeOK /\ [Next]_vars => TypeOK'
  BY NextType
<1> QED
  BY <1>1, <1>2, PTL DEF Spec

-----------------------------------------------------------------------------
\* While a window lasts, its counter has counted all that were let in and, once
\* hit, stays in Redis for as long as the window; later windows are untouched.
Covered(a) ==
  LET c == <<a[2], a[3]>> IN
  /\ passed[a] <= Allowance[a[1]]
  /\ a[3] > WindowNo(now) => passed[a] = 0 /\ counters[c].hits = 0
  /\ a[3] = WindowNo(now) =>
       /\ passed[a] <= counters[c].hits
       /\ counters[c].hits > 0 =>
            \A t \in Nat : now <= t /\ WindowNo(t) = a[3] => t < now + counters[c].left

QuotaInv == TypeOK /\ \A a \in Account : Covered(a)

LEMMA InitQuota ==
  ASSUME Init
  PROVE  QuotaInv
<1>1. TypeOK
  BY InitType
<1>2. ASSUME NEW a \in Account
      PROVE  Covered(a)
  <2>1. a[1] \in Limiter /\ a[2] \in Key /\ a[3] \in Windows /\ <<a[2], a[3]>> \in Key \X Windows
    BY DEF Account
  <2>2. counters[<<a[2], a[3]>>] = Gone /\ Gone.hits = 0 /\ passed[a] = 0
    BY <2>1 DEF Init, Gone
  <2>3. 0 <= Allowance[a[1]]
    BY <2>1, RateLimitAssumption
  <2> QED
    BY <2>2, <2>3 DEF Covered
<1> QED
  BY <1>1, <1>2 DEF QuotaInv

\* A request that is counted leaves every account covered.
LEMMA ChargeCovered ==
  ASSUME QuotaInv, NEW r \in Request, req[r].pc = "script", Charge(req[r]),
         now' = now, NEW a \in Account, passed'[a] = passed[a]
  PROVE  Covered(a)'
<1> DEFINE c == <<req[r].key, req[r].window>>
           d == <<a[2], a[3]>>
<1>1. a[1] \in Limiter /\ a[3] \in Windows /\ d \in Key \X Windows
  BY DEF Account
<1>2. c \in Key \X Windows /\ req[r].window <= WindowNo(now)
  BY SlotAccount DEF QuotaInv
<1>3. counters' = [counters EXCEPT ![c] = Hit(@)] /\ counters \in [Key \X Windows -> Counter]
  BY DEF Charge, QuotaInv, TypeOK
<1>4. Covered(a)
  BY DEF QuotaInv
<1>5. CASE c # d
  <2>1. counters'[d] = counters[d]
    BY <1>1, <1>2, <1>3, <1>5
  <2> QED
    BY <1>4, <2>1 DEF Covered
<1>6. CASE c = d
  <2>1. counters[d] \in Counter /\ ((counters[d].hits > 0) <=> (counters[d].left > 0))
        /\ counters[d].hits \in 0..Many /\ counters[d].left \in 0..Window
    BY <1>1 DEF QuotaInv, TypeOK, Counter
  <2>2. counters'[d] = Hit(counters[d])
    BY <1>2, <1>3, <1>6
  <2>3. /\ counters'[d].hits = Inc(counters[d].hits)
        /\ counters'[d].left = IF counters[d].hits = 0 THEN Window ELSE counters[d].left
    BY <2>1, <2>2, HitType
  <2>4. Inc(counters[d].hits) \in 1..Many /\ Inc(counters[d].hits) >= counters[d].hits
    BY <2>1, IncType
  <2>5. now \in Nat /\ WindowNo(now) \in Nat /\ a[3] \in Nat /\ passed[a] \in Nat /\ Many \in Nat
    <3>1. now \in Nat /\ passed[a] \in Nat /\ Many \in Nat
      BY RateLimitAssumption DEF QuotaInv, TypeOK
    <3>2. WindowNo(now) \in Nat /\ WindowNo(MaxTime) \in Nat
      BY <3>1, Division, RateLimitAssumption
    <3> QED
      BY <3>1, <3>2, <1>1 DEF Windows
  <2>6. a[3] = req[r].window
    BY <1>6
  <2>7. ~(a[3] > WindowNo(now))
    BY <1>2, <2>5, <2>6
  <2>8. ASSUME a[3] = WindowNo(now), NEW t \in Nat, now <= t, WindowNo(t) = a[3]
        PROVE  t < now + counters'[d].left
    <3>1. CASE counters[d].hits = 0
      <4>1. t < now + Window
        BY <2>5, <2>8, Division
      <4> QED
        BY <2>3, <3>1, <4>1
    <3>2. CASE counters[d].hits # 0
      <4>1. counters[d].hits > 0
        BY <2>1, <3>2
      <4> QED
        BY <1>4, <2>3, <2>8, <3>2, <4>1 DEF Covered
    <3> QED
      BY <3>1, <3>2
  <2>9. a[3] = WindowNo(now) => passed[a] <= counters'[d].hits
    <3>1. a[3] = WindowNo(now) => passed[a] <= counters[d].hits
      BY <1>4 DEF Covered
    <3> HIDE DEF c, d
    <3> QED
      BY <2>1, <2>3, <2>4, <2>5, <3>1
  <2>10. passed[a] <= Allowance[a[1]]
    BY <1>4 DEF Covered
  <2> QED
    BY <2>7, <2>8, <2>9, <2>10 DEF Covered
<1> QED
  BY <1>5, <1>6

\* A request that is let in fits in its account's allowance.
LEMMA PassCovered ==
  ASSUME QuotaInv, NEW r \in Request, Script(r),
         NEW a \in Account, a = <<req[r].limiter, req[r].key, req[r].window>>,
         passed' = [passed EXCEPT ![a] = Inc(@)],
         WindowNo(now) = req[r].window,
         ~Over(req[r].limiter, counters'[<<req[r].key, req[r].window>>].hits)
  PROVE  Covered(a)'
<1> DEFINE d == <<a[2], a[3]>>
<1>1. /\ req[r].pc = "script" /\ Charge(req[r]) /\ now' = now
      /\ a[1] \in Limiter /\ d \in Key \X Windows
      /\ a[1] = req[r].limiter /\ a[3] = req[r].window /\ d = <<req[r].key, req[r].window>>
  BY DEF Script, Account
<1>2. /\ counters' = [counters EXCEPT ![d] = Hit(@)] /\ counters \in [Key \X Windows -> Counter]
      /\ passed \in [Account -> 0..Many] /\ now \in Nat
  BY <1>1, RateLimitAssumption DEF Charge, QuotaInv, TypeOK
<1>3. counters[d] \in Counter /\ ((counters[d].hits > 0) <=> (counters[d].left > 0))
      /\ counters[d].hits \in 0..Many /\ counters[d].left \in 0..Window
  BY <1>1 DEF QuotaInv, TypeOK, Counter
<1>4. /\ counters'[d].hits = Inc(counters[d].hits)
      /\ counters'[d].left = IF counters[d].hits = 0 THEN Window ELSE counters[d].left
  BY <1>1, <1>2, <1>3, HitType
<1>5. passed'[a] = Inc(passed[a]) /\ passed[a] \in 0..Many
  BY <1>2
<1>6. Covered(a)
  BY DEF QuotaInv
<1>7. passed[a] <= counters[d].hits
  BY <1>1, <1>6 DEF Covered
<1>8. Inc(passed[a]) <= Inc(counters[d].hits)
  BY <1>3, <1>5, <1>7, RateLimitAssumption DEF Inc
<1>9. counters'[d].hits <= Allowance[a[1]] /\ Allowance[a[1]] \in Nat
      /\ counters'[d].hits \in Nat
  <2>1. Inc(counters[d].hits) \in Nat
    BY <1>3, IncType, RateLimitAssumption
  <2>2. Allowance[a[1]] \in Nat
    BY <1>1, RateLimitAssumption
  <2>3. ~(counters'[d].hits > Allowance[a[1]])
    BY <1>1 DEF Over
  <2> QED
    BY <1>4, <2>1, <2>2, <2>3
<1>10. passed'[a] <= counters'[d].hits /\ passed'[a] <= Allowance[a[1]]
  <2>1. passed'[a] \in Nat
    BY <1>5, IncType, RateLimitAssumption
  <2> HIDE DEF d
  <2> QED
    BY <1>4, <1>5, <1>8, <1>9, <2>1
<1>11. ASSUME NEW t \in Nat, now <= t, WindowNo(t) = a[3]
       PROVE  t < now + counters'[d].left
  <2>1. CASE counters[d].hits = 0
    <3>1. t < now + Window
      BY <1>1, <1>2, <1>11, Division
    <3> QED
      BY <1>4, <2>1, <3>1
  <2>2. CASE counters[d].hits # 0
    <3>1. counters[d].hits > 0
      BY <1>3, <2>2
    <3> QED
      BY <1>1, <1>4, <1>6, <1>11, <2>2, <3>1 DEF Covered
  <2> QED
    BY <2>1, <2>2
<1>12. a[3] = WindowNo(now') /\ ~(a[3] > WindowNo(now'))
  <2>1. a[3] = WindowNo(now') /\ a[3] \in Nat
    BY <1>1, <1>2, Division
  <2> QED
    BY <2>1
<1> QED
  BY <1>1, <1>10, <1>11, <1>12 DEF Covered

LEMMA NextQuota ==
  ASSUME QuotaInv, [Next]_vars
  PROVE  QuotaInv'
<1>1. TypeOK /\ TypeOK'
  BY NextType DEF QuotaInv
<1>2. ASSUME NEW a \in Account
      PROVE  Covered(a)'
  <2>1. Covered(a)
    BY DEF QuotaInv
  <2>2. ASSUME NEW r \in Request, NEW l \in Limiter, NEW remote \in Address,
               NEW forwarded \in Address \cup {NULL}, NEW bearer \in Bearer \cup {NULL},
               Check(r, l, remote, forwarded, bearer)
        PROVE  Covered(a)'
    <3>1. UNCHANGED <<now, counters, passed>>
      BY <2>2 DEF Check
    <3> QED
      BY <2>1, <3>1 DEF Covered
  <2>3. ASSUME NEW r \in Request, Script(r)
        PROVE  Covered(a)'
    <3> DEFINE b == <<req[r].limiter, req[r].key, req[r].window>>
    <3>1. req[r].pc = "script" /\ Charge(req[r]) /\ now' = now
      BY <2>3 DEF Script
    <3>2. b \in Account /\ passed \in [Account -> 0..Many]
      BY <1>1, <3>1, SlotAccount DEF TypeOK
    <3>3. CASE passed'[a] = passed[a]
      BY <3>1, <3>3, ChargeCovered
    <3>4. CASE passed'[a] # passed[a]
      <4>1. /\ ~Over(req[r].limiter, counters'[<<req[r].key, req[r].window>>].hits)
            /\ WindowNo(now) = req[r].window
            /\ passed' = [passed EXCEPT ![b] = Inc(@)]
        BY <2>3, <3>4 DEF Script
      <4>2. a = b
        BY <3>2, <3>4, <4>1
      <4> QED
        BY <2>3, <4>1, <4>2, PassCovered
    <3> QED
      BY <3>3, <3>4
  <2>4. ASSUME NEW r \in Request, NoAnswer(r)
        PROVE  Covered(a)'
    <3>1. req[r].pc = "script" /\ UNCHANGED <<now, passed>>
      BY <2>4 DEF NoAnswer
    <3>2. CASE Charge(req[r])
      BY <3>1, <3>2, ChargeCovered
    <3>3. CASE UNCHANGED <<counters, charged>>
      BY <2>1, <3>1, <3>3 DEF Covered
    <3> QED
      BY <2>4, <3>2, <3>3 DEF NoAnswer
  <2>5. CASE Tick
    <3> DEFINE d == <<a[2], a[3]>>
    <3>1. now \in Nat /\ now' = now + 1 /\ passed' = passed
      BY <1>1, <2>5, RateLimitAssumption DEF Tick, TypeOK
    <3>2. /\ WindowNo(now) \in Nat /\ WindowNo(now') \in Nat /\ WindowNo(now) <= WindowNo(now')
      BY <3>1, Division
    <3>3. d \in Key \X Windows /\ a[1] \in Limiter /\ a[3] \in Nat
      <4>1. d \in Key \X Windows /\ a[1] \in Limiter /\ a[3] \in Windows
        BY DEF Account
      <4>2. WindowNo(MaxTime) \in Nat
        BY Division, RateLimitAssumption
      <4> QED
        BY <4>1, <4>2 DEF Windows
    <3>4. counters[d].hits \in Nat /\ counters[d].left \in Nat
          /\ ((counters[d].hits > 0) <=> (counters[d].left > 0)) /\ passed[a] \in Nat
      BY <1>1, <3>3, RateLimitAssumption DEF TypeOK, Counter
    <3>5. counters'[d] = IF counters[d].left > 1 THEN [counters[d] EXCEPT !.left = @ - 1]
                         ELSE Gone
      BY <2>5, <3>3 DEF Tick
    <3>6. counters[d] \in Counter
      BY <1>1, <3>3 DEF TypeOK
    <3>7. /\ counters[d].left > 1 => /\ counters'[d].hits = counters[d].hits
                                     /\ counters'[d].left = counters[d].left - 1
          /\ ~(counters[d].left > 1) => counters'[d].hits = 0
      BY <3>5, <3>6 DEF Counter, Gone
    <3> HIDE DEF d
    <3>8. CASE a[3] > WindowNo(now')
      <4>1. a[3] > WindowNo(now)
        BY <3>2, <3>3, <3>8
      <4>2. passed[a] = 0 /\ counters[d].hits = 0
        BY <2>1, <4>1 DEF Covered, d
      <4>3. counters'[d].hits = 0
        BY <3>4, <3>7, <4>2
      <4>4. a[3] # WindowNo(now')
        BY <3>2, <3>3, <3>8
      <4> QED
        BY <2>1, <3>1, <4>2, <4>3, <4>4 DEF Covered, d
    <3>9. CASE a[3] = WindowNo(now') /\ a[3] = WindowNo(now)
      <4>1. /\ passed[a] <= counters[d].hits
            /\ counters[d].hits > 0 =>
                 \A t \in Nat : now <= t /\ WindowNo(t) = a[3] => t < now + counters[d].left
        BY <2>1, <3>9 DEF Covered, d
      <4>2. counters[d].hits > 0 => counters[d].left > 1
        <5>1. now' \in Nat /\ now <= now'
          BY <3>1
        <5>2. counters[d].hits > 0 => now' < now + counters[d].left
          BY <3>9, <4>1, <5>1
        <5> QED
          BY <3>1, <3>4, <5>2
      <4>3. counters'[d].hits = counters[d].hits
        BY <3>4, <3>7, <4>2
      <4>4. ASSUME counters'[d].hits > 0, NEW t \in Nat, now' <= t, WindowNo(t) = a[3]
            PROVE  t < now' + counters'[d].left
        <5>1. t < now + counters[d].left
          BY <3>1, <4>1, <4>3, <4>4
        <5> QED
          BY <3>1, <3>4, <3>7, <4>2, <4>3, <4>4, <5>1
      <4>5. ~(a[3] > WindowNo(now'))
        BY <3>2, <3>9
      <4>6. passed[a] <= Allowance[a[1]]
        BY <2>1 DEF Covered
      <4> QED
        BY <3>1, <4>1, <4>3, <4>4, <4>5, <4>6 DEF Covered, d
    <3>10. CASE a[3] = WindowNo(now') /\ a[3] # WindowNo(now)
      <4>1. a[3] > WindowNo(now)
        BY <3>2, <3>3, <3>10
      <4>2. passed[a] = 0 /\ counters[d].hits = 0
        BY <2>1, <4>1 DEF Covered, d
      <4>3. counters'[d].hits = 0 /\ ~(counters'[d].hits > 0)
        BY <3>4, <3>7, <4>2
      <4>4. ~(a[3] > WindowNo(now'))
        BY <3>2, <3>10
      <4>5. passed[a] <= Allowance[a[1]] /\ passed'[a] <= counters'[d].hits
        BY <2>1, <3>1, <4>2, <4>3 DEF Covered
      <4> QED
        BY <3>1, <4>3, <4>4, <4>5 DEF Covered, d
    <3>11. CASE ~(a[3] > WindowNo(now')) /\ a[3] # WindowNo(now')
      BY <2>1, <3>1, <3>11 DEF Covered
    <3> QED
      BY <3>8, <3>9, <3>10, <3>11
  <2>6. CASE UNCHANGED vars
    BY <2>1, <2>6 DEF vars, Covered
  <2> QED
    BY <2>2, <2>3, <2>4, <2>5, <2>6 DEF Next
<1> QED
  BY <1>1, <1>2 DEF QuotaInv

\* rate_limit.rs:18-21, 46-75: in no window does a limiter let more requests of a
\* caller in than its allowance, however the checks of the replicas interleave.
THEOREM QuotaCorrect == Spec => []QuotaKept
<1>1. Init => QuotaInv
  BY InitQuota
<1>2. QuotaInv /\ [Next]_vars => QuotaInv'
  BY NextQuota
<1>3. QuotaInv => QuotaKept
  BY DEF QuotaInv, Covered, QuotaKept
<1> QED
  BY <1>1, <1>2, <1>3, PTL DEF Spec

-----------------------------------------------------------------------------
\* No counter has counted more requests than its caller made, over all
\* limiters; whoever was refused had a caller with too many of them.
CountedIn(k, w) == counters[<<k, w>>].hits <= Cardinality(Charges(k, w))

BusyInv ==
  /\ TypeOK
  /\ \A k \in Key, w \in Windows : CountedIn(k, w)
  /\ RefusedMeansBusy

\* The requests of a caller in a window are finitely many.
LEMMA ChargesFinite ==
  ASSUME TypeOK, NEW k \in Key, NEW w \in Windows
  PROVE  IsFiniteSet(Charges(k, w)) /\ Cardinality(Charges(k, w)) \in Nat
<1>1. IsFiniteSet(Limiter) /\ IsFiniteSet(1..Many)
  BY FS_Interval, RateLimitAssumption
<1>2. IsFiniteSet(Limiter \X (1..Many))
  BY <1>1, FS_Product
<1>3. Charges(k, w) \in SUBSET (Limiter \X (1..Many))
  BY DEF Charges
<1>4. IsFiniteSet(Charges(k, w))
  BY <1>2, <1>3, FS_Subset
<1> QED
  BY <1>4, FS_CardinalityType

\* A limiter that has counted up to the bound makes its caller as busy.
LEMMA ChargesFull ==
  ASSUME TypeOK, NEW l \in Limiter, NEW k \in Key, NEW w \in Windows,
         charged[<<l, k, w>>] = Many
  PROVE  Many <= Cardinality(Charges(k, w))
<1> DEFINE nth == [n \in 1..Many |-> <<l, n>>]
<1>1. Many \in Nat /\ IsFiniteSet(1..Many) /\ Cardinality(1..Many) = Many
  BY FS_Interval, RateLimitAssumption
<1>2. nth \in Injection(1..Many, Charges(k, w))
  <2>1. nth \in [1..Many -> Charges(k, w)]
    BY <1>1 DEF Charges
  <2>2. \A m, n \in 1..Many : nth[m] = nth[n] => m = n
    OBVIOUS
  <2> QED
    BY <2>1, <2>2 DEF Injection, IsInjective
<1>3. IsFiniteSet(Charges(k, w))
  BY ChargesFinite
<1> HIDE DEF nth
<1>4. Cardinality(1..Many) <= Cardinality(Charges(k, w))
  BY <1>2, <1>3, FS_Injection
<1> QED
  BY <1>1, <1>4

\* Both lemmas hold of the next state as well.
LEMMA ChargesFiniteNext ==
  (\A k \in Key, w \in Windows :
     TypeOK => IsFiniteSet(Charges(k, w)) /\ Cardinality(Charges(k, w)) \in Nat)'
<1>1. \A k \in Key, w \in Windows :
        TypeOK => IsFiniteSet(Charges(k, w)) /\ Cardinality(Charges(k, w)) \in Nat
  BY ChargesFinite
<1> QED
  BY <1>1, PTL

LEMMA ChargesFullNext ==
  (\A l \in Limiter, k \in Key, w \in Windows :
     TypeOK /\ charged[<<l, k, w>>] = Many => Many <= Cardinality(Charges(k, w)))'
<1>1. \A l \in Limiter, k \in Key, w \in Windows :
        TypeOK /\ charged[<<l, k, w>>] = Many => Many <= Cardinality(Charges(k, w))
  BY ChargesFull
<1> QED
  BY <1>1, PTL

\* A request that is counted, whichever limiter asked, leaves its caller as busy
\* as its counter says, and every other no less busy than before.
LEMMA ChargeBusy ==
  ASSUME BusyInv, TypeOK', NEW r \in Request, req[r].pc = "script", Charge(req[r]),
         NEW k \in Key, NEW w \in Windows
  PROVE  CountedIn(k, w)' /\ Cardinality(Charges(k, w)) <= Cardinality(Charges(k, w))'
<1> DEFINE c == <<req[r].key, req[r].window>>
           b == <<req[r].limiter, req[r].key, req[r].window>>
<1>1. c \in Key \X Windows /\ b \in Account /\ req[r].limiter \in Limiter
  BY SlotAccount DEF BusyInv
<1>2. /\ counters' = [counters EXCEPT ![c] = Hit(@)] /\ counters \in [Key \X Windows -> Counter]
      /\ charged' = [charged EXCEPT ![b] = Inc(@)] /\ charged \in [Account -> 0..Many]
  BY DEF Charge, BusyInv, TypeOK
<1>3. charged[b] \in 0..Many /\ charged'[b] = Inc(charged[b])
      /\ \A a \in Account : a # b => charged'[a] = charged[a]
  BY <1>1, <1>2
<1>4. /\ IsFiniteSet(Charges(k, w)) /\ Cardinality(Charges(k, w)) \in Nat
      /\ IsFiniteSet(Charges(k, w)') /\ Cardinality(Charges(k, w)') \in Nat
  <2>1. IsFiniteSet(Charges(k, w)) /\ Cardinality(Charges(k, w)) \in Nat
    BY ChargesFinite DEF BusyInv
  <2> QED
    BY <2>1, ChargesFiniteNext
<1>5. Charges(k, w) \subseteq Charges(k, w)'
  <2>1. ASSUME NEW l \in Limiter
        PROVE  charged[<<l, k, w>>] <= charged'[<<l, k, w>>] /\ charged[<<l, k, w>>] \in Nat
               /\ charged'[<<l, k, w>>] \in Nat
    <3>1. <<l, k, w>> \in Account
      BY DEF Account
    <3>2. Inc(charged[b]) >= charged[b] /\ Inc(charged[b]) \in Nat
      BY <1>3, IncType, RateLimitAssumption
    <3>3. charged[<<l, k, w>>] \in 0..Many
      BY <1>2, <3>1
    <3> HIDE DEF b
    <3> QED
      BY <1>3, <3>1, <3>2, <3>3, RateLimitAssumption
  <2> QED
    BY <2>1, RateLimitAssumption DEF Charges
<1>6. Cardinality(Charges(k, w)) <= Cardinality(Charges(k, w)')
  BY <1>4, <1>5, FS_Subset
<1>7. CountedIn(k, w)
  BY DEF BusyInv
<1>8. CASE c # <<k, w>>
  <2>1. counters'[<<k, w>>] = counters[<<k, w>>] /\ counters[<<k, w>>] \in Counter
    BY <1>1, <1>2, <1>8
  <2>2. counters[<<k, w>>].hits \in Nat
    BY <2>1, RateLimitAssumption DEF Counter
  <2> QED
    BY <1>4, <1>6, <1>7, <2>1, <2>2 DEF CountedIn
<1>9. CASE c = <<k, w>>
  <2>1. /\ counters[<<k, w>>] \in Counter /\ counters[<<k, w>>].hits \in 0..Many
        /\ ((counters[<<k, w>>].hits > 0) <=> (counters[<<k, w>>].left > 0))
    BY <1>1, <1>9 DEF BusyInv, TypeOK, Counter
  <2>2. counters'[<<k, w>>].hits = Inc(counters[<<k, w>>].hits)
    BY <1>1, <1>2, <1>9, <2>1, HitType
  <2>3. /\ Inc(counters[<<k, w>>].hits) \in 1..Many
        /\ Inc(counters[<<k, w>>].hits) <= counters[<<k, w>>].hits + 1
    BY <2>1, IncType
  <2>4. b = <<req[r].limiter, k, w>>
    BY <1>9
  <2>5. CASE charged[b] < Many
    <3> DEFINE new == <<req[r].limiter, charged[b] + 1>>
    <3>1. charged'[b] = charged[b] + 1 /\ charged[b] + 1 \in 1..Many
      BY <1>3, <2>5, RateLimitAssumption DEF Inc
    <3>2. new \in Charges(k, w)'
      BY <1>1, <2>4, <3>1, RateLimitAssumption DEF Charges
    <3>3. new \notin Charges(k, w)
      BY <1>3, <2>4 DEF Charges
    <3>4. Cardinality(Charges(k, w) \cup {new}) = Cardinality(Charges(k, w)) + 1
      BY <1>4, <3>3, FS_AddElement
    <3>5. Cardinality(Charges(k, w) \cup {new}) <= Cardinality(Charges(k, w)')
      <4>1. (Charges(k, w) \cup {new}) \in SUBSET Charges(k, w)'
        BY <1>5, <3>2
      <4> QED
        BY <1>4, <4>1, FS_Subset
    <3>6. counters[<<k, w>>].hits <= Cardinality(Charges(k, w))
      BY <1>7 DEF CountedIn
    <3> HIDE DEF b, c, new
    <3>7. Inc(counters[<<k, w>>].hits) <= Cardinality(Charges(k, w)')
      BY <1>4, <2>1, <2>3, <3>4, <3>5, <3>6
    <3> QED
      BY <1>6, <2>2, <3>7 DEF CountedIn
  <2>6. CASE ~(charged[b] < Many)
    <3>1. charged'[b] = Many
      BY <1>3, <2>6, RateLimitAssumption DEF Inc
    <3>2. Many <= Cardinality(Charges(k, w)')
      BY <1>1, <2>4, <3>1, ChargesFullNext
    <3> HIDE DEF b, c
    <3>3. Inc(counters[<<k, w>>].hits) <= Cardinality(Charges(k, w)')
      BY <1>4, <2>3, <3>2, RateLimitAssumption
    <3> QED
      BY <1>6, <2>2, <3>3 DEF CountedIn
  <2> QED
    BY <2>5, <2>6
<1> QED
  BY <1>6, <1>8, <1>9

\* Nobody who was refused turns out to have asked for less.
LEMMA StillBusy ==
  ASSUME BusyInv, TypeOK',
         \A k \in Key, w \in Windows : Cardinality(Charges(k, w)) <= Cardinality(Charges(k, w))'
  PROVE  \A b \in refused : Cardinality(Charges(b[2], b[3]))' > Allowance[b[1]]
<1>1. ASSUME NEW b \in refused
      PROVE  Cardinality(Charges(b[2], b[3]))' > Allowance[b[1]]
  <2>1. b[1] \in Limiter /\ b[2] \in Key /\ b[3] \in Windows
    BY DEF BusyInv, TypeOK, Account
  <2>2. Cardinality(Charges(b[2], b[3])) > Allowance[b[1]]
    BY DEF BusyInv, RefusedMeansBusy
  <2>3. Cardinality(Charges(b[2], b[3])) <= Cardinality(Charges(b[2], b[3]))'
    BY <2>1
  <2>4. Cardinality(Charges(b[2], b[3])) \in Nat /\ Cardinality(Charges(b[2], b[3]))' \in Nat
    <3>1. Cardinality(Charges(b[2], b[3])) \in Nat
      BY <2>1, ChargesFinite DEF BusyInv
    <3> QED
      BY <2>1, <3>1, ChargesFiniteNext
  <2>5. Allowance[b[1]] \in Nat
    BY <2>1, RateLimitAssumption
  <2> QED
    BY <2>2, <2>3, <2>4, <2>5
<1> QED
  BY <1>1

LEMMA InitBusy ==
  ASSUME Init
  PROVE  BusyInv
<1>1. TypeOK
  BY InitType
<1>2. ASSUME NEW k \in Key, NEW w \in Windows
      PROVE  CountedIn(k, w)
  <2>1. counters[<<k, w>>].hits = 0
    BY DEF Init, Gone
  <2>2. Cardinality(Charges(k, w)) \in Nat
    BY <1>1, ChargesFinite
  <2> QED
    BY <2>1, <2>2 DEF CountedIn
<1>3. RefusedMeansBusy
  BY DEF Init, RefusedMeansBusy
<1> QED
  BY <1>1, <1>2, <1>3 DEF BusyInv

LEMMA NextBusy ==
  ASSUME BusyInv, [Next]_vars
  PROVE  BusyInv'
<1>1. TypeOK /\ TypeOK'
  BY NextType DEF BusyInv
<1>2. ASSUME UNCHANGED <<counters, charged, refused>>
      PROVE  BusyInv'
  BY <1>1, <1>2 DEF BusyInv, CountedIn, RefusedMeansBusy, Charges
<1>3. ASSUME NEW r \in Request, req[r].pc = "script", Charge(req[r]), refused' = refused
      PROVE  BusyInv'
  <2>1. \A k \in Key, w \in Windows :
          CountedIn(k, w)' /\ Cardinality(Charges(k, w)) <= Cardinality(Charges(k, w))'
    BY <1>1, <1>3, ChargeBusy
  <2>2. RefusedMeansBusy'
    BY <1>1, <1>3, <2>1, StillBusy DEF RefusedMeansBusy
  <2> QED
    BY <1>1, <2>1, <2>2 DEF BusyInv
<1>4. ASSUME NEW r \in Request, Script(r)
      PROVE  BusyInv'
  <2>1. req[r].pc = "script" /\ Charge(req[r])
    BY <1>4 DEF Script
  <2>2. \A k \in Key, w \in Windows :
          CountedIn(k, w)' /\ Cardinality(Charges(k, w)) <= Cardinality(Charges(k, w))'
    BY <1>1, <2>1, ChargeBusy
  <2>3. PICK l \in Limiter, k \in Key, w \in Windows :
          l = req[r].limiter /\ k = req[r].key /\ w = req[r].window
    BY <1>1, <2>1, SlotAccount
  <2>4. CASE refused' = refused
    BY <1>3, <2>1, <2>4
  <2>5. CASE refused' = refused \cup {<<l, k, w>>} /\ Over(l, counters'[<<k, w>>].hits)
    <3>1. counters'[<<k, w>>].hits > Allowance[l]
      BY <2>5 DEF Over
    <3>2. counters'[<<k, w>>].hits <= Cardinality(Charges(k, w))'
      BY <2>2 DEF CountedIn
    <3>3. counters'[<<k, w>>].hits \in Nat /\ Allowance[l] \in Nat
      BY <1>1, RateLimitAssumption DEF TypeOK, Counter
    <3>4. Cardinality(Charges(k, w))' \in Nat
      BY <1>1, ChargesFiniteNext
    <3>5. Cardinality(Charges(k, w))' > Allowance[l]
      BY <3>1, <3>2, <3>3, <3>4
    <3>6. \A b \in refused : Cardinality(Charges(b[2], b[3]))' > Allowance[b[1]]
      BY <1>1, <2>2, StillBusy
    <3>7. RefusedMeansBusy'
      <4>1. ASSUME NEW b \in refused'
            PROVE  Cardinality(Charges(b[2], b[3]))' > Allowance[b[1]]
        <5>1. CASE b \in refused
          BY <3>6, <5>1
        <5>2. CASE b = <<l, k, w>>
          <6>1. b[1] = l /\ b[2] = k /\ b[3] = w
            BY <5>2
          <6> QED
            BY <3>5, <6>1
        <5> QED
          BY <2>5, <5>1, <5>2
      <4> QED
        BY <4>1 DEF RefusedMeansBusy
    <3> QED
      BY <1>1, <2>2, <3>7 DEF BusyInv
  <2> QED
    BY <1>4, <2>3, <2>4, <2>5 DEF Script
<1>5. ASSUME NEW r \in Request, NoAnswer(r)
      PROVE  BusyInv'
  <2>1. req[r].pc = "script" /\ refused' = refused
    BY <1>5 DEF NoAnswer
  <2>2. CASE Charge(req[r])
    BY <1>3, <2>1, <2>2
  <2>3. CASE UNCHANGED <<counters, charged>>
    BY <1>2, <2>1, <2>3
  <2> QED
    BY <1>5, <2>2, <2>3 DEF NoAnswer
<1>6. CASE Tick
  <2>1. UNCHANGED <<charged, refused>>
    BY <1>6 DEF Tick
  <2>2. RefusedMeansBusy'
    BY <2>1 DEF BusyInv, RefusedMeansBusy, Charges
  <2>3. ASSUME NEW k \in Key, NEW w \in Windows
        PROVE  CountedIn(k, w)'
    <3>1. counters[<<k, w>>] \in Counter /\ counters[<<k, w>>].hits \in Nat
      BY <1>1, RateLimitAssumption DEF TypeOK, Counter
    <3>2. counters'[<<k, w>>] = IF counters[<<k, w>>].left > 1
                                THEN [counters[<<k, w>>] EXCEPT !.left = @ - 1] ELSE Gone
      BY <1>6 DEF Tick
    <3>3. counters'[<<k, w>>].hits \in {0, counters[<<k, w>>].hits}
      BY <3>1, <3>2 DEF Counter, Gone
    <3>4. counters[<<k, w>>].hits <= Cardinality(Charges(k, w))
      BY DEF BusyInv, CountedIn
    <3>5. Charges(k, w)' = Charges(k, w)
      BY <2>1 DEF Charges
    <3>6. Cardinality(Charges(k, w)) \in Nat
      BY <1>1, ChargesFinite
    <3>7. counters'[<<k, w>>].hits <= Cardinality(Charges(k, w))
      BY <3>1, <3>3, <3>4, <3>6
    <3> QED
      BY <3>5, <3>7 DEF CountedIn
  <2> QED
    BY <1>1, <2>2, <2>3 DEF BusyInv
<1>7. ASSUME NEW r \in Request, NEW l \in Limiter, NEW remote \in Address,
             NEW forwarded \in Address \cup {NULL}, NEW bearer \in Bearer \cup {NULL},
             Check(r, l, remote, forwarded, bearer)
      PROVE  BusyInv'
  BY <1>2, <1>7 DEF Check
<1>8. CASE UNCHANGED vars
  BY <1>2, <1>8 DEF vars
<1> QED
  BY <1>4, <1>5, <1>6, <1>7, <1>8 DEF Next

\* rate_limit.rs:58-64: whoever is refused has a caller whose counted requests of
\* that window, over all limiters, exceed the allowance of the limiter that
\* refused; no expired counter and no lost answer makes a limiter count too many.
THEOREM RefusedCorrect == Spec => []RefusedMeansBusy
<1>1. Init => BusyInv
  BY InitBusy
<1>2. BusyInv /\ [Next]_vars => BusyInv'
  BY NextBusy
<1>3. BusyInv => RefusedMeansBusy
  BY DEF BusyInv
<1> QED
  BY <1>1, <1>2, <1>3, PTL DEF Spec
=============================================================================
