----------------------------- MODULE RateLimit -----------------------------
(***************************************************************************)
(* The rate limiters in front of the routes: fixed windows counted in      *)
(* Redis.  A check reads the clock of its replica, derives the window's    *)
(* number and sends one Lua script, which counts the request and compares; *)
(* the script may run after that window has ended, the Redis key may have  *)
(* expired by then, and when Redis does not answer the request is let in.  *)
(* The Redis key names the caller and the window, not the limiter.         *)
(*                                                                         *)
(* The replicas' clocks are taken to agree.  Redis loses no key before its *)
(* time.                                                                   *)
(***************************************************************************)
EXTENDS Integers, FiniteSets

CONSTANTS
  Limiter,    \* authorize, password, token, introspect, mgmt
  Allowance,  \* limiter -> max_requests
  ByBearer,   \* limiters keyed by service_token_key; the others by ip_key
  Address,    \* IP addresses of clients and proxies
  Proxy,      \* those in ASPECTUS_TRUSTED_PROXIES
  Bearer,     \* hashes of the service tokens presented
  Request,    \* requests in flight, over all replicas
  NULL,
  Window,     \* window_secs, in ticks
  MaxTime,    \* bound: time stops here, at the end of a window
  Many        \* bound: counts stop here, beyond every allowance

ASSUME RateLimitAssumption ==
  /\ IsFiniteSet(Limiter)
  /\ Allowance \in [Limiter -> Nat \ {0}]
  /\ Many \in Nat \ {0} /\ \A l \in Limiter : Allowance[l] < Many
  /\ Window \in Nat \ {0} /\ MaxTime \in Nat
  /\ ByBearer \subseteq Limiter /\ Proxy \subseteq Address
  /\ NULL \notin Address \cup Bearer \cup Limiter

VARIABLES
  now,
  counters,  \* <<key, window>> -> count and what is left until EXPIRE
  req,
  \* What happened, for the properties; counts beyond every allowance are one.
  charged,   \* <<limiter, key, window>> -> requests counted for this limiter
  passed,    \* of those, let in while their window lasted
  refused    \* <<limiter, key, window>> of which a request got 429

vars == <<now, counters, req, charged, passed, refused>>

Key  == Address \cup Bearer
WindowNo(t) == t \div Window
Windows == 0..WindowNo(MaxTime)
Account == Limiter \X Key \X Windows

\* No comparison tells counts from Many on apart.
Inc(n) == IF n < Many THEN n + 1 ELSE n

Counter == [hits : 0..Many, left : 0..Window]
Gone == [hits |-> 0, left |-> 0]

Slot == [pc : {"idle", "script"}, limiter : Limiter \cup {NULL},
         key : Key \cup {NULL}, window : Windows]
Idle == [pc |-> "idle", limiter |-> NULL, key |-> NULL, window |-> 0]

Init ==
  /\ now = 0
  /\ counters = [c \in Key \X Windows |-> Gone]
  /\ req = [r \in Request |-> Idle]
  /\ charged = [a \in Account |-> 0]
  /\ passed = [a \in Account |-> 0]
  /\ refused = {}

-----------------------------------------------------------------------------
\* The leftmost X-Forwarded-For entry counts only behind a trusted proxy.
IpKey(remote, forwarded) ==
  IF forwarded # NULL /\ remote \in Proxy THEN forwarded ELSE remote

KeyOf(l, remote, forwarded, bearer) ==
  IF l \in ByBearer THEN bearer ELSE IpKey(remote, forwarded)

\* The layer of a route guarded by l, up to the await of the script.  Where the
\* key is the bearer's, authentication ran before.
Check(r, l, remote, forwarded, bearer) ==
  /\ req[r].pc = "idle"
  /\ l \in ByBearer => bearer # NULL
  /\ req' = [req EXCEPT ![r] = [pc |-> "script", limiter |-> l,
                                key |-> KeyOf(l, remote, forwarded, bearer),
                                window |-> WindowNo(now)]]
  /\ UNCHANGED <<now, counters, charged, passed, refused>>

\* Mutant: the expiry runs from the start of the window and is one tick short.
HitShort(c) ==
  IF c.hits = 0 THEN [hits |-> 1, left |-> IF Window > 1 THEN Window - 1 ELSE 1]
  ELSE [c EXCEPT !.hits = Inc(@)]

\* Mutant: the first hit's EXPIRE is lost.
HitLasting(c) == [hits |-> Inc(c.hits), left |-> c.left]

\* INCR, and EXPIRE on the first hit.
Hit(c) ==
  IF c.hits = 0 THEN [hits |-> 1, left |-> Window] ELSE [c EXCEPT !.hits = Inc(@)]

\* Mutant: the comparison is off by one.
OverAtLimit(l, hits) == hits >= Allowance[l]

Over(l, hits) == hits > Allowance[l]

Charge(slot) ==
  LET c == <<slot.key, slot.window>> IN
  /\ counters' = [counters EXCEPT ![c] = Hit(@)]
  /\ charged' = [charged EXCEPT ![<<slot.limiter, slot.key, slot.window>>] = Inc(@)]

\* The script ran and its answer arrived: 429, or the handler runs.
Script(r) ==
  LET slot == req[r]
      account == <<slot.limiter, slot.key, slot.window>>
      over == Over(slot.limiter, counters'[<<slot.key, slot.window>>].hits)
  IN /\ slot.pc = "script"
     /\ Charge(slot)
     /\ refused' = IF over THEN refused \cup {account} ELSE refused
     /\ passed' = IF over \/ WindowNo(now) # slot.window THEN passed
                  ELSE [passed EXCEPT ![account] = Inc(@)]
     /\ req' = [req EXCEPT ![r] = Idle]
     /\ UNCHANGED now

\* No answer, whether or not the script ran: Redis fails and the request is let
\* in, or the caller hangs up and the handler is dropped at its await.
NoAnswer(r) ==
  /\ req[r].pc = "script"
  /\ Charge(req[r]) \/ UNCHANGED <<counters, charged>>
  /\ req' = [req EXCEPT ![r] = Idle]
  /\ UNCHANGED <<now, passed, refused>>

\* Time passes, and Redis drops the keys whose time has come.
Tick ==
  /\ now < MaxTime
  /\ now' = now + 1
  /\ counters' = [c \in Key \X Windows |->
                    IF counters[c].left > 1 THEN [counters[c] EXCEPT !.left = @ - 1] ELSE Gone]
  /\ UNCHANGED <<req, charged, passed, refused>>

Next ==
  \/ \E r \in Request :
       \/ \E l \in Limiter, remote \in Address, forwarded \in Address \cup {NULL},
             bearer \in Bearer \cup {NULL} : Check(r, l, remote, forwarded, bearer)
       \/ Script(r)
       \/ NoAnswer(r)
  \/ Tick

Spec == Init /\ [][Next]_vars

-----------------------------------------------------------------------------
\* Types, and: a counter in Redis always has an expiry of at most one window
\* (rate_limit.rs:54-66 sets it in the same script as the first INCR), so no key
\* stays for good.
TypeOK ==
  /\ now \in 0..MaxTime
  /\ counters \in [Key \X Windows -> Counter]
  /\ \A c \in Key \X Windows : (counters[c].hits > 0) <=> (counters[c].left > 0)
  /\ req \in [Request -> Slot]
  /\ \A r \in Request : req[r].pc = "script" =>
       req[r].limiter \in Limiter /\ req[r].key \in Key /\ req[r].window <= WindowNo(now)
  /\ charged \in [Account -> 0..Many]
  /\ passed \in [Account -> 0..Many]
  /\ refused \subseteq Account

\* rate_limit.rs:18-22, 45-77: within one window no limiter lets more requests
\* of one caller in than its allowance, however the checks of the replicas
\* interleave: the counter of a window never expires while the window lasts.
\* Requests let in because Redis failed, and those whose script runs after
\* their window, are not counted: the second may find the counter expired.
QuotaKept == \A a \in Account : passed[a] <= Allowance[a[1]]

\* The requests of caller k counted in window w, over all limiters: <<l, n>> is
\* the n-th of limiter l.
Charges(k, w) == {x \in Limiter \X (1..Many) : x[2] <= charged[<<x[1], k, w>>]}

\* rate_limit.rs:58-64: a request is refused only if the counted requests of its
\* caller in that window, over all limiters, exceed its limiter's allowance.
RefusedMeansBusy ==
  \A a \in refused : Cardinality(Charges(a[2], a[3])) > Allowance[a[1]]

\* rate_limit.rs:43-44, "Check if a request under `key` is within the rate
\* limit", with one limiter per group of routes (main.rs:133-148): a request
\* refused by a limiter exceeds the allowance of that limiter.  The limiters'
\* keys do not differ, so a request of another limiter counts (rate_limit.rs:51).
OwnQuota == \A a \in refused : charged[a] > Allowance[a[1]]
=============================================================================
