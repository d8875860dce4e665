-------------------------------- MODULE Jwks --------------------------------
(***************************************************************************)
(* The key of the server and the client library's copy of it.  Each        *)
(* replica signs with the private key it was started with and serves the   *)
(* public half at /.well-known/jwks.json; a deployment with another key    *)
(* replaces the replicas one by one.  A client keeps one public key and    *)
(* verifies JWTs with it, without a request, for an hour.                  *)
(*                                                                         *)
(* The calls in flight are those of one client process: they share the key *)
(* and the time of its last refresh, which are behind two locks.           *)
(***************************************************************************)
EXTENDS Integers

CONSTANTS
  Key,        \* key pairs that may ever be deployed
  Call,       \* calls of the client library in flight at once
  Token,      \* ids (jti) of the JWTs that may ever be signed
  NULL,
  JwksTTL,    \* 3600 seconds, in ticks
  MaxFaults   \* bound on failed commands and requests, dropped handlers

ASSUME JwksAssumption == JwksTTL \in Nat /\ MaxFaults \in Nat
ASSUME KeyAssumption == NULL \notin Key \cup Token \cup 0..(JwksTTL + 1)

VARIABLES
  serving,      \* keys that some replica runs with
  retired,      \* history: key -> ticks since the last replica with it stopped
                \* (saturates past JwksTTL), NULL for one never deployed
  decoding_key, \* the client's key
  age,          \* ticks since last_refresh, saturating past JwksTTL
  excused,      \* history: decoding_key was retired before it was stored
  call,
  faults

jwksVars == <<serving, retired, decoding_key, age, excused, call, faults>>

Old == JwksTTL + 1

\* token: the one to verify, NULL in refresh_jwks; key: the one fetched;
\* waited (history): a tick passed since the age of the key was looked at.
CallSlot == [pc : {"idle", "fetch", "store", "decode"},
             token : Token \cup {NULL}, key : Key \cup {NULL}, waited : BOOLEAN]

IdleCall == [pc |-> "idle", token |-> NULL, key |-> NULL, waited |-> FALSE]

JwksInit ==
  /\ \E k \in Key :
       /\ serving = {k}
       /\ retired = [x \in Key |-> IF x = k THEN 0 ELSE NULL]
  /\ decoding_key = NULL
  /\ age = Old
  /\ excused = FALSE
  /\ call = [c \in Call |-> IdleCall]
  /\ faults = 0

CallAt(c, label) == call[c].pc = label
Return(c) == call' = [call EXCEPT ![c] = IdleCall]
Fault == faults < MaxFaults /\ faults' = faults + 1

-----------------------------------------------------------------------------
(* Deployment.  from_env reads the key pair when a replica starts.         *)

StartReplica(k) ==
  /\ retired[k] = NULL
  /\ serving' = serving \cup {k}
  /\ retired' = [retired EXCEPT ![k] = 0]
  /\ UNCHANGED <<decoding_key, age, excused, call, faults>>

\* The last replica with the key is stopped, and others go on.
StopReplica(k) ==
  /\ k \in serving /\ serving # {k}
  /\ serving' = serving \ {k}
  /\ UNCHANGED <<retired, decoding_key, age, excused, call, faults>>

-----------------------------------------------------------------------------
(* JwtVerifier of the client library.                                      *)

\* Mutant: every use of the key renews it.
VerifyLocallySliding(c, j) ==
  /\ CallAt(c, "idle")
  /\ call' = [call EXCEPT ![c] = [IdleCall EXCEPT !.token = j,
                !.pc = IF age <= JwksTTL THEN "decode" ELSE "fetch"]]
  /\ age' = IF age <= JwksTTL THEN 0 ELSE age
  /\ UNCHANGED <<serving, retired, decoding_key, excused, faults>>

\* verify: ensure_jwks goes by the time of the last refresh alone.
VerifyLocally(c, j) ==
  /\ CallAt(c, "idle")
  /\ call' = [call EXCEPT ![c] = [IdleCall EXCEPT !.token = j,
                !.pc = IF age <= JwksTTL THEN "decode" ELSE "fetch"]]
  /\ UNCHANGED <<serving, retired, decoding_key, age, excused, faults>>

\* refresh_jwks, "e.g. after key rotation".
RefreshJwks(c) ==
  /\ CallAt(c, "idle")
  /\ call' = [call EXCEPT ![c].pc = "fetch"]
  /\ UNCHANGED <<serving, retired, decoding_key, age, excused, faults>>

\* The request of fetch_jwks, answered by some replica.  Its kid is ignored.
\* If it fails the call fails, even if a key is cached.
FetchJwks(c) ==
  /\ CallAt(c, "fetch")
  /\ \/ /\ \E k \in serving :
             call' = [call EXCEPT ![c].pc = "store", ![c].key = k]
        /\ UNCHANGED faults
     \/ /\ Fault
        /\ Return(c)
  /\ UNCHANGED <<serving, retired, decoding_key, age, excused>>

\* Key and time are written while the lock of the key is held.
StoreKey(c) ==
  LET k == call[c].key IN
  /\ CallAt(c, "store")
  /\ decoding_key' = k
  /\ age' = 0
  /\ excused' = (k \notin serving)
  /\ IF call[c].token = NULL
       THEN Return(c)
       ELSE call' = [call EXCEPT ![c].pc = "decode", ![c].key = NULL]
  /\ UNCHANGED <<serving, retired, faults>>

\* decode with whatever key is there by now; neither the deny-list nor, in
\* this library, the issuer is consulted.
Decode(c) ==
  /\ CallAt(c, "decode")
  /\ Return(c)
  /\ UNCHANGED <<serving, retired, decoding_key, age, excused, faults>>

\* A call whose future is dropped.
Cancel(c) ==
  /\ ~CallAt(c, "idle")
  /\ Fault
  /\ Return(c)
  /\ UNCHANGED <<serving, retired, decoding_key, age, excused>>

JwksTick ==
  /\ age' = IF age < Old THEN age + 1 ELSE age
  /\ retired' = [k \in Key |->
       IF retired[k] # NULL /\ k \notin serving /\ retired[k] < Old
         THEN retired[k] + 1 ELSE retired[k]]
  /\ call' = [c \in Call |->
       IF CallAt(c, "decode") THEN [call[c] EXCEPT !.waited = TRUE] ELSE call[c]]
  /\ UNCHANGED <<serving, decoding_key, excused, faults>>

JwksNext ==
  \/ \E k \in Key : StartReplica(k) \/ StopReplica(k)
  \/ \E c \in Call :
       \/ FetchJwks(c) \/ StoreKey(c) \/ Decode(c)
       \/ RefreshJwks(c) \/ Cancel(c)
       \/ \E j \in Token : VerifyLocally(c, j)

-----------------------------------------------------------------------------
(* Properties.                                                             *)

JwksTypeOK ==
  /\ serving \subseteq Key /\ serving # {}
  /\ retired \in [Key -> 0..Old \cup {NULL}]
  /\ decoding_key \in Key \cup {NULL}
  /\ age \in 0..Old
  /\ excused \in BOOLEAN
  /\ call \in [Call -> CallSlot]
  /\ faults \in 0..MaxFaults

\* A key a client verifies with is served by some replica or was until at most
\* an hour ago, unless it was fetched before and stored after the last replica
\* with it stopped: then the hour starts with the store, and a refresh_jwks
\* called after the rotation may be undone (aspectus-client lib.rs:226-231,
\* 340-343, 350-367).
KeyIsRecent ==
  \A c \in Call : CallAt(c, "decode") /\ ~call[c].waited =>
    decoding_key \in serving \/ excused \/ retired[decoding_key] <= JwksTTL
=============================================================================
