------------------------------ MODULE Accounts ------------------------------
(***************************************************************************)
(* The password of a user and the lock that protects it: POST /login up to *)
(* the point where it issues tokens (OAuthTokens goes on from there),      *)
(* POST /forgot-password, POST /reset-password, POST                       *)
(* /users/{id}/change-password, POST /users/{id}/unlock, and the part of   *)
(* the cleanup task that deletes reset tokens.                             *)
(*                                                                         *)
(* login and change_password decide on a snapshot of the row of users; the *)
(* statements that follow are atomic but apply to whatever the row is by   *)
(* then.  A request refused on its snapshot (locked or suspended account,  *)
(* wrong current password, weak new one) changes nothing and stutters.     *)
(***************************************************************************)
EXTENDS Naturals

CONSTANTS
  User,
  Password,
  InitialPassword,   \* user -> password at registration
  ResetToken,        \* reset tokens that may ever be generated
  Request,
  NULL,
  Threshold,         \* ASPECTUS_LOGIN_LOCKOUT_THRESHOLD
  LockFor,           \* ASPECTUS_LOGIN_LOCKOUT_DURATION_SECS, in ticks
  ResetTTL,          \* one hour, in ticks
  MaxFaults          \* bound on failed statements and dropped handlers

ASSUME PasswordAssumption == InitialPassword \in [User -> Password]
ASSUME NullAssumption == NULL \notin User \cup Password \cup ResetToken
ASSUME LockAssumption == Threshold \in Nat \ {0} /\ LockFor \in Nat \ {0}
ASSUME BoundAssumption == ResetTTL \in Nat \ {0} /\ MaxFaults \in Nat

VARIABLES
  password_hash,           \* columns of users
  failed_login_attempts,   \* saturates at Threshold, above which no
                           \* statement tells two values apart
  locked_for,              \* ticks until locked_until, 0 if NULL or past
  password_reset_tokens,   \* token -> row; user NULL is "no row"
  req,
  faults,
  \* What happened, for the properties.
  failures,                \* failures answered since the last clear, saturating
  served,                  \* users whose lock ran out since the last clear
  spent,                   \* reset tokens that have set a password
  generated                \* reset tokens ever inserted

users   == <<password_hash, failed_login_attempts, locked_for>>
history == <<failures, served, spent, generated>>
vars    == <<users, password_reset_tokens, req, faults, history>>

ResetRow == [user : User \cup {NULL}, used : BOOLEAN, ttl : 0..ResetTTL]
NoRow    == [user |-> NULL, used |-> FALSE, ttl |-> 0]

PC == {"idle", "record_failed", "clear_failed", "set_password"}

\* token: the one reset_password claimed.
Slot == [pc : PC, user : User \cup {NULL}, new : Password \cup {NULL},
         token : ResetToken \cup {NULL}]

Idle == [pc |-> "idle", user |-> NULL, new |-> NULL, token |-> NULL]

Init ==
  /\ password_hash = InitialPassword
  /\ failed_login_attempts = [u \in User |-> 0]
  /\ locked_for = [u \in User |-> 0]
  /\ password_reset_tokens = [t \in ResetToken |-> NoRow]
  /\ req = [r \in Request |-> Idle]
  /\ faults = 0
  /\ failures = [u \in User |-> 0]
  /\ served = {}
  /\ spent = {}
  /\ generated = {}

At(r, label) == req[r].pc = label
Respond(r) == req' = [req EXCEPT ![r] = Idle]
Fault == faults < MaxFaults /\ faults' = faults + 1
Locked(u) == locked_for[u] > 0

\* The logins that have failed on u and not counted it yet.
Guesses(u) == {r \in Request : At(r, "record_failed") /\ req[r].user = u}

OneMore(n) == IF n < Threshold THEN n + 1 ELSE n

-----------------------------------------------------------------------------
(* POST /login.                                                            *)

\* Mutant: the password is verified before the lock is looked at.
LoginWhileLocked(r, u, p) ==
  /\ At(r, "idle")
  /\ req' = [req EXCEPT ![r] = [Idle EXCEPT !.user = u,
               !.pc = IF p = password_hash[u] THEN "clear_failed" ELSE "record_failed"]]
  /\ UNCHANGED <<users, password_reset_tokens, faults, history>>

\* The SELECT, the lock check and the verification: one snapshot.
Login(r, u, p) ==
  /\ At(r, "idle")
  /\ ~Locked(u)
  /\ req' = [req EXCEPT ![r] = [Idle EXCEPT !.user = u,
               !.pc = IF p = password_hash[u] THEN "clear_failed" ELSE "record_failed"]]
  /\ UNCHANGED <<users, password_reset_tokens, faults, history>>

\* Mutant: the CASE compares the column before the increment.
RecordFailedLate(r) ==
  LET u == req[r].user IN
  /\ At(r, "record_failed")
  /\ failed_login_attempts' = [failed_login_attempts EXCEPT ![u] = OneMore(@)]
  /\ locked_for' = [locked_for EXCEPT ![u] =
                      IF failed_login_attempts[u] >= Threshold THEN LockFor ELSE @]
  /\ failures' = [failures EXCEPT ![u] = OneMore(@)]
  /\ Respond(r)
  /\ UNCHANGED <<password_hash, password_reset_tokens, faults, served, spent, generated>>

\* Mutant: each failure adds to the lock instead of restarting it.
RecordFailedExtends(r) ==
  LET u == req[r].user IN
  /\ At(r, "record_failed")
  /\ failed_login_attempts' = [failed_login_attempts EXCEPT ![u] = OneMore(@)]
  /\ locked_for' = [locked_for EXCEPT ![u] =
                      IF failed_login_attempts[u] + 1 >= Threshold THEN @ + LockFor ELSE @]
  /\ failures' = [failures EXCEPT ![u] = OneMore(@)]
  /\ Respond(r)
  /\ UNCHANGED <<password_hash, password_reset_tokens, faults, served, spent, generated>>

\* record_failed_login: counts and, at the threshold, locks, in one UPDATE.
RecordFailed(r) ==
  LET u == req[r].user IN
  /\ At(r, "record_failed")
  /\ failed_login_attempts' = [failed_login_attempts EXCEPT ![u] = OneMore(@)]
  /\ locked_for' = [locked_for EXCEPT ![u] =
                      IF failed_login_attempts[u] + 1 >= Threshold THEN LockFor ELSE @]
  /\ failures' = [failures EXCEPT ![u] = OneMore(@)]
  /\ Respond(r)
  /\ UNCHANGED <<password_hash, password_reset_tokens, faults, served, spent, generated>>

\* clear_failed_logins, by a login and by unlock.
Clear(u) ==
  /\ failed_login_attempts' = [failed_login_attempts EXCEPT ![u] = 0]
  /\ locked_for' = [locked_for EXCEPT ![u] = 0]
  /\ failures' = [failures EXCEPT ![u] = 0]
  /\ served' = served \ {u}

\* The right password: the UPDATE's error is logged and the login goes on.
ClearFailed(r) ==
  /\ At(r, "clear_failed")
  /\ \/ Clear(req[r].user) /\ UNCHANGED faults
     \/ Fault /\ UNCHANGED <<failed_login_attempts, locked_for, failures, served>>
  /\ Respond(r)
  /\ UNCHANGED <<password_hash, password_reset_tokens, spent, generated>>

Unlock(u) ==
  /\ failed_login_attempts[u] > 0 \/ Locked(u)
  /\ Clear(u)
  /\ UNCHANGED <<password_hash, password_reset_tokens, req, faults, spent, generated>>

-----------------------------------------------------------------------------
(* Passwords.                                                              *)

\* One INSERT.  A token whose e-mail is lost is a token nobody presents.
ForgotPassword(u, t) ==
  /\ t \notin generated
  /\ password_reset_tokens' = [password_reset_tokens EXCEPT ![t] =
                                 [user |-> u, used |-> FALSE, ttl |-> ResetTTL]]
  /\ generated' = generated \cup {t}
  /\ UNCHANGED <<users, req, faults, failures, served, spent>>

\* Mutant: the claim does not ask for used = false.
ResetPasswordAgain(r, t, new) ==
  LET row == password_reset_tokens[t] IN
  /\ At(r, "idle")
  /\ row.user # NULL /\ row.ttl > 0
  /\ password_reset_tokens' = [password_reset_tokens EXCEPT ![t].used = TRUE]
  /\ req' = [req EXCEPT ![r] = [Idle EXCEPT !.pc = "set_password", !.user = row.user,
                                  !.new = new, !.token = t]]
  /\ UNCHANGED <<users, faults, history>>

\* The UPDATE claims the token; a second statement sets the password.
ResetPassword(r, t, new) ==
  LET row == password_reset_tokens[t] IN
  /\ At(r, "idle")
  /\ row.user # NULL /\ ~row.used /\ row.ttl > 0
  /\ password_reset_tokens' = [password_reset_tokens EXCEPT ![t].used = TRUE]
  /\ req' = [req EXCEPT ![r] = [Idle EXCEPT !.pc = "set_password", !.user = row.user,
                                  !.new = new, !.token = t]]
  /\ UNCHANGED <<users, faults, history>>

\* get_by_id, then the current password is verified against that snapshot; the
\* UPDATE that follows does not look at it again.
ChangePassword(r, u, current, new) ==
  /\ At(r, "idle")
  /\ current = password_hash[u]
  /\ req' = [req EXCEPT ![r] = [Idle EXCEPT !.pc = "set_password", !.user = u, !.new = new]]
  /\ UNCHANGED <<users, password_reset_tokens, faults, history>>

\* UPDATE users SET password_hash = $1 WHERE id = $2, of both endpoints.
SetPassword(r) ==
  /\ At(r, "set_password")
  /\ password_hash' = [password_hash EXCEPT ![req[r].user] = req[r].new]
  /\ spent' = spent \cup ({req[r].token} \ {NULL})
  /\ Respond(r)
  /\ UNCHANGED <<failed_login_attempts, locked_for, password_reset_tokens, faults,
                 failures, served, generated>>

-----------------------------------------------------------------------------
(* The cleanup task, failures, time.                                       *)

\* DELETE ... WHERE used = true OR expires_at < NOW()
RunCleanup ==
  LET gone == {t \in ResetToken : password_reset_tokens[t].user # NULL
                 /\ (password_reset_tokens[t].used \/ password_reset_tokens[t].ttl = 0)} IN
  /\ gone # {}
  /\ password_reset_tokens' = [t \in ResetToken |->
                                 IF t \in gone THEN NoRow ELSE password_reset_tokens[t]]
  /\ UNCHANGED <<users, req, faults, history>>

\* A statement fails (the handler answers 500) or the handler is dropped
\* with its connection or process.
Abort(r) ==
  /\ req[r].pc # "idle"
  /\ Fault
  /\ Respond(r)
  /\ UNCHANGED <<users, password_reset_tokens, history>>

Tick ==
  /\ \/ \E u \in User : Locked(u)
     \/ \E t \in ResetToken : password_reset_tokens[t].ttl > 0
  /\ locked_for' = [u \in User |-> IF Locked(u) THEN locked_for[u] - 1 ELSE 0]
  /\ served' = served \cup {u \in User : locked_for[u] = 1}
  /\ password_reset_tokens' = [t \in ResetToken |->
       LET row == password_reset_tokens[t] IN
       [row EXCEPT !.ttl = IF row.ttl > 0 THEN row.ttl - 1 ELSE 0]]
  /\ UNCHANGED <<password_hash, failed_login_attempts, req, faults, failures, spent, generated>>

-----------------------------------------------------------------------------
Handler(r) == RecordFailed(r) \/ ClearFailed(r) \/ SetPassword(r)

Arrival(r) ==
  \/ \E u \in User, p \in Password : Login(r, u, p)
  \/ \E t \in ResetToken, new \in Password : ResetPassword(r, t, new)
  \/ \E u \in User, current, new \in Password : ChangePassword(r, u, current, new)

Next ==
  \/ \E r \in Request : Handler(r) \/ Arrival(r) \/ Abort(r)
  \/ \E u \in User : Unlock(u)
  \/ \E u \in User, t \in ResetToken : ForgotPassword(u, t)
  \/ RunCleanup
  \/ Tick

\* The runtime keeps polling every handler, and time passes.
Fairness == (\A r \in Request : WF_vars(Handler(r))) /\ WF_vars(Tick)

Spec == Init /\ [][Next]_vars /\ Fairness

-----------------------------------------------------------------------------
(* Properties.                                                             *)

\* Columns, rows, slots and histories are well formed; in particular no lock
\* is ever longer than the configured duration.
TypeOK ==
  /\ password_hash \in [User -> Password]
  /\ failed_login_attempts \in [User -> 0..Threshold]
  /\ locked_for \in [User -> 0..LockFor]
  /\ password_reset_tokens \in [ResetToken -> ResetRow]
  /\ req \in [Request -> Slot]
  /\ faults \in 0..MaxFaults
  /\ failures \in [User -> 0..Threshold]
  /\ served \subseteq User
  /\ spent \subseteq ResetToken
  /\ generated \subseteq ResetToken

\* However the failures of concurrent logins interleave with each other and
\* with successful ones, the account is locked by the time Threshold of them
\* have been answered since it was last cleared, and stays so until the lock
\* has run its time (user_store.rs:79-103, auth.rs:158-187).
LockoutEngages ==
  \A u \in User : failures[u] = Threshold => Locked(u) \/ u \in served

\* A reset token sets a password at most once, however many requests present
\* it at once and whatever the cleanup task deletes (auth.rs:731-757).
ResetOnce ==
  \A r \in Request : req[r].token # NULL =>
    /\ req[r].token \notin spent
    /\ \A s \in Request : req[s].token = req[r].token => s = r

\* No lock outlives its duration because of the very attempts it refuses: a
\* locked account is unlocked in time, even if someone keeps guessing
\* (auth.rs:160-187).
LockExpires == \A u \in User : Locked(u) ~> ~Locked(u)

\* How long that takes: a lock is restarted only by a failure that had passed
\* the check before, and while it lasts no login joins them.  So it ends when
\* those have been counted and the duration has passed since
\* (auth.rs:160-187, user_store.rs:79-92).
LockIsBounded ==
  [][\A u \in User : Locked(u) =>
       /\ Guesses(u)' \subseteq Guesses(u)
       /\ Guesses(u)' = Guesses(u) => locked_for'[u] <= locked_for[u]]_vars
=============================================================================
