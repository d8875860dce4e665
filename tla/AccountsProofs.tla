--------------------------- MODULE AccountsProofs ---------------------------
(***************************************************************************)
(* Theorems about Accounts, for any number of users, passwords, reset      *)
(* tokens and concurrent requests, any threshold and any lock duration.    *)
(***************************************************************************)
EXTENDS Accounts, TLAPS

-----------------------------------------------------------------------------
(* Type correctness.                                                       *)

\* What a handler has read so far, by the statement it is at.
SlotOK(r) ==
  LET q == req[r] IN
  /\ q.pc # "idle" => q.user \in User
  /\ q.pc = "set_password" => q.new \in Password
  /\ q.token # NULL => q.pc = "set_password"

TypeInv == TypeOK /\ \A r \in Request : SlotOK(r)

\* At the start every slot is idle, no account is locked and no token exists.
LEMMA InitTypeInv == Init => TypeInv
<1> SUFFICES ASSUME Init PROVE TypeInv
  OBVIOUS
<1>1. Idle \in Slot /\ NoRow \in ResetRow
  BY BoundAssumption DEF Idle, Slot, PC, NoRow, ResetRow
<1>2. TypeOK
  BY <1>1, PasswordAssumption, LockAssumption, BoundAssumption DEF Init, TypeOK
<1>3. \A r \in Request : SlotOK(r)
  BY DEF Init, Idle, SlotOK
<1> QED
  BY <1>2, <1>3 DEF TypeInv

\* A step that changes one slot leaves the others in order.
LEMMA OneSlot ==
  ASSUME TypeInv, NEW r \in Request, NEW s \in Slot,
         req' = [req EXCEPT ![r] = s], SlotOK(r)'
  PROVE  /\ req' \in [Request -> Slot]
         /\ \A p \in Request : SlotOK(p)'
<1>1. req \in [Request -> Slot]
  BY DEF TypeInv, TypeOK
<1>2. ASSUME NEW p \in Request, p # r PROVE SlotOK(p)'
  BY <1>1, <1>2 DEF TypeInv, SlotOK
<1> QED
  BY <1>1, <1>2

\* A handler that responds frees its slot.
LEMMA RespondSlot ==
  ASSUME TypeInv, NEW r \in Request, Respond(r)
  PROVE  /\ req' = [req EXCEPT ![r] = Idle]
         /\ req'[r] = Idle
         /\ req' \in [Request -> Slot]
         /\ \A p \in Request : SlotOK(p)'
<1>1. Idle \in Slot /\ req' = [req EXCEPT ![r] = Idle] /\ req'[r] = Idle
  BY DEF TypeInv, TypeOK, Respond, Idle, Slot, PC
<1>2. SlotOK(r)'
  BY <1>1 DEF SlotOK, Idle
<1> QED
  BY <1>1, <1>2, OneSlot

\* A row that is claimed, aged or inserted is still a row.
LEMMA RowTypes ==
  ASSUME NEW row \in ResetRow
  PROVE  /\ [row EXCEPT !.used = TRUE] \in ResetRow
         /\ [row EXCEPT !.ttl = IF row.ttl > 0 THEN row.ttl - 1 ELSE 0] \in ResetRow
<1>1. row.ttl \in 0..ResetTTL
  BY DEF ResetRow
<1>2. (IF row.ttl > 0 THEN row.ttl - 1 ELSE 0) \in 0..ResetTTL
  BY <1>1, BoundAssumption
<1> QED
  BY <1>2 DEF ResetRow

\* A step that touches only a slot.
LEMMA SlotOnly ==
  ASSUME TypeInv, NEW r \in Request, NEW s \in Slot,
         req' = [req EXCEPT ![r] = s], SlotOK(r)',
         UNCHANGED <<users, password_reset_tokens, faults, history>>
  PROVE  TypeInv'
<1>1. req' \in [Request -> Slot] /\ \A p \in Request : SlotOK(p)'
  BY OneSlot
<1>2. TypeOK'
  BY <1>1 DEF TypeInv, TypeOK, users, history
<1> QED
  BY <1>1, <1>2 DEF TypeInv

\* Clearing an account is typed.
LEMMA ClearTypes ==
  ASSUME TypeInv, NEW u \in User, Clear(u)
  PROVE  /\ failed_login_attempts' \in [User -> 0..Threshold]
         /\ locked_for' \in [User -> 0..LockFor]
         /\ failures' \in [User -> 0..Threshold]
         /\ served' \subseteq User
  BY LockAssumption DEF TypeInv, TypeOK, Clear

\* So is counting a failure.
LEMMA RecordTypes ==
  ASSUME TypeInv, NEW r \in Request, RecordFailed(r)
  PROVE  /\ req[r].user \in User
         /\ failed_login_attempts' \in [User -> 0..Threshold]
         /\ locked_for' \in [User -> 0..LockFor]
         /\ failures' \in [User -> 0..Threshold]
<1>1. req[r].user \in User
  BY DEF RecordFailed, At, TypeInv, SlotOK
<1>2. ASSUME NEW n \in 0..Threshold PROVE OneMore(n) \in 0..Threshold
  BY LockAssumption DEF OneMore
<1>3. LockFor \in 0..LockFor
  BY LockAssumption
<1> DEFINE u == req[r].user
<1>4. failed_login_attempts' =
        [failed_login_attempts EXCEPT ![u] = OneMore(failed_login_attempts[u])]
  BY DEF RecordFailed
<1>5. failures' = [failures EXCEPT ![u] = OneMore(failures[u])]
  BY DEF RecordFailed
<1>6. \E d \in {LockFor, locked_for[u]} : locked_for' = [locked_for EXCEPT ![u] = d]
  BY DEF RecordFailed
<1> HIDE DEF u
<1>7. u \in User
  BY <1>1 DEF u
<1> QED
  BY <1>1, <1>2, <1>3, <1>4, <1>5, <1>6, <1>7 DEF TypeInv, TypeOK

\* Every step of every endpoint, of the cleanup task and of time keeps the
\* columns, rows and slots well formed.
LEMMA NextTypeInv == TypeInv /\ [Next]_vars => TypeInv'
<1> SUFFICES ASSUME TypeInv, [Next]_vars PROVE TypeInv'
  OBVIOUS
<1>1. req \in [Request -> Slot]
  BY DEF TypeInv, TypeOK
<1>2. ASSUME NEW r \in Request, NEW u \in User, NEW p \in Password, Login(r, u, p)
      PROVE  TypeInv'
  <2> DEFINE s == [Idle EXCEPT !.user = u,
                     !.pc = IF p = password_hash[u] THEN "clear_failed" ELSE "record_failed"]
  <2>1. req' = [req EXCEPT ![r] = s] /\ UNCHANGED <<users, password_reset_tokens, faults, history>>
    BY <1>2 DEF Login
  <2>2. s \in Slot /\ s.user = u /\ s.token = NULL /\ s.pc # "set_password"
    BY DEF Idle, Slot, PC
  <2> HIDE DEF s
  <2>3. SlotOK(r)'
    BY <1>1, <2>1, <2>2 DEF SlotOK
  <2> QED
    BY <2>1, <2>2, <2>3, SlotOnly
<1>3. ASSUME NEW r \in Request, RecordFailed(r) PROVE TypeInv'
  BY <1>3, RecordTypes, RespondSlot DEF RecordFailed, TypeInv, TypeOK
<1>4. ASSUME NEW r \in Request, ClearFailed(r) PROVE TypeInv'
  <2>1. req[r].user \in User
    BY <1>4 DEF ClearFailed, At, TypeInv, SlotOK
  <2>2. /\ req' \in [Request -> Slot]
        /\ \A p \in Request : SlotOK(p)'
    BY <1>4, RespondSlot DEF ClearFailed
  <2>3. UNCHANGED <<password_hash, password_reset_tokens, spent, generated>>
    BY <1>4 DEF ClearFailed
  <2>4. CASE Clear(req[r].user) /\ UNCHANGED faults
    BY <2>1, <2>2, <2>3, <2>4, ClearTypes DEF TypeInv, TypeOK
  <2>5. CASE Fault /\ UNCHANGED <<failed_login_attempts, locked_for, failures, served>>
    BY <2>2, <2>3, <2>5, BoundAssumption DEF Fault, TypeInv, TypeOK
  <2> QED
    BY <1>4, <2>4, <2>5 DEF ClearFailed
<1>5. ASSUME NEW u \in User, Unlock(u) PROVE TypeInv'
  BY <1>5, ClearTypes DEF Unlock, TypeInv, TypeOK, SlotOK
<1>6. ASSUME NEW u \in User, NEW t \in ResetToken, ForgotPassword(u, t) PROVE TypeInv'
  <2>1. [user |-> u, used |-> FALSE, ttl |-> ResetTTL] \in ResetRow
    BY BoundAssumption DEF ResetRow
  <2> QED
    BY <1>6, <2>1 DEF ForgotPassword, TypeInv, TypeOK, SlotOK, users
<1>7. ASSUME NEW r \in Request, NEW t \in ResetToken, NEW new \in Password,
             ResetPassword(r, t, new)
      PROVE  TypeInv'
  <2> DEFINE row == password_reset_tokens[t]
             s == [Idle EXCEPT !.pc = "set_password", !.user = row.user,
                                !.new = new, !.token = t]
  <2>1. row \in ResetRow /\ row.user # NULL
    BY <1>7 DEF ResetPassword, TypeInv, TypeOK
  <2>2. row.user \in User
    BY <2>1 DEF ResetRow
  <2>3. s \in Slot /\ s.user = row.user /\ s.new = new /\ s.pc = "set_password"
    BY <2>2 DEF Idle, Slot, PC
  <2>4. req' = [req EXCEPT ![r] = s]
    BY <1>7 DEF ResetPassword
  <2>5. password_reset_tokens' =
          [password_reset_tokens EXCEPT ![t] = [row EXCEPT !.used = TRUE]]
    BY <1>7 DEF ResetPassword
  <2>6. UNCHANGED <<users, faults, history>>
    BY <1>7 DEF ResetPassword
  <2> HIDE DEF s
  <2>7. SlotOK(r)'
    BY <1>1, <2>2, <2>3, <2>4 DEF SlotOK
  <2>8. req' \in [Request -> Slot] /\ \A p \in Request : SlotOK(p)'
    BY <2>3, <2>4, <2>7, OneSlot
  <2>9. password_reset_tokens' \in [ResetToken -> ResetRow]
    BY <2>1, <2>5, RowTypes DEF TypeInv, TypeOK
  <2> QED
    BY <2>6, <2>8, <2>9 DEF TypeInv, TypeOK, users, history
<1>8. ASSUME NEW r \in Request, NEW u \in User, NEW current \in Password,
             NEW new \in Password, ChangePassword(r, u, current, new)
      PROVE  TypeInv'
  <2> DEFINE s == [Idle EXCEPT !.pc = "set_password", !.user = u, !.new = new]
  <2>1. req' = [req EXCEPT ![r] = s] /\ UNCHANGED <<users, password_reset_tokens, faults, history>>
    BY <1>8 DEF ChangePassword
  <2>2. s \in Slot /\ s.user = u /\ s.new = new /\ s.pc = "set_password"
    BY DEF Idle, Slot, PC
  <2> HIDE DEF s
  <2>3. SlotOK(r)'
    BY <1>1, <2>1, <2>2 DEF SlotOK
  <2> QED
    BY <2>1, <2>2, <2>3, SlotOnly
<1>9. ASSUME NEW r \in Request, SetPassword(r) PROVE TypeInv'
  <2>1. req[r].user \in User /\ req[r].new \in Password
    BY <1>9 DEF SetPassword, At, TypeInv, SlotOK
  <2>2. req[r] \in Slot
    BY <1>1
  <2>3. req[r].token \in ResetToken \cup {NULL}
    BY <2>2 DEF Slot
  <2>4. /\ req' \in [Request -> Slot]
        /\ \A p \in Request : SlotOK(p)'
    BY <1>9, RespondSlot DEF SetPassword
  <2> QED
    BY <1>9, <2>1, <2>3, <2>4 DEF SetPassword, TypeInv, TypeOK
<1>10. ASSUME RunCleanup PROVE TypeInv'
  <2>1. NoRow \in ResetRow
    BY BoundAssumption DEF NoRow, ResetRow
  <2> QED
    BY <1>10, <2>1 DEF RunCleanup, TypeInv, TypeOK, SlotOK, users, history
<1>11. ASSUME NEW r \in Request, Abort(r) PROVE TypeInv'
  <2>1. /\ req' \in [Request -> Slot]
        /\ \A p \in Request : SlotOK(p)'
    BY <1>11, RespondSlot DEF Abort
  <2> QED
    BY <1>11, <2>1, BoundAssumption DEF Abort, Fault, TypeInv, TypeOK, users, history
<1>12. ASSUME Tick PROVE TypeInv'
  <2>1. ASSUME NEW u \in User
        PROVE  (IF Locked(u) THEN locked_for[u] - 1 ELSE 0) \in 0..LockFor
    BY LockAssumption DEF TypeInv, TypeOK, Locked
  <2>2. locked_for' \in [User -> 0..LockFor]
    BY <1>12, <2>1 DEF Tick
  <2>3. password_reset_tokens' \in [ResetToken -> ResetRow]
    BY <1>12, RowTypes DEF Tick, TypeInv, TypeOK
  <2> QED
    BY <1>12, <2>2, <2>3 DEF Tick, TypeInv, TypeOK, SlotOK
<1>13. CASE UNCHANGED vars
  BY <1>13 DEF vars, users, history, TypeInv, TypeOK, SlotOK
<1> QED
  BY <1>2, <1>3, <1>4, <1>5, <1>6, <1>7, <1>8, <1>9, <1>10, <1>11, <1>12, <1>13
  DEF Next, Handler, Arrival

\* Columns, rows and slots stay well formed, and no lock is ever longer than
\* the configured duration (user_store.rs:79-103).
THEOREM TypeCorrect == Spec => []TypeOK
<1>1. TypeInv => TypeOK
  BY DEF TypeInv
<1> QED
  BY <1>1, InitTypeInv, NextTypeInv, PTL DEF Spec
-----------------------------------------------------------------------------
(* The lock engages.                                                       *)

\* The column counts at least the failures answered since the last clear, so
\* the UPDATE that answers the last of them sees the threshold reached.
LockInv ==
  \A u \in User :
    /\ failures[u] <= failed_login_attempts[u]
    /\ failures[u] = Threshold => Locked(u) \/ u \in served

\* Clearing an account restores the invariant for it.
LEMMA ClearLockInv ==
  ASSUME TypeInv, LockInv, NEW u \in User, Clear(u)
  PROVE  LockInv'
<1> SUFFICES ASSUME NEW v \in User
             PROVE  /\ failures'[v] <= failed_login_attempts'[v]
                    /\ failures'[v] = Threshold => locked_for'[v] > 0 \/ v \in served'
  BY DEF LockInv, Locked
<1>1. CASE v = u
  BY <1>1, LockAssumption DEF Clear, TypeInv, TypeOK
<1>2. CASE v # u
  BY <1>2 DEF Clear, TypeInv, TypeOK, LockInv, Locked
<1> QED
  BY <1>1, <1>2

\* Counting a failure locks the account when it is the last one allowed.
LEMMA RecordLockInv ==
  ASSUME TypeInv, LockInv, NEW r \in Request, RecordFailed(r)
  PROVE  LockInv'
<1> DEFINE u == req[r].user
<1> SUFFICES ASSUME NEW v \in User
             PROVE  /\ failures'[v] <= failed_login_attempts'[v]
                    /\ failures'[v] = Threshold => locked_for'[v] > 0 \/ v \in served'
  BY DEF LockInv, Locked
<1>1. u \in User
  BY RecordTypes
<1>2. /\ failures[v] \in 0..Threshold /\ failed_login_attempts[v] \in 0..Threshold
      /\ locked_for[v] \in 0..LockFor
      /\ failures[v] <= failed_login_attempts[v]
      /\ failures[v] = Threshold => locked_for[v] > 0 \/ v \in served
  BY DEF TypeInv, TypeOK, LockInv, Locked
<1>3. UNCHANGED served
  BY DEF RecordFailed
<1>4. CASE v = u
  <2>1. /\ failures'[v] = OneMore(failures[v])
        /\ failed_login_attempts'[v] = OneMore(failed_login_attempts[v])
        /\ locked_for'[v] = IF failed_login_attempts[v] + 1 >= Threshold
                              THEN LockFor ELSE locked_for[v]
    BY <1>1, <1>4 DEF RecordFailed, TypeInv, TypeOK
  <2> HIDE DEF u
  <2> QED
    BY <2>1, <1>2, <1>3, LockAssumption DEF OneMore
<1>5. CASE v # u
  BY <1>2, <1>3, <1>5 DEF RecordFailed, TypeInv, TypeOK
<1> QED
  BY <1>4, <1>5

\* No step loses a lock that is due.
LEMMA NextLockInv == TypeInv /\ LockInv /\ [Next]_vars => LockInv'
<1> SUFFICES ASSUME TypeInv, LockInv, [Next]_vars PROVE LockInv'
  OBVIOUS
<1> DEFINE Same == UNCHANGED <<failed_login_attempts, locked_for, failures, served>>
<1>1. ASSUME Same PROVE LockInv'
  BY <1>1 DEF LockInv, Locked
<1>2. ASSUME NEW r \in Request, NEW u \in User, NEW p \in Password, Login(r, u, p)
      PROVE  Same
  BY <1>2 DEF Login, users, history
<1>3. ASSUME NEW r \in Request, ClearFailed(r) PROVE LockInv'
  <2>1. req[r].user \in User
    BY <1>3 DEF ClearFailed, At, TypeInv, SlotOK
  <2>2. CASE Clear(req[r].user)
    BY <2>1, <2>2, ClearLockInv
  <2> QED
    BY <1>1, <1>3, <2>2 DEF ClearFailed
<1>4. ASSUME NEW r \in Request, SetPassword(r) PROVE Same
  BY <1>4 DEF SetPassword
<1>5. ASSUME NEW r \in Request, NEW t \in ResetToken, NEW new \in Password,
             ResetPassword(r, t, new)
      PROVE  Same
  BY <1>5 DEF ResetPassword, users, history
<1>6. ASSUME NEW r \in Request, NEW u \in User, NEW current \in Password,
             NEW new \in Password, ChangePassword(r, u, current, new)
      PROVE  Same
  BY <1>6 DEF ChangePassword, users, history
<1>7. ASSUME NEW r \in Request, Abort(r) PROVE Same
  BY <1>7 DEF Abort, users, history
<1>8. ASSUME NEW u \in User, Unlock(u) PROVE LockInv'
  BY <1>8, ClearLockInv DEF Unlock
<1>9. ASSUME NEW u \in User, NEW t \in ResetToken, ForgotPassword(u, t) PROVE Same
  BY <1>9 DEF ForgotPassword, users
<1>10. ASSUME RunCleanup PROVE Same
  BY <1>10 DEF RunCleanup, users, history
<1>11. ASSUME Tick PROVE LockInv'
  <2> SUFFICES ASSUME NEW v \in User
               PROVE  /\ failures'[v] <= failed_login_attempts'[v]
                      /\ failures'[v] = Threshold => locked_for'[v] > 0 \/ v \in served'
    BY DEF LockInv, Locked
  <2>1. /\ UNCHANGED <<failures, failed_login_attempts>>
        /\ locked_for'[v] = IF locked_for[v] > 0 THEN locked_for[v] - 1 ELSE 0
        /\ served' = served \cup {w \in User : locked_for[w] = 1}
    BY <1>11 DEF Tick, Locked
  <2>2. locked_for[v] \in Nat
    BY LockAssumption DEF TypeInv, TypeOK
  <2> QED
    BY <2>1, <2>2 DEF LockInv, Locked
<1>12. CASE UNCHANGED vars
  BY <1>1, <1>12 DEF vars, users, history
<1> QED
  BY <1>1, <1>2, <1>3, <1>4, <1>5, <1>6, <1>7, <1>8, <1>9, <1>10, <1>11, <1>12,
     RecordLockInv
  DEF Next, Handler, Arrival

\* Whatever logins interleave, the failure that reaches the threshold locks
\* the account, and only time or a clear undoes it (user_store.rs:79-103).
THEOREM LockoutEngagesHolds == Spec => []LockoutEngages
<1>1. Init => LockInv
  <2> SUFFICES ASSUME Init, NEW u \in User
               PROVE  /\ failures[u] <= failed_login_attempts[u]
                      /\ failures[u] # Threshold
    BY DEF LockInv
  <2>1. failures[u] = 0 /\ failed_login_attempts[u] = 0
    BY DEF Init
  <2> QED
    BY <2>1, LockAssumption
<1>2. LockInv => LockoutEngages
  BY DEF LockInv, LockoutEngages
<1> QED
  BY <1>1, <1>2, InitTypeInv, NextTypeInv, NextLockInv, PTL DEF Spec

-----------------------------------------------------------------------------
(* A reset token works once.                                               *)

\* A token the UPDATE of reset_password can no longer claim.
Consumed(t) ==
  t \in generated /\ (password_reset_tokens[t].user = NULL \/ password_reset_tokens[t].used)

\* A token in a handler or in spent is consumed, so nobody claims it again.
ResetInv ==
  /\ \A t \in ResetToken : t \notin generated => password_reset_tokens[t].user = NULL
  /\ \A r \in Request : req[r].token # NULL => Consumed(req[r].token)
  /\ \A t \in spent : Consumed(t)
  /\ ResetOnce

\* What a step has to respect: generated grows, a consumed token stays
\* consumed, and no slot but r changes its token.
Keeps ==
  /\ \A t \in ResetToken : t \notin generated' => password_reset_tokens'[t].user = NULL
  /\ \A t \in ResetToken : Consumed(t) => Consumed(t)'

\* A step after which no slot holds a token it did not hold before, and
\* nothing more is spent, preserves the invariant.
LEMMA NoClaim ==
  ASSUME TypeInv, ResetInv, Keeps, UNCHANGED spent,
         \A r \in Request : req'[r].token \in {NULL, req[r].token}
  PROVE  ResetInv'
<1>1. \A r \in Request : req[r].token \in ResetToken \cup {NULL}
  BY DEF TypeInv, TypeOK, Slot
<1>2. spent \subseteq ResetToken
  BY DEF TypeInv, TypeOK
<1>3. \A r \in Request : req'[r].token # NULL => Consumed(req[r].token)'
  BY <1>1 DEF ResetInv, Keeps
<1>4. \A r \in Request : req'[r].token # NULL => Consumed(req[r].token)' /\ req'[r].token = req[r].token
  BY <1>3
<1>5. (\A r \in Request : req[r].token # NULL => Consumed(req[r].token))'
  BY <1>4 DEF Consumed
<1>6. (\A t \in spent : Consumed(t))'
  BY <1>2 DEF ResetInv, Keeps
<1>7. ResetOnce'
  BY <1>4 DEF ResetInv, ResetOnce
<1> QED
  BY <1>5, <1>6, <1>7 DEF ResetInv, Keeps

\* A step that touches no reset token and no history keeps them.
LEMMA SameTokens ==
  ASSUME ResetInv, UNCHANGED <<password_reset_tokens, generated>>
  PROVE  Keeps
  BY DEF ResetInv, Keeps, Consumed

\* The claim is atomic: the token it takes is in no slot and not spent.
LEMMA ClaimResetInv ==
  ASSUME TypeInv, ResetInv, NEW r \in Request, NEW t \in ResetToken,
         NEW new \in Password, ResetPassword(r, t, new)
  PROVE  ResetInv'
<1>1. ~Consumed(t) /\ t \in generated /\ t # NULL
  BY NullAssumption DEF ResetPassword, Consumed, ResetInv
<1>2. /\ req'[r].token = t
      /\ \A s \in Request : s # r => req'[s] = req[s]
  BY DEF ResetPassword, TypeInv, TypeOK, Idle
<1>3. UNCHANGED <<spent, generated>>
  BY DEF ResetPassword, history
<1>4. /\ password_reset_tokens'[t].used = TRUE
      /\ \A x \in ResetToken : password_reset_tokens'[x].user = password_reset_tokens[x].user
      /\ \A x \in ResetToken : x # t => password_reset_tokens'[x] = password_reset_tokens[x]
  BY DEF ResetPassword, TypeInv, TypeOK, ResetRow
<1>5. Keeps /\ Consumed(t)'
  BY <1>1, <1>3, <1>4 DEF Keeps, Consumed, ResetInv
<1>6. \A s \in Request : req[s].token \in ResetToken \cup {NULL} /\ req[s].token # t
  BY <1>1 DEF TypeInv, TypeOK, Slot, ResetInv
<1>7. t \notin spent /\ spent \subseteq ResetToken
  BY <1>1 DEF ResetInv, TypeInv, TypeOK
<1>8. \A s \in Request : s # r /\ req'[s].token # NULL => Consumed(req[s].token)'
  BY <1>2, <1>5, <1>6 DEF ResetInv, Keeps
<1>9. (\A s \in Request : req[s].token # NULL => Consumed(req[s].token))'
  BY <1>2, <1>5, <1>8 DEF Consumed
<1>10. (\A x \in spent : Consumed(x))'
  BY <1>3, <1>5, <1>7 DEF ResetInv, Keeps
<1>11. ResetOnce'
  BY <1>2, <1>3, <1>6, <1>7 DEF ResetInv, ResetOnce
<1> QED
  BY <1>5, <1>9, <1>10, <1>11 DEF ResetInv, Keeps

\* Setting the password spends the handler's token and frees its slot.
LEMMA SpendResetInv ==
  ASSUME TypeInv, ResetInv, NEW r \in Request, SetPassword(r)
  PROVE  ResetInv'
<1>1. /\ req'[r] = Idle
      /\ \A s \in Request : s # r => req'[s] = req[s]
  BY DEF SetPassword, Respond, TypeInv, TypeOK
<1>2. UNCHANGED <<password_reset_tokens, generated>>
  BY DEF SetPassword
<1>3. spent' = spent \cup ({req[r].token} \ {NULL})
  BY DEF SetPassword
<1>4. (\A s \in Request : req[s].token # NULL => Consumed(req[s].token))'
  BY <1>1, <1>2 DEF ResetInv, Consumed, Idle
<1>5. (\A x \in spent : Consumed(x))'
  BY <1>2, <1>3 DEF ResetInv, Consumed
<1>6. ResetOnce'
  BY <1>1, <1>3 DEF ResetInv, ResetOnce, Idle
<1> QED
  BY <1>2, <1>4, <1>5, <1>6 DEF ResetInv

\* Every other step leaves claims alone, and none revives a token.
LEMMA NextResetInv == TypeInv /\ ResetInv /\ [Next]_vars => ResetInv'
<1> SUFFICES ASSUME TypeInv, ResetInv, [Next]_vars PROVE ResetInv'
  OBVIOUS
<1> DEFINE Same == /\ UNCHANGED <<password_reset_tokens, generated, spent>>
                   /\ \A r \in Request : req'[r].token \in {NULL, req[r].token}
<1>1. ASSUME Same PROVE ResetInv'
  BY <1>1, SameTokens, NoClaim
<1>2. ASSUME NEW r \in Request, Respond(r)
      PROVE  \A s \in Request : req'[s].token \in {NULL, req[s].token}
  BY <1>2 DEF Respond, TypeInv, TypeOK, Idle
<1>3. ASSUME NEW r \in Request, NEW u \in User, NEW p \in Password, Login(r, u, p)
      PROVE  Same
  BY <1>3 DEF Login, history, TypeInv, TypeOK, Idle
<1>4. ASSUME NEW r \in Request, RecordFailed(r) \/ ClearFailed(r) \/ Abort(r) PROVE Same
  BY <1>2, <1>4 DEF RecordFailed, ClearFailed, Abort, history
<1>5. ASSUME NEW r \in Request, NEW u \in User, NEW current \in Password,
             NEW new \in Password, ChangePassword(r, u, current, new)
      PROVE  Same
  BY <1>5 DEF ChangePassword, history, TypeInv, TypeOK, Idle
<1>6. ASSUME NEW u \in User, Unlock(u) PROVE Same
  BY <1>6 DEF Unlock
<1>7. ASSUME NEW u \in User, NEW t \in ResetToken, ForgotPassword(u, t) PROVE ResetInv'
  <2>1. \A x \in ResetToken : x # t => password_reset_tokens'[x] = password_reset_tokens[x]
    BY <1>7 DEF ForgotPassword, TypeInv, TypeOK
  <2>2. t \notin generated /\ generated' = generated \cup {t} /\ UNCHANGED <<req, spent>>
    BY <1>7 DEF ForgotPassword
  <2>3. Keeps
    BY <2>1, <2>2 DEF Keeps, Consumed, ResetInv
  <2> QED
    BY <2>2, <2>3, NoClaim
<1>8. ASSUME RunCleanup PROVE ResetInv'
  <2>1. UNCHANGED <<req, spent, generated>>
    BY <1>8 DEF RunCleanup, history
  <2>2. \A t \in ResetToken : password_reset_tokens'[t] \in {NoRow, password_reset_tokens[t]}
    BY <1>8 DEF RunCleanup
  <2>3. Keeps
    BY <2>1, <2>2 DEF Keeps, Consumed, ResetInv, NoRow
  <2> QED
    BY <2>1, <2>3, NoClaim
<1>9. ASSUME Tick PROVE ResetInv'
  <2>1. UNCHANGED <<req, spent, generated>>
    BY <1>9 DEF Tick
  <2>2. \A t \in ResetToken : /\ password_reset_tokens'[t].user = password_reset_tokens[t].user
                              /\ password_reset_tokens'[t].used = password_reset_tokens[t].used
    BY <1>9 DEF Tick, TypeInv, TypeOK, ResetRow
  <2>3. Keeps
    BY <2>1, <2>2 DEF Keeps, Consumed, ResetInv
  <2> QED
    BY <2>1, <2>3, NoClaim
<1>10. CASE UNCHANGED vars
  BY <1>1, <1>10 DEF vars, history
<1> QED
  BY <1>1, <1>3, <1>4, <1>5, <1>6, <1>7, <1>8, <1>9, <1>10, ClaimResetInv, SpendResetInv
  DEF Next, Handler, Arrival

\* No two requests, however they interleave with each other and with the
\* cleanup task, set a password with the same reset token (auth.rs:731-757).
THEOREM ResetOnceHolds == Spec => []ResetOnce
<1>1. Init => ResetInv
  BY DEF Init, Idle, NoRow, ResetInv, ResetOnce
<1>2. ResetInv => ResetOnce
  BY DEF ResetInv
<1> QED
  BY <1>1, <1>2, InitTypeInv, NextTypeInv, NextResetInv, PTL DEF Spec

-----------------------------------------------------------------------------
(* How long the lock lasts.                                                *)

\* A slot taken, or freed, for another statement adds no failure to count.
LEMMA NoGuess ==
  ASSUME TypeInv, NEW r \in Request, NEW s, req' = [req EXCEPT ![r] = s],
         s.pc # "record_failed", NEW u
  PROVE  Guesses(u)' \subseteq Guesses(u) /\ r \notin Guesses(u)'
<1>1. req'[r] = s /\ \A p \in Request \ {r} : req'[p] = req[p]
  BY DEF TypeInv, TypeOK
<1> QED
  BY <1>1 DEF Guesses, At

\* While an account is locked no login begins, and its lock is restarted only
\* by the failure that is counted.
LEMMA LockedStep ==
  ASSUME TypeInv, [Next]_vars, NEW u \in User, Locked(u)
  PROVE  /\ Guesses(u)' \subseteq Guesses(u)
         /\ Guesses(u)' = Guesses(u) => locked_for'[u] <= locked_for[u]
<1> DEFINE Same == UNCHANGED locked_for
<1>0. /\ req \in [Request -> Slot] /\ locked_for \in [User -> 0..LockFor]
      /\ locked_for[u] \in Nat /\ locked_for[u] <= locked_for[u]
      /\ Idle.pc = "idle"
  BY LockAssumption DEF TypeInv, TypeOK, Idle
<1>1. ASSUME NEW r \in Request, Respond(r)
      PROVE  Guesses(u)' \subseteq Guesses(u) /\ r \notin Guesses(u)'
  BY <1>0, <1>1, NoGuess DEF Respond
<1>2. ASSUME NEW r \in Request, NEW v \in User, NEW p \in Password, Login(r, v, p)
      PROVE  Guesses(u)' \subseteq Guesses(u) /\ Same
  <2> DEFINE s == [Idle EXCEPT !.user = v,
                     !.pc = IF p = password_hash[v] THEN "clear_failed" ELSE "record_failed"]
  <2>1. req' = [req EXCEPT ![r] = s] /\ Same /\ v # u
    BY <1>2 DEF Login, users
  <2>2. s.user = v
    BY DEF Idle
  <2> HIDE DEF s
  <2>3. req'[r].user # u /\ \A q \in Request \ {r} : req'[q] = req[q]
    BY <1>0, <2>1, <2>2
  <2> QED
    BY <2>1, <2>3 DEF Guesses, At
<1>3. ASSUME NEW r \in Request, RecordFailed(r)
      PROVE  /\ Guesses(u)' \subseteq Guesses(u)
             /\ Guesses(u)' = Guesses(u) => locked_for'[u] <= locked_for[u]
  <2>1. Guesses(u)' \subseteq Guesses(u) /\ r \notin Guesses(u)'
    BY <1>1, <1>3 DEF RecordFailed
  <2>2. CASE req[r].user = u
    <3>1. r \in Guesses(u)
      BY <1>3, <2>2 DEF RecordFailed, Guesses
    <3> QED
      BY <2>1, <3>1
  <2>3. CASE req[r].user # u
    <3>1. locked_for'[u] = locked_for[u]
      BY <1>0, <1>3, <2>3 DEF RecordFailed
    <3> QED
      BY <1>0, <2>1, <3>1
  <2> QED
    BY <2>2, <2>3
<1>4. ASSUME NEW v \in User, Clear(v) PROVE locked_for'[u] <= locked_for[u]
  <2>1. locked_for'[u] \in {0, locked_for[u]}
    BY <1>0, <1>4 DEF Clear
  <2> QED
    BY <1>0, <2>1
<1>5. ASSUME NEW r \in Request, ClearFailed(r)
      PROVE  Guesses(u)' \subseteq Guesses(u) /\ locked_for'[u] <= locked_for[u]
  <2>1. req[r].user \in User
    BY <1>5 DEF ClearFailed, At, TypeInv, SlotOK
  <2>2. Respond(r) /\ (Clear(req[r].user) \/ Same)
    BY <1>5 DEF ClearFailed
  <2> QED
    BY <1>0, <1>1, <1>4, <2>1, <2>2
<1>6. ASSUME NEW v \in User, Unlock(v)
      PROVE  Guesses(u)' = Guesses(u) /\ locked_for'[u] <= locked_for[u]
  BY <1>4, <1>6 DEF Unlock, Guesses, At
<1>7. ASSUME NEW r \in Request, NEW t \in ResetToken, NEW new \in Password,
             ResetPassword(r, t, new)
      PROVE  Guesses(u)' \subseteq Guesses(u) /\ Same
  <2>1. PICK s : /\ s = [Idle EXCEPT !.pc = "set_password",
                          !.user = password_reset_tokens[t].user, !.new = new, !.token = t]
                 /\ req' = [req EXCEPT ![r] = s]
    BY <1>7 DEF ResetPassword
  <2>2. s.pc # "record_failed"
    BY <2>1 DEF Idle
  <2> QED
    BY <1>7, <2>1, <2>2, NoGuess DEF ResetPassword, users
<1>8. ASSUME NEW r \in Request, NEW v \in User, NEW current \in Password, NEW new \in Password,
             ChangePassword(r, v, current, new)
      PROVE  Guesses(u)' \subseteq Guesses(u) /\ Same
  <2>1. PICK s : /\ s = [Idle EXCEPT !.pc = "set_password", !.user = v, !.new = new]
                 /\ req' = [req EXCEPT ![r] = s]
    BY <1>8 DEF ChangePassword
  <2>2. s.pc # "record_failed"
    BY <2>1 DEF Idle
  <2> QED
    BY <1>8, <2>1, <2>2, NoGuess DEF ChangePassword, users
<1>9. ASSUME NEW r \in Request, SetPassword(r) \/ Abort(r)
      PROVE  Guesses(u)' \subseteq Guesses(u) /\ Same
  BY <1>1, <1>9 DEF SetPassword, Abort, users
<1>10. ASSUME \/ \E v \in User, t \in ResetToken : ForgotPassword(v, t)
              \/ RunCleanup
              \/ UNCHANGED vars
       PROVE  Guesses(u)' = Guesses(u) /\ Same
  BY <1>10 DEF ForgotPassword, RunCleanup, vars, users, Guesses, At
<1>11. ASSUME Tick PROVE Guesses(u)' = Guesses(u) /\ locked_for'[u] <= locked_for[u]
  <2>1. locked_for'[u] = IF locked_for[u] > 0 THEN locked_for[u] - 1 ELSE 0
    BY <1>11 DEF Tick, Locked
  <2>2. Guesses(u)' = Guesses(u)
    BY <1>11 DEF Tick, Guesses, At
  <2> QED
    BY <1>0, <2>1, <2>2
<1>12. Same => locked_for'[u] <= locked_for[u]
  BY <1>0
<1> HIDE DEF Same
<1> QED
  BY <1>2, <1>3, <1>5, <1>6, <1>7, <1>8, <1>9, <1>10, <1>11, <1>12
  DEF Next, Handler, Arrival

\* A lock lasts no longer than the duration after the last failure that was in
\* flight when it engaged: the attempts it refuses do not extend it
\* (auth.rs:160-187, user_store.rs:79-92).
THEOREM LockIsBoundedHolds == Spec => LockIsBounded
<1>1. TypeInv /\ [Next]_vars =>
        [\A u \in User : Locked(u) =>
           /\ Guesses(u)' \subseteq Guesses(u)
           /\ Guesses(u)' = Guesses(u) => locked_for'[u] <= locked_for[u]]_vars
  BY LockedStep
<1> QED
  BY <1>1, InitTypeInv, NextTypeInv, PTL DEF Spec, LockIsBounded
=============================================================================
