------------------------ MODULE ServiceTokensProofs -------------------------
(***************************************************************************)
(* Theorems about ServiceTokens, for any number of projects, tokens and    *)
(* concurrent requests, any cache lifetime and any number of faults.       *)
(***************************************************************************)
EXTENDS ServiceTokens, TLAPS

-----------------------------------------------------------------------------
(* Type correctness.                                                       *)

\* A handler invalidates only a hash it has read.
ExistingRead ==
  \A r \in Request : req[r].pc \in {"revoke", "invalidate"} => req[r].existing # NULL

TypeInv == TypeOK /\ ExistingRead

\* The two ways a handler moves on, and an arrival, seen slot by slot.
LEMMA Gone ==
  ASSUME req \in [Request -> Slot], NEW r \in Request, Goto(r, "set") \/ Goto(r, "invalidate")
  PROVE  /\ req' \in [Request -> Slot]
         /\ \A s \in Request \ {r} : req'[s] = req[s]
         /\ req'[r].hash = req[r].hash /\ req'[r].existing = req[r].existing
         /\ req'[r].project = req[r].project
         /\ Goto(r, "set") => req'[r].pc = "set"
         /\ Goto(r, "invalidate") => req'[r].pc = "invalidate"
<1>1. PICK label \in {"set", "invalidate"} : Goto(r, label)
  OBVIOUS
<1> DEFINE s == [req[r] EXCEPT !.pc = label]
<1>2. req[r] \in Slot /\ label \in PC
  BY DEF PC
<1>3. /\ s \in Slot /\ s.pc = label /\ s.hash = req[r].hash
      /\ s.existing = req[r].existing /\ s.project = req[r].project
  BY <1>2 DEF Slot
<1>4. req' = [req EXCEPT ![r] = s]
  BY <1>1 DEF Goto
<1> HIDE DEF s
<1>5. req'[r] = s /\ req' \in [Request -> Slot] /\ \A q \in Request \ {r} : req'[q] = req[q]
  BY <1>3, <1>4
<1>6. req'[r].pc = label
  BY <1>3, <1>5
<1>7. ASSUME NEW l \in {"set", "invalidate"}, Goto(r, l) PROVE req'[r].pc = l
  <2> DEFINE t == [req[r] EXCEPT !.pc = l]
  <2>1. t.pc = l
    BY <1>2 DEF Slot
  <2>2. req' = [req EXCEPT ![r] = t]
    BY <1>7 DEF Goto
  <2> HIDE DEF t
  <2> QED
    BY <2>1, <2>2
<1> QED
  BY <1>3, <1>5, <1>7

LEMMA Answered ==
  ASSUME req \in [Request -> Slot], NEW r \in Request, Respond(r)
  PROVE  /\ req' \in [Request -> Slot]
         /\ \A s \in Request \ {r} : req'[s] = req[s]
         /\ req'[r] = Idle
         /\ Idle \in Slot /\ Idle.pc = "idle" /\ Idle.hash = NULL
<1>1. Idle \in Slot /\ Idle.pc = "idle" /\ Idle.hash = NULL
  BY DEF Idle, Slot, PC
<1> QED
  BY <1>1 DEF Respond

\* What an arriving request occupies its slot with.
LEMMA Arrived ==
  ASSUME req \in [Request -> Slot], NEW r \in Request, Arrival(r), TypeOK
  PROVE  /\ At(r, "idle")
         /\ req' \in [Request -> Slot]
         /\ \A s \in Request \ {r} : req'[s] = req[s]
         /\ UNCHANGED <<service_tokens, svc_token, history>>
         /\ faults' \in 0..MaxFaults
         /\ \/ /\ req'[r].pc = "find_by_hash"
               /\ req'[r].hash \in Hash /\ owner[req'[r].hash] # NULL
            \/ /\ req'[r].pc = "upsert"
               /\ req'[r].project \in Project \ {Aspectus}
               /\ req'[r].hash \in Hash /\ Fresh(req'[r].hash)
               /\ \/ req'[r].existing = NULL
                  \/ /\ req'[r].existing \in Hash
                     /\ service_tokens[req'[r].project].hash = req'[r].existing
            \/ /\ req'[r].pc = "revoke"
               /\ req'[r].project \in Project \ {Aspectus}
               /\ req'[r].existing \in Hash
               /\ service_tokens[req'[r].project].hash = req'[r].existing
<1>1. CASE \E h \in Hash : owner[h] # NULL /\ Verify(r, h)
  <2>1. PICK h \in Hash : owner[h] # NULL /\ Verify(r, h)
    BY <1>1
  <2> DEFINE s == [Idle EXCEPT !.pc = "find_by_hash", !.hash = h]
  <2>2. s \in Slot /\ s.pc = "find_by_hash" /\ s.hash = h
    BY DEF Idle, Slot, PC
  <2>3. req' = [req EXCEPT ![r] = s]
    BY <2>1 DEF Verify
  <2> HIDE DEF s
  <2>4. req'[r] = s /\ req' \in [Request -> Slot] /\ \A q \in Request \ {r} : req'[q] = req[q]
    BY <2>2, <2>3
  <2>5. faults' \in 0..MaxFaults
    BY <2>1, BoundAssumption DEF Verify, Fault, TypeOK
  <2> QED
    BY <2>1, <2>2, <2>4, <2>5 DEF Verify
<1>2. CASE \E p \in Project, h \in Hash : Create(r, p, h)
  <2>1. PICK p \in Project, h \in Hash : Create(r, p, h)
    BY <1>2
  <2> DEFINE s == [Idle EXCEPT !.pc = "upsert", !.project = p, !.hash = h]
  <2>2. s \in Slot /\ s.pc = "upsert" /\ s.project = p /\ s.hash = h /\ s.existing = NULL
    BY DEF Idle, Slot, PC
  <2>3. req' = [req EXCEPT ![r] = s]
    BY <2>1 DEF Create
  <2> HIDE DEF s
  <2>4. req'[r] = s /\ req' \in [Request -> Slot] /\ \A q \in Request \ {r} : req'[q] = req[q]
    BY <2>2, <2>3
  <2> QED
    BY <2>1, <2>2, <2>4 DEF Create, TypeOK
<1>3. CASE \E p \in Project, h \in Hash : Rotate(r, p, h)
  <2>1. PICK p \in Project, h \in Hash : Rotate(r, p, h)
    BY <1>3
  <2> DEFINE e == service_tokens[p].hash
             s == [pc |-> "upsert", project |-> p, hash |-> h, existing |-> e]
  <2>2. e \in Hash
    BY <2>1 DEF Rotate, Active, TypeOK, Row
  <2>3. s \in Slot /\ s.pc = "upsert" /\ s.project = p /\ s.hash = h /\ s.existing = e
    BY <2>2 DEF Slot, PC
  <2>4. req' = [req EXCEPT ![r] = s]
    BY <2>1 DEF Rotate
  <2> HIDE DEF s
  <2>5. req'[r] = s /\ req' \in [Request -> Slot] /\ \A q \in Request \ {r} : req'[q] = req[q]
    BY <2>3, <2>4
  <2> QED
    BY <2>1, <2>2, <2>3, <2>5 DEF Rotate, TypeOK
<1>4. CASE \E p \in Project : Revoke(r, p)
  <2>1. PICK p \in Project : Revoke(r, p)
    BY <1>4
  <2> DEFINE e == service_tokens[p].hash
             s == [pc |-> "revoke", project |-> p, hash |-> NULL, existing |-> e]
  <2>2. e \in Hash
    BY <2>1 DEF Revoke, Active, TypeOK, Row
  <2>3. s \in Slot /\ s.pc = "revoke" /\ s.project = p /\ s.hash = NULL /\ s.existing = e
    BY <2>2 DEF Slot, PC
  <2>4. req' = [req EXCEPT ![r] = s]
    BY <2>1 DEF Revoke
  <2> HIDE DEF s
  <2>5. req'[r] = s /\ req' \in [Request -> Slot] /\ \A q \in Request \ {r} : req'[q] = req[q]
    BY <2>3, <2>4
  <2> QED
    BY <2>1, <2>2, <2>3, <2>5 DEF Revoke, TypeOK
<1> QED
  BY <1>1, <1>2, <1>3, <1>4 DEF Arrival

\* Initially there are no rows, no keys and no handlers.
LEMMA InitTypeInv == Init => TypeInv
  BY ProjectAssumption, BoundAssumption
  DEF Init, TypeInv, TypeOK, ExistingRead, Row, Slot, Idle, PC

\* A row written by upsert or revoked in place.
LEMMA RowWritten ==
  ASSUME TypeOK, NEW p, NEW row \in Row,
         service_tokens' = [service_tokens EXCEPT ![p] = row]
  PROVE  /\ service_tokens' \in [Project -> Row]
         /\ \A q \in Project : service_tokens'[q] = IF q = p THEN row ELSE service_tokens[q]
  BY DEF TypeOK

\* The history of a row that changes.
LEMMA StraddleType ==
  ASSUME TypeOK, NEW p, Straddle(p)
  PROVE  straddled' \subseteq Hash /\ straddled \subseteq straddled'
  BY DEF TypeOK, Straddle

\* Every step preserves the types.
LEMMA NextTypeInv == TypeInv /\ [Next]_vars => TypeInv'
<1> SUFFICES ASSUME TypeInv, [Next]_vars PROVE TypeInv'
  OBVIOUS
<1> USE DEF TypeInv, ExistingRead
<1>0. req \in [Request -> Slot] /\ service_tokens \in [Project -> Row] /\ svc_token \in [Hash -> 0..TTL]
  BY DEF TypeOK
<1>1. ASSUME NEW r \in Request, FindByHash(r) PROVE TypeInv'
  <2>1. Goto(r, "set") \/ Respond(r)
    BY <1>1 DEF FindByHash
  <2>2. UNCHANGED <<service_tokens, svc_token, faults, history>>
    BY <1>1 DEF FindByHash
  <2> QED
    BY <1>0, <2>1, <2>2, Gone, Answered DEF TypeOK, history
<1>2. ASSUME NEW r \in Request, SetCache(r) PROVE TypeInv'
  <2>1. svc_token' \in [Hash -> 0..TTL] /\ faults' \in 0..MaxFaults
    BY <1>0, <1>2, BoundAssumption DEF SetCache, Fault, TypeOK
  <2>2. UNCHANGED <<service_tokens, history>> /\ Respond(r)
    BY <1>2 DEF SetCache
  <2> QED
    BY <1>0, <2>1, <2>2, Answered DEF TypeOK, history
<1>3. ASSUME NEW r \in Request, Upsert(r) PROVE TypeInv'
  <2>1. [hash |-> req[r].hash, revoked |-> FALSE] \in Row
    BY <1>0 DEF Slot, Row
  <2>2. service_tokens' \in [Project -> Row]
    BY <1>3, <2>1, RowWritten DEF Upsert
  <2>3. owner' \in [Hash -> Project \cup {NULL}]
    BY <1>0, <1>3 DEF Upsert, TypeOK, Slot
  <2>4. /\ straddled' \subseteq Hash
        /\ UNCHANGED <<svc_token, faults, withdrawn>>
    BY <1>3, StraddleType DEF Upsert
  <2>5. Respond(r) \/ (Goto(r, "invalidate") /\ req[r].existing # NULL)
    BY <1>3 DEF Upsert
  <2>6. req' \in [Request -> Slot] /\ ExistingRead'
    BY <1>0, <2>5, Gone, Answered
  <2> QED
    BY <2>2, <2>3, <2>4, <2>6 DEF TypeOK
<1>4. ASSUME NEW r \in Request, RevokeRow(r) PROVE TypeInv'
  <2>1. /\ service_tokens' \in [Project -> Row]
        /\ straddled' \subseteq Hash
    <3>1. CASE service_tokens[req[r].project].revoked
      BY <1>0, <1>4, <3>1 DEF RevokeRow, TypeOK
    <3>2. CASE ~service_tokens[req[r].project].revoked
      <4>1. service_tokens' \in [Project -> Row]
        BY <1>0, <1>4, <3>2 DEF RevokeRow, Row
      <4> QED
        BY <1>4, <3>2, <4>1, StraddleType DEF RevokeRow
    <3> QED
      BY <3>1, <3>2
  <2>2. Respond(r) \/ (Goto(r, "invalidate") /\ req[r].pc = "revoke")
    BY <1>4 DEF RevokeRow, At
  <2>3. req' \in [Request -> Slot] /\ ExistingRead'
    BY <1>0, <2>2, Gone, Answered
  <2>4. UNCHANGED <<svc_token, faults, owner, withdrawn>>
    BY <1>4 DEF RevokeRow
  <2> QED
    BY <2>1, <2>3, <2>4 DEF TypeOK
<1>5. ASSUME NEW r \in Request, Invalidate(r) PROVE TypeInv'
  <2>1. req[r].existing \in Hash
    BY <1>0, <1>5 DEF Invalidate, At, Slot
  <2>2. /\ svc_token' \in [Hash -> 0..TTL]
        /\ withdrawn' \subseteq Hash
        /\ faults' \in 0..MaxFaults
    BY <1>0, <1>5, <2>1, BoundAssumption DEF Invalidate, Fault, TypeOK
  <2>3. Respond(r) /\ UNCHANGED <<service_tokens, owner, straddled>>
    BY <1>5 DEF Invalidate
  <2> QED
    BY <1>0, <2>2, <2>3, Answered DEF TypeOK
<1>6. ASSUME NEW r \in Request, Arrival(r) PROVE TypeInv'
  <2>1. NULL \notin Hash
    BY NullAssumption
  <2> QED
    BY <1>0, <1>6, <2>1, Arrived DEF TypeOK, history
<1>7. ASSUME NEW r \in Request, Abort(r) PROVE TypeInv'
  <2>1. /\ Respond(r) /\ faults' \in 0..MaxFaults
        /\ UNCHANGED <<service_tokens, svc_token, history>>
    BY <1>7, BoundAssumption DEF Abort, Fault, TypeOK
  <2> QED
    BY <1>0, <2>1, Answered DEF TypeOK, history
<1>8. ASSUME NEW h \in AdminHash, Seed(h) PROVE TypeInv'
  <2>0. h \in Hash
    BY AdminAssumption
  <2>1. service_tokens' \in [Project -> Row]
    BY <1>0, <1>8, <2>0 DEF Seed, Row
  <2>2. /\ owner' \in [Hash -> Project \cup {NULL}]
        /\ UNCHANGED <<svc_token, req, faults, withdrawn, straddled>>
    BY <1>8, <2>0, ProjectAssumption DEF Seed, TypeOK
  <2> QED
    BY <1>0, <2>1, <2>2 DEF TypeOK
<1>9. CASE Tick
  <2>1. svc_token' \in [Hash -> 0..TTL]
    BY <1>0, <1>9, BoundAssumption DEF Tick, Cached
  <2> QED
    BY <1>0, <1>9, <2>1 DEF Tick, TypeOK, history
<1>10. CASE UNCHANGED vars
  BY <1>10 DEF vars, history, TypeOK
<1> QED
  BY <1>1, <1>2, <1>3, <1>4, <1>5, <1>6, <1>7, <1>8, <1>9, <1>10 DEF Next, Handler

\* Type correctness: rows, keys, slots and histories of the service-token
\* endpoints and of the verifier stay well formed.
THEOREM TypeCorrect == Spec => []TypeOK
<1>1. TypeInv => TypeOK
  BY DEF TypeInv
<1> QED
  BY <1>1, InitTypeInv, NextTypeInv, PTL DEF Spec

-----------------------------------------------------------------------------
(* The invariant behind the two safety properties.                         *)

\* What a handler knows of the hashes it carries, by the statement it is at.
SlotOK(r) ==
  LET q == req[r] IN
  /\ q.pc \in {"find_by_hash", "set"} => q.hash \in Hash /\ owner[q.hash] # NULL
  /\ q.pc \in {"upsert", "revoke"} => q.project \in Project \ {Aspectus}
  /\ q.pc = "upsert" => q.hash \in Hash \ AdminHash /\ owner[q.hash] = NULL
  /\ q.pc \in {"upsert", "revoke"} /\ q.existing # NULL =>
       owner[q.existing] = q.project
  /\ q.pc = "revoke" => service_tokens[q.project].hash # NULL
  /\ q.pc = "invalidate" =>
       owner[q.existing] \notin {NULL, Aspectus} /\ ~Named(q.existing)

\* Two handlers never carry the same generated token.
HashesApart ==
  \A r, s \in Request :
    At(r, "upsert") /\ At(s, "upsert") /\ r # s => req[r].hash # req[s].hash

\* A hash is in the row of the project it was made for or in none.
RowsOwned ==
  \A p \in Project : service_tokens[p].hash # NULL => owner[service_tokens[p].hash] = p

\* The admin project's row has held admin tokens only, and no other row has
\* held one.
AdminOwned ==
  \A h \in Hash : owner[h] # NULL => (owner[h] = Aspectus <=> h \in AdminHash)

\* No endpoint revokes the admin token.
AdminStands == ~service_tokens[Aspectus].revoked

\* A verifier that is about to cache a generated token the table no longer
\* names was recorded when the table ceased to name it.
HeldRecorded ==
  \A h \in Hash \ AdminHash : owner[h] # NULL /\ Held(h) /\ ~Named(h) => h \in straddled

WithdrawnGone ==
  \A h \in withdrawn :
    /\ owner[h] \notin {NULL, Aspectus}
    /\ ~Named(h)
    /\ h \notin straddled => ~Cached(h)

IInv ==
  /\ TypeInv
  /\ \A r \in Request : SlotOK(r)
  /\ HashesApart
  /\ RowsOwned
  /\ AdminOwned
  /\ AdminStands
  /\ HeldRecorded
  /\ WithdrawnGone

-----------------------------------------------------------------------------
(* What a step may do to a token: the facts both theorems rest on.         *)

\* An issued token keeps its owner, is never named again once it is not
\* unless it is an admin token, is held only if it was held or named, cached
\* only if it was cached or held; a token is issued by being named, and a
\* generated one that is held while it ceases to be named is recorded.
Effects ==
  /\ \A h \in Hash :
       /\ owner[h] # NULL => owner'[h] = owner[h]
       /\ owner[h] # NULL /\ Named(h)' => Named(h) \/ h \in AdminHash
       /\ owner[h] = NULL /\ owner'[h] # NULL => Named(h)'
       /\ Held(h)' => Held(h) \/ Named(h)
       /\ Cached(h)' => Cached(h) \/ Held(h)
       /\ Named(h) /\ ~Named(h)' /\ Held(h)' => h \in straddled' \/ h \in AdminHash
  /\ straddled \subseteq straddled'

\* Steps that leave the table alone.
LEMMA QuietEffects ==
  ASSUME UNCHANGED <<service_tokens, owner, straddled>>,
         \A h \in Hash : Held(h)' => Held(h) \/ Named(h),
         \A h \in Hash : Cached(h)' => Cached(h) \/ Held(h)
  PROVE  Effects
<1>1. \A h \in Hash : Named(h)' = Named(h)
  BY DEF Named, Active
<1> QED
  BY <1>1 DEF Effects

\* A slot that changes without reaching SETEX makes nothing held.
LEMMA NothingHeld ==
  ASSUME NEW r \in Request, \A s \in Request \ {r} : req'[s] = req[s], req'[r].pc # "set"
  PROVE  \A h \in Hash : Held(h)' => Held(h)
  BY DEF Held, At

\* Steps that put a hash in the row of p: one that no row has held, or an
\* admin token in the row that has held it before.
LEMMA UpsertEffects ==
  ASSUME IInv, NEW p \in Project, NEW new \in Hash,
         owner[new] = NULL \/ (owner[new] = p /\ new \in AdminHash),
         service_tokens' \in [Project -> Row],
         service_tokens'[p] = [hash |-> new, revoked |-> FALSE],
         \A q \in Project \ {p} : service_tokens'[q] = service_tokens[q],
         owner' = [owner EXCEPT ![new] = p],
         Straddle(p) \/ (UNCHANGED straddled /\ p = Aspectus), UNCHANGED svc_token,
         \A h \in Hash : Held(h)' => Held(h)
  PROVE  /\ Effects
         /\ \A h \in Hash : Named(h)' <=> h = new \/ (Named(h) /\ h # service_tokens[p].hash)
<1> USE DEF IInv, TypeInv
<1>1. p # NULL /\ NULL \notin Hash /\ NULL \notin Project
  BY NullAssumption
<1>2. /\ owner \in [Hash -> Project \cup {NULL}]
      /\ service_tokens \in [Project -> Row]
  BY DEF TypeOK
<1>3. Active(p)' /\ service_tokens'[p].hash = new
  BY <1>1 DEF Active
<1>4. ASSUME NEW h \in Hash
      PROVE  Named(h)' <=> h = new \/ (Named(h) /\ h # service_tokens[p].hash)
  <2>1. ASSUME h = new PROVE Named(h)'
    BY <1>3, <2>1 DEF Named
  <2>2. ASSUME NEW q \in Project, q # p PROVE Active(q)' <=> Active(q)
    BY <2>2 DEF Active
  <2>3. ASSUME Named(h)', h # new PROVE Named(h) /\ h # service_tokens[p].hash
    <3>1. PICK q \in Project : Active(q)' /\ service_tokens'[q].hash = h
      BY <2>3 DEF Named
    <3>2. q # p
      BY <1>3, <2>3, <3>1
    <3>3. Active(q) /\ service_tokens[q].hash = h
      BY <2>2, <3>1, <3>2
    <3>4. owner[h] = q
      BY <1>1, <3>3 DEF RowsOwned
    <3>5. h # service_tokens[p].hash
      BY <1>1, <3>2, <3>4 DEF RowsOwned
    <3> QED
      BY <3>3, <3>5 DEF Named
  <2>4. ASSUME Named(h), h # service_tokens[p].hash PROVE Named(h)'
    <3>1. PICK q \in Project : Active(q) /\ service_tokens[q].hash = h
      BY <2>4 DEF Named
    <3>2. q # p
      BY <2>4, <3>1
    <3> QED
      BY <2>2, <3>1, <3>2 DEF Named
  <2> QED
    BY <2>1, <2>3, <2>4
<1>5. straddled \subseteq straddled'
  BY DEF Straddle
<1>6. ASSUME NEW h \in Hash
      PROVE  /\ owner[h] # NULL => owner'[h] = owner[h]
             /\ owner[h] = NULL /\ owner'[h] # NULL => h = new
             /\ owner[h] # NULL /\ h = new => h \in AdminHash
  BY <1>2
<1>7. ASSUME NEW h \in Hash, Named(h), ~Named(h)', Held(h)'
      PROVE  h \in straddled' \/ h \in AdminHash
  <2>1. h = service_tokens[p].hash
    BY <1>4, <1>7
  <2>2. CASE Straddle(p)
    BY <1>7, <2>1, <2>2 DEF Straddle
  <2>3. CASE p = Aspectus
    BY <1>1, <2>1, <2>3 DEF RowsOwned, AdminOwned
  <2> QED
    BY <2>2, <2>3
<1>8. \A h \in Hash : Cached(h)' = Cached(h)
  BY DEF Cached
<1> QED
  BY <1>4, <1>5, <1>6, <1>7, <1>8 DEF Effects

\* UPDATE ... SET revoked_at on the row of p.
LEMMA RevokeEffects ==
  ASSUME IInv, NEW p \in Project,
         service_tokens' = [service_tokens EXCEPT ![p].revoked = TRUE],
         Straddle(p), UNCHANGED <<svc_token, owner>>,
         \A h \in Hash : Held(h)' => Held(h)
  PROVE  /\ Effects
         /\ \A h \in Hash : Named(h)' <=> Named(h) /\ h # service_tokens[p].hash
         /\ \A q \in Project : service_tokens'[q].hash = service_tokens[q].hash
         /\ \A q \in Project \ {p} : service_tokens'[q] = service_tokens[q]
<1> USE DEF IInv, TypeInv
<1>1. NULL \notin Hash
  BY NullAssumption
<1>2. service_tokens \in [Project -> Row]
  BY DEF TypeOK
<1>3. /\ service_tokens'[p].revoked = TRUE
      /\ service_tokens'[p].hash = service_tokens[p].hash
      /\ \A q \in Project \ {p} : service_tokens'[q] = service_tokens[q]
  BY <1>2 DEF Row
<1>4. ~Active(p)' /\ \A q \in Project \ {p} : Active(q)' <=> Active(q)
  BY <1>3 DEF Active
<1>5. ASSUME NEW h \in Hash
      PROVE  Named(h)' <=> Named(h) /\ h # service_tokens[p].hash
  <2>1. ASSUME Named(h)' PROVE Named(h) /\ h # service_tokens[p].hash
    <3>1. PICK q \in Project : Active(q)' /\ service_tokens'[q].hash = h
      BY <2>1 DEF Named
    <3>2. q # p
      BY <1>4, <3>1
    <3>3. Active(q) /\ service_tokens[q].hash = h
      BY <1>3, <1>4, <3>1, <3>2
    <3>4. h # service_tokens[p].hash
      BY <1>1, <3>2, <3>3 DEF RowsOwned
    <3> QED
      BY <3>3, <3>4 DEF Named
  <2>2. ASSUME Named(h), h # service_tokens[p].hash PROVE Named(h)'
    <3>1. PICK q \in Project : Active(q) /\ service_tokens[q].hash = h
      BY <2>2 DEF Named
    <3>2. q # p
      BY <2>2, <3>1
    <3> QED
      BY <1>3, <1>4, <3>1, <3>2 DEF Named
  <2> QED
    BY <2>1, <2>2
<1>6. straddled \subseteq straddled'
  BY DEF Straddle
<1>7. ASSUME NEW h \in Hash, Named(h), ~Named(h)', Held(h)' PROVE h \in straddled'
  BY <1>5, <1>7 DEF Straddle
<1>8. \A h \in Hash : Cached(h)' = Cached(h)
  BY DEF Cached
<1>9. Effects
  BY <1>5, <1>6, <1>7, <1>8 DEF Effects
<1> QED
  BY <1>3, <1>5, <1>9

-----------------------------------------------------------------------------
(* The invariant is inductive.                                             *)

LEMMA InitIInv == Init => IInv
<1> SUFFICES ASSUME Init PROVE IInv
  OBVIOUS
<1>1. TypeInv
  BY InitTypeInv
<1>2. \A r \in Request : req[r].pc = "idle"
  BY DEF Init, Idle
<1>3. (\A r \in Request : SlotOK(r)) /\ HashesApart /\ HeldRecorded
  BY <1>2 DEF SlotOK, HashesApart, HeldRecorded, Held, At
<1>4. RowsOwned /\ AdminOwned /\ AdminStands /\ WithdrawnGone
  BY ProjectAssumption DEF Init, RowsOwned, AdminOwned, AdminStands, WithdrawnGone
<1> QED
  BY <1>1, <1>3, <1>4 DEF IInv

\* What Effects gives for the two parts that speak of tokens already issued.
LEMMA TokensKept ==
  ASSUME IInv, Effects
  PROVE  /\ HeldRecorded'
         /\ \A h \in withdrawn :
              /\ owner'[h] \notin {NULL, Aspectus}
              /\ ~Named(h)'
              /\ h \notin straddled' => ~Cached(h)'
<1> USE DEF IInv, TypeInv
<1>1. ASSUME NEW h \in Hash \ AdminHash, owner'[h] # NULL, Held(h)', ~Named(h)'
      PROVE  h \in straddled'
  <2>1. owner[h] # NULL
    BY <1>1 DEF Effects
  <2>2. CASE Named(h)
    BY <1>1, <2>2 DEF Effects
  <2>3. CASE ~Named(h)
    <3>1. Held(h)
      BY <1>1, <2>3 DEF Effects
    <3>2. h \in straddled
      BY <2>1, <2>3, <3>1 DEF HeldRecorded
    <3> QED
      BY <3>2 DEF Effects
  <2> QED
    BY <2>2, <2>3
<1>2. HeldRecorded'
  BY <1>1 DEF HeldRecorded
<1>3. ASSUME NEW h \in withdrawn
      PROVE  /\ owner'[h] \notin {NULL, Aspectus}
             /\ ~Named(h)'
             /\ h \notin straddled' => ~Cached(h)'
  <2>1. h \in Hash \ AdminHash /\ owner[h] \notin {NULL, Aspectus} /\ ~Named(h)
    BY DEF TypeOK, WithdrawnGone, AdminOwned
  <2>2. owner'[h] \notin {NULL, Aspectus} /\ ~Named(h)'
    BY <2>1 DEF Effects
  <2>3. ASSUME h \notin straddled' PROVE ~Cached(h)'
    <3>1. h \notin straddled
      BY <2>3 DEF Effects
    <3>2. ~Cached(h)
      BY <3>1 DEF WithdrawnGone
    <3>3. ~Held(h)
      BY <2>1, <3>1 DEF HeldRecorded
    <3> QED
      BY <2>1, <3>2, <3>3 DEF Effects
  <2> QED
    BY <2>2, <2>3
<1> QED
  BY <1>2, <1>3

\* A slot the step does not touch stays in order.
LEMMA SlotKept ==
  ASSUME IInv, Effects, NEW s \in Request, req'[s] = req[s],
         At(s, "upsert") => owner'[req[s].hash] = owner[req[s].hash],
         \A p \in Project : service_tokens[p].hash # NULL => service_tokens'[p].hash # NULL
  PROVE  SlotOK(s)'
<1> USE DEF IInv, TypeInv
<1>1. SlotOK(s) /\ req[s] \in Slot /\ NULL \notin Project \cup Hash
  BY NullAssumption DEF TypeOK
<1>2. \A h \in Hash : owner[h] # NULL =>
        owner'[h] = owner[h] /\ (Named(h)' => Named(h) \/ h \in AdminHash)
  BY DEF Effects
<1>3. req[s].hash \in Hash \cup {NULL} /\ req[s].existing \in Hash \cup {NULL}
  BY <1>1 DEF Slot
<1>4. req[s].pc = "invalidate" => req[s].existing \in Hash
  BY <1>3 DEF ExistingRead
<1>5. req[s].pc \in {"find_by_hash", "set"} => req[s].hash \in Hash /\ owner'[req[s].hash] # NULL
  BY <1>1, <1>2 DEF SlotOK
<1>6. req[s].pc = "upsert" => req[s].hash \in Hash \ AdminHash /\ owner'[req[s].hash] = NULL
  BY <1>1 DEF SlotOK, At
<1>7. req[s].pc \in {"upsert", "revoke"} /\ req[s].existing # NULL
        => owner'[req[s].existing] = req[s].project
  BY <1>1, <1>2, <1>3 DEF SlotOK
<1>8. req[s].pc = "revoke" => service_tokens'[req[s].project].hash # NULL
  BY <1>1 DEF SlotOK
<1>9. req[s].pc = "invalidate" =>
        owner'[req[s].existing] \notin {NULL, Aspectus} /\ ~Named(req[s].existing)'
  <2> SUFFICES ASSUME req[s].pc = "invalidate"
               PROVE  owner'[req[s].existing] \notin {NULL, Aspectus} /\ ~Named(req[s].existing)'
    OBVIOUS
  <2>1. PICK e \in Hash : e = req[s].existing
    BY <1>4
  <2>2. owner[e] \notin {NULL, Aspectus} /\ ~Named(e) /\ e \notin AdminHash
    BY <1>1, <2>1 DEF SlotOK, AdminOwned
  <2>3. owner'[e] \notin {NULL, Aspectus} /\ ~Named(e)'
    BY <1>2, <2>2
  <2>4. e = req[s].existing'
    BY <2>1
  <2> QED
    BY <2>1, <2>3, <2>4
<1>10. req'[s] = req[s]
  OBVIOUS
<1>11. req[s].pc \in {"upsert", "revoke"} => req[s].project \in Project \ {Aspectus}
  BY <1>1 DEF SlotOK
<1> QED
  BY <1>5, <1>6, <1>7, <1>8, <1>9, <1>10, <1>11 DEF SlotOK

\* A step of one slot that leaves the table and the history alone.
LEMMA QuietStep ==
  ASSUME IInv, TypeInv', NEW r \in Request, \A s \in Request \ {r} : req'[s] = req[s],
         UNCHANGED <<service_tokens, history>>,
         \A h \in Hash : Held(h)' => Held(h) \/ Named(h),
         \A h \in Hash : Cached(h)' => Cached(h) \/ Held(h),
         SlotOK(r)',
         At(r, "upsert")' => \A s \in Request \ {r} : req[s].hash # req'[r].hash
  PROVE  Effects /\ IInv'
<1>1. Effects
  BY QuietEffects DEF history
<1>2. HeldRecorded' /\ WithdrawnGone'
  BY <1>1, TokensKept DEF WithdrawnGone, history
<1>3. ASSUME NEW s \in Request, s # r PROVE SlotOK(s)'
  BY <1>1, <1>3, SlotKept DEF history
<1>4. HashesApart'
  BY DEF IInv, HashesApart, At
<1>5. RowsOwned' /\ AdminOwned' /\ AdminStands'
  BY DEF IInv, RowsOwned, AdminOwned, AdminStands, history
<1> QED
  BY <1>1, <1>2, <1>3, <1>4, <1>5 DEF IInv

\* A step that puts a token in the row of p: a generated one that no row has
\* held, or an admin token in the row of the admin project.
LEMMA IssueStep ==
  ASSUME IInv, TypeInv', NEW p \in Project, NEW new \in Hash,
         p = Aspectus <=> new \in AdminHash,
         owner[new] = NULL \/ (owner[new] = p /\ new \in AdminHash),
         service_tokens' \in [Project -> Row],
         service_tokens'[p] = [hash |-> new, revoked |-> FALSE],
         \A q \in Project \ {p} : service_tokens'[q] = service_tokens[q],
         owner' = [owner EXCEPT ![new] = p],
         Straddle(p) \/ (UNCHANGED straddled /\ p = Aspectus),
         UNCHANGED <<svc_token, withdrawn>>,
         \A h \in Hash : Held(h)' => Held(h),
         \A s \in Request : At(s, "upsert")' =>
           req'[s] = req[s] /\ req[s].hash # new,
         \A s \in Request : req'[s] = req[s] \/ SlotOK(s)'
  PROVE  Effects /\ IInv'
<1>0. /\ owner \in [Hash -> Project \cup {NULL}]
      /\ service_tokens \in [Project -> Row]
      /\ NULL \notin Hash
  BY NullAssumption DEF IInv, TypeInv, TypeOK
<1>1. /\ Effects
      /\ \A h \in Hash : Named(h)' <=> h = new \/ (Named(h) /\ h # service_tokens[p].hash)
  BY UpsertEffects
<1>2. HeldRecorded' /\ WithdrawnGone'
  BY <1>1, TokensKept DEF WithdrawnGone
<1>3. \A q \in Project : service_tokens[q].hash # NULL => service_tokens'[q].hash # NULL
  BY <1>0
<1>4. ASSUME NEW s \in Request PROVE SlotOK(s)'
  <2>1. CASE req'[s] = req[s]
    <3>1. At(s, "upsert") => owner'[req[s].hash] = owner[req[s].hash]
      BY <1>0, <2>1 DEF At
    <3> QED
      BY <1>1, <1>3, <2>1, <3>1, SlotKept
  <2> QED
    BY <2>1
<1>5. HashesApart'
  BY DEF IInv, HashesApart, At
<1>6. RowsOwned'
  <2> SUFFICES ASSUME NEW q \in Project, service_tokens'[q].hash # NULL
               PROVE  owner'[service_tokens'[q].hash] = q
    BY DEF RowsOwned
  <2>1. CASE q = p
    BY <1>0, <2>1
  <2>2. CASE q # p
    <3>1. service_tokens'[q].hash = service_tokens[q].hash /\ service_tokens[q].hash \in Hash
      BY <1>0, <2>2 DEF Row
    <3>2. owner[service_tokens[q].hash] = q /\ q # NULL
      BY <3>1, <1>0, NullAssumption DEF IInv, RowsOwned
    <3> QED
      BY <1>0, <3>1, <3>2
  <2> QED
    BY <2>1, <2>2
<1>7. AdminOwned' /\ AdminStands'
  BY <1>0, ProjectAssumption DEF IInv, AdminOwned, AdminStands
<1> QED
  BY <1>1, <1>2, <1>4, <1>5, <1>6, <1>7 DEF IInv

\* A hash owned by p is named by the row of p or by none.
LEMMA OwnRowOnly ==
  ASSUME IInv, NEW p \in Project, NEW h \in Hash, owner[h] = p, h # service_tokens[p].hash
  PROVE  ~Named(h)
  BY NullAssumption DEF IInv, RowsOwned, Named, Active

LEMMA IdleOK ==
  ASSUME NEW r \in Request, req'[r] = Idle
  PROVE  SlotOK(r)' /\ req'[r].pc # "set" /\ ~At(r, "upsert")'
  BY DEF SlotOK, Idle, At

LEMMA FindByHashIInv ==
  ASSUME IInv, TypeInv', NEW r \in Request, FindByHash(r) PROVE Effects /\ IInv'
<1>0. req \in [Request -> Slot]
  BY DEF IInv, TypeInv, TypeOK
<1>1. UNCHANGED <<service_tokens, svc_token, history>>
  BY DEF FindByHash
<1>2. \A h \in Hash : Cached(h)' => Cached(h) \/ Held(h)
  BY <1>1 DEF Cached
<1>3. CASE Named(req[r].hash)
  <2>1. Goto(r, "set")
    BY <1>3 DEF FindByHash
  <2>2. /\ \A s \in Request \ {r} : req'[s] = req[s]
        /\ req'[r].pc = "set" /\ req'[r].hash = req[r].hash
    BY <1>0, <2>1, Gone
  <2>3. \A h \in Hash : Held(h)' => Held(h) \/ Named(h)
    BY <1>3, <2>2 DEF Held, At
  <2>4. SlotOK(r)
    BY DEF IInv
  <2>5. SlotOK(r)'
    BY <1>1, <2>2, <2>4 DEF SlotOK, FindByHash, At, history
  <2> QED
    BY <1>1, <1>2, <2>2, <2>3, <2>5, QuietStep DEF At
<1>4. CASE ~Named(req[r].hash)
  <2>1. /\ \A s \in Request \ {r} : req'[s] = req[s]
        /\ req'[r] = Idle
    BY <1>0, <1>4, Answered DEF FindByHash
  <2>2. SlotOK(r)' /\ ~At(r, "upsert")' /\ \A h \in Hash : Held(h)' => Held(h)
    BY <2>1, IdleOK, NothingHeld
  <2> QED
    BY <1>1, <1>2, <2>1, <2>2, QuietStep
<1> QED
  BY <1>3, <1>4

LEMMA SetCacheIInv ==
  ASSUME IInv, TypeInv', NEW r \in Request, SetCache(r) PROVE Effects /\ IInv'
<1>0. req \in [Request -> Slot] /\ svc_token \in [Hash -> 0..TTL]
  BY DEF IInv, TypeInv, TypeOK
<1>1. UNCHANGED <<service_tokens, history>>
  BY DEF SetCache
<1>2. \A h \in Hash : Cached(h)' => Cached(h) \/ Held(h)
  BY <1>0 DEF SetCache, Cached, Held
<1>3. /\ \A s \in Request \ {r} : req'[s] = req[s]
      /\ req'[r] = Idle
  BY <1>0, Answered DEF SetCache
<1>4. SlotOK(r)' /\ ~At(r, "upsert")' /\ \A h \in Hash : Held(h)' => Held(h)
  BY <1>3, IdleOK, NothingHeld
<1> QED
  BY <1>1, <1>2, <1>3, <1>4, QuietStep

LEMMA UpsertIInv ==
  ASSUME IInv, TypeInv', NEW r \in Request, Upsert(r) PROVE Effects /\ IInv'
<1> DEFINE p == req[r].project
           new == req[r].hash
<1>0. /\ req \in [Request -> Slot]
      /\ service_tokens \in [Project -> Row]
      /\ NULL \notin Project \cup Hash
  BY NullAssumption DEF IInv, TypeInv, TypeOK
<1>1. SlotOK(r) /\ At(r, "upsert")
  BY DEF IInv, Upsert
<1>2. /\ p \in Project \ {Aspectus} /\ new \in Hash \ AdminHash /\ owner[new] = NULL
      /\ req[r].existing # NULL => owner[req[r].existing] = p
  BY <1>1 DEF SlotOK, At
<1>3. /\ service_tokens' = [service_tokens EXCEPT ![p] = [hash |-> new, revoked |-> FALSE]]
      /\ owner' = [owner EXCEPT ![new] = p]
      /\ Straddle(p)
      /\ UNCHANGED <<svc_token, withdrawn>>
      /\ IF req[r].existing = NULL THEN Respond(r) ELSE Goto(r, "invalidate")
  BY DEF Upsert
<1>4. /\ service_tokens' \in [Project -> Row]
      /\ service_tokens'[p] = [hash |-> new, revoked |-> FALSE]
      /\ \A q \in Project \ {p} : service_tokens'[q] = service_tokens[q]
  <2>1. [hash |-> new, revoked |-> FALSE] \in Row
    BY <1>2 DEF Row
  <2> QED
    BY <1>0, <1>2, <1>3, <2>1
<1>5. /\ \A s \in Request \ {r} : req'[s] = req[s]
      /\ req'[r].existing = req[r].existing \/ req'[r] = Idle
      /\ IF req[r].existing = NULL THEN req'[r] = Idle
         ELSE req'[r].pc = "invalidate" /\ req'[r].existing = req[r].existing
  BY <1>0, <1>3, Gone, Answered
<1>6. req'[r].pc \notin {"set", "upsert"}
  BY <1>5, IdleOK DEF Idle
<1>7. \A h \in Hash : Held(h)' => Held(h)
  BY <1>5, <1>6, NothingHeld
<1>8. \A s \in Request : At(s, "upsert")' => req'[s] = req[s] /\ req[s].hash # new
  BY <1>1, <1>5, <1>6 DEF At, IInv, HashesApart
<1>9. \A h \in Hash : Named(h)' <=> h = new \/ (Named(h) /\ h # service_tokens[p].hash)
  <2> HIDE DEF p, new
  <2> QED
    BY <1>2, <1>3, <1>4, <1>7, UpsertEffects
<1>10. SlotOK(r)'
  <2>1. CASE req[r].existing = NULL
    BY <1>5, <2>1, IdleOK
  <2>2. CASE req[r].existing # NULL
    <3>1. PICK e \in Hash : e = req[r].existing
      BY <1>0, <2>2 DEF Slot
    <3>2. owner[e] = p /\ e # new /\ owner'[e] \notin {NULL, Aspectus}
      BY <1>0, <1>2, <1>3, <2>2, <3>1 DEF IInv, TypeInv, TypeOK
    <3>3. ~(Named(e) /\ e # service_tokens[p].hash)
      BY <1>2, <3>2, OwnRowOnly
    <3>4. ~Named(e)'
      BY <1>9, <3>2, <3>3
    <3>5. e = req'[r].existing /\ req'[r].pc = "invalidate"
      BY <1>5, <2>2, <3>1
    <3> QED
      BY <3>2, <3>4, <3>5 DEF SlotOK
  <2> QED
    BY <2>1, <2>2
<1> HIDE DEF p, new
<1> QED
  BY <1>2, <1>3, <1>4, <1>5, <1>7, <1>8, <1>10, IssueStep

LEMMA RevokeRowIInv ==
  ASSUME IInv, TypeInv', NEW r \in Request, RevokeRow(r) PROVE Effects /\ IInv'
<1> DEFINE p == req[r].project
<1>0. /\ req \in [Request -> Slot]
      /\ service_tokens \in [Project -> Row]
      /\ NULL \notin Project \cup Hash
  BY NullAssumption DEF IInv, TypeInv, TypeOK
<1>1. SlotOK(r) /\ At(r, "revoke") /\ UNCHANGED <<svc_token, owner, withdrawn>>
  BY DEF IInv, RevokeRow
<1>2. /\ p \in Project \ {Aspectus}
      /\ req[r].existing \in Hash /\ owner[req[r].existing] = p
  BY <1>0, <1>1 DEF SlotOK, At, IInv, TypeInv, ExistingRead, Slot
<1>3. CASE service_tokens[p].revoked
  <2>1. Respond(r) /\ UNCHANGED <<service_tokens, history, svc_token>>
    BY <1>1, <1>3 DEF RevokeRow, history
  <2>2. req'[r] = Idle /\ \A s \in Request \ {r} : req'[s] = req[s]
    BY <1>0, <2>1, Answered
  <2>3. SlotOK(r)' /\ ~At(r, "upsert")' /\ \A h \in Hash : Held(h)' => Held(h)
    BY <2>2, IdleOK, NothingHeld
  <2>4. \A h \in Hash : Cached(h)' => Cached(h) \/ Held(h)
    BY <2>1 DEF Cached
  <2> QED
    BY <2>1, <2>2, <2>3, <2>4, QuietStep
<1>4. CASE ~service_tokens[p].revoked
  <2>1. /\ service_tokens' = [service_tokens EXCEPT ![p].revoked = TRUE]
        /\ Straddle(p)
        /\ Goto(r, "invalidate")
    BY <1>4 DEF RevokeRow
  <2>2. /\ \A s \in Request \ {r} : req'[s] = req[s]
        /\ req'[r].pc = "invalidate" /\ req'[r].existing = req[r].existing
    BY <1>0, <2>1, Gone
  <2>3. \A h \in Hash : Held(h)' => Held(h)
    BY <2>2, NothingHeld
  <2>4. /\ Effects
        /\ \A h \in Hash : Named(h)' <=> Named(h) /\ h # service_tokens[p].hash
        /\ \A q \in Project : service_tokens'[q].hash = service_tokens[q].hash
        /\ \A q \in Project \ {p} : service_tokens'[q] = service_tokens[q]
    <3> HIDE DEF p
    <3> QED
      BY <1>1, <1>2, <2>1, <2>3, RevokeEffects
  <2>5. HeldRecorded' /\ WithdrawnGone'
    BY <1>1, <2>4, TokensKept DEF WithdrawnGone
  <2>6. SlotOK(r)'
    <3>1. PICK e \in Hash : e = req[r].existing
      BY <1>2
    <3>2. ~(Named(e) /\ e # service_tokens[p].hash)
      BY <1>2, <3>1, OwnRowOnly
    <3>3. ~Named(e)' /\ owner'[e] \notin {NULL, Aspectus}
      BY <1>0, <1>1, <1>2, <2>4, <3>1, <3>2
    <3>4. e = req'[r].existing /\ req'[r].pc = "invalidate"
      BY <2>2, <3>1
    <3> QED
      BY <3>3, <3>4 DEF SlotOK
  <2>7. ASSUME NEW s \in Request, s # r PROVE SlotOK(s)'
    BY <1>1, <2>2, <2>4, <2>7, SlotKept
  <2>8. HashesApart'
    BY <2>2 DEF IInv, HashesApart, At
  <2>9. RowsOwned' /\ AdminOwned' /\ AdminStands'
    BY <1>1, <1>2, <2>4, ProjectAssumption DEF IInv, RowsOwned, AdminOwned, AdminStands
  <2> QED
    BY <2>4, <2>5, <2>6, <2>7, <2>8, <2>9 DEF IInv
<1> QED
  BY <1>3, <1>4

LEMMA InvalidateIInv ==
  ASSUME IInv, TypeInv', NEW r \in Request, Invalidate(r) PROVE Effects /\ IInv'
<1>0. /\ req \in [Request -> Slot] /\ svc_token \in [Hash -> 0..TTL]
      /\ withdrawn \subseteq Hash
  BY DEF IInv, TypeInv, TypeOK
<1>1. SlotOK(r) /\ At(r, "invalidate") /\ UNCHANGED <<service_tokens, owner, straddled>>
  BY DEF IInv, Invalidate
<1>2. /\ req[r].existing \in Hash
      /\ owner[req[r].existing] \notin {NULL, Aspectus} /\ ~Named(req[r].existing)
      /\ req[r].existing \notin AdminHash
  BY <1>0, <1>1 DEF SlotOK, At, IInv, TypeInv, ExistingRead, Slot, AdminOwned
<1>3. /\ \A s \in Request \ {r} : req'[s] = req[s]
      /\ req'[r] = Idle
  BY <1>0, Answered DEF Invalidate
<1>4. SlotOK(r)' /\ ~At(r, "upsert")' /\ \A h \in Hash : Held(h)' => Held(h)
  BY <1>3, IdleOK, NothingHeld
<1>5. \A h \in Hash : Cached(h)' => Cached(h)
  BY <1>0 DEF Cached, Invalidate
<1>6. Effects
  BY <1>1, <1>4, <1>5, QuietEffects
<1>7. /\ HeldRecorded'
      /\ \A h \in withdrawn :
           /\ owner'[h] \notin {NULL, Aspectus}
           /\ ~Named(h)'
           /\ h \notin straddled' => ~Cached(h)'
  BY <1>6, TokensKept
<1>8. WithdrawnGone'
  <2>1. CASE withdrawn' = withdrawn
    BY <1>7, <2>1 DEF WithdrawnGone
  <2>2. CASE withdrawn' # withdrawn
    <3>1. PICK e \in Hash : e = req[r].existing
      BY <1>2
    <3>2. withdrawn' = withdrawn \cup {e} /\ svc_token'[e] = 0
      BY <1>0, <2>2, <3>1 DEF Invalidate
    <3>3. owner'[e] \notin {NULL, Aspectus} /\ ~Named(e)' /\ ~Cached(e)'
      BY <1>1, <1>2, <1>6, <3>1, <3>2 DEF Effects, Cached
    <3> QED
      BY <1>7, <3>2, <3>3 DEF WithdrawnGone
  <2> QED
    BY <2>1, <2>2
<1>9. ASSUME NEW s \in Request, s # r PROVE SlotOK(s)'
  BY <1>1, <1>3, <1>6, <1>9, SlotKept
<1>10. HashesApart'
  BY <1>3, <1>4 DEF IInv, HashesApart, At
<1>11. RowsOwned' /\ AdminOwned' /\ AdminStands'
  BY <1>1 DEF IInv, RowsOwned, AdminOwned, AdminStands
<1> QED
  BY <1>4, <1>6, <1>7, <1>8, <1>9, <1>10, <1>11 DEF IInv

LEMMA ArrivalIInv ==
  ASSUME IInv, TypeInv', NEW r \in Request, Arrival(r) PROVE Effects /\ IInv'
<1>0. req \in [Request -> Slot] /\ TypeOK /\ NULL \notin Project \cup Hash
  BY NullAssumption DEF IInv, TypeInv, TypeOK
<1>1. UNCHANGED <<service_tokens, svc_token, history>>
  BY <1>0, Arrived
<1>2. \A s \in Request \ {r} : req'[s] = req[s]
  BY <1>0, Arrived
<1>3. req'[r].pc # "set"
  BY <1>0, Arrived
<1>4. \A h \in Hash : (Held(h)' => Held(h)) /\ (Cached(h)' => Cached(h))
  BY <1>1, <1>2, <1>3, NothingHeld DEF Cached
<1>5. CASE req'[r].pc = "find_by_hash"
  <2>1. req'[r].hash \in Hash /\ owner[req'[r].hash] # NULL
    BY <1>0, <1>5, Arrived
  <2>2. SlotOK(r)' /\ ~At(r, "upsert")'
    BY <1>1, <1>5, <2>1 DEF SlotOK, At, history
  <2> QED
    BY <1>1, <1>2, <1>4, <2>2, QuietStep
<1>6. CASE req'[r].pc = "upsert"
  <2>1. /\ req'[r].project \in Project \ {Aspectus}
        /\ req'[r].hash \in Hash /\ Fresh(req'[r].hash)
        /\ \/ req'[r].existing = NULL
           \/ /\ req'[r].existing \in Hash
              /\ service_tokens[req'[r].project].hash = req'[r].existing
    BY <1>0, <1>6, Arrived
  <2>2. /\ owner[req'[r].hash] = NULL /\ req'[r].hash \notin AdminHash
        /\ \A s \in Request : req[s].hash # req'[r].hash
    BY <2>1 DEF Fresh
  <2>3. req'[r].existing # NULL => owner[req'[r].existing] = req'[r].project
    BY <2>1 DEF IInv, RowsOwned
  <2>4. SlotOK(r)'
    BY <1>1, <1>6, <2>1, <2>2, <2>3 DEF SlotOK, history
  <2> QED
    BY <1>1, <1>2, <1>4, <2>2, <2>4, QuietStep
<1>7. CASE req'[r].pc = "revoke"
  <2>1. /\ req'[r].project \in Project \ {Aspectus}
        /\ req'[r].existing \in Hash
        /\ service_tokens[req'[r].project].hash = req'[r].existing
    BY <1>0, <1>7, Arrived
  <2>2. owner[req'[r].existing] = req'[r].project
    BY <1>0, <2>1 DEF IInv, RowsOwned
  <2>3. SlotOK(r)' /\ ~At(r, "upsert")'
    BY <1>0, <1>1, <1>7, <2>1, <2>2 DEF SlotOK, At, history
  <2> QED
    BY <1>1, <1>2, <1>4, <2>3, QuietStep
<1> QED
  BY <1>0, <1>5, <1>6, <1>7, Arrived

LEMMA AbortIInv ==
  ASSUME IInv, TypeInv', NEW r \in Request, Abort(r) PROVE Effects /\ IInv'
<1>0. req \in [Request -> Slot]
  BY DEF IInv, TypeInv, TypeOK
<1>1. UNCHANGED <<service_tokens, svc_token, history>> /\ Respond(r)
  BY DEF Abort
<1>2. req'[r] = Idle /\ \A s \in Request \ {r} : req'[s] = req[s]
  BY <1>0, <1>1, Answered
<1>3. SlotOK(r)' /\ ~At(r, "upsert")' /\ \A h \in Hash : Held(h)' => Held(h)
  BY <1>2, IdleOK, NothingHeld
<1>4. \A h \in Hash : Cached(h)' => Cached(h) \/ Held(h)
  BY <1>1 DEF Cached
<1> QED
  BY <1>1, <1>2, <1>3, <1>4, QuietStep

LEMMA SeedIInv ==
  ASSUME IInv, TypeInv', NEW h \in AdminHash, Seed(h) PROVE Effects /\ IInv'
<1>0. service_tokens \in [Project -> Row] /\ Aspectus \in Project /\ h \in Hash
  BY ProjectAssumption, AdminAssumption DEF IInv, TypeInv, TypeOK
<1> DEFINE row == [service_tokens[Aspectus] EXCEPT !.hash = h]
<1>1. row \in Row /\ row = [hash |-> h, revoked |-> FALSE]
  <2>1. service_tokens[Aspectus] \in Row
    BY <1>0
  <2>2. row = [hash |-> h, revoked |-> service_tokens[Aspectus].revoked]
    BY <2>1 DEF Row
  <2>3. service_tokens[Aspectus].revoked = FALSE
    BY <2>1 DEF IInv, AdminStands, Row
  <2>4. row = [hash |-> h, revoked |-> FALSE]
    BY <2>2, <2>3
  <2> HIDE DEF row
  <2> QED
    BY <1>0, <2>4 DEF Row
<1>2. service_tokens' = [service_tokens EXCEPT ![Aspectus] = row]
  BY <1>0 DEF Seed
<1> HIDE DEF row
<1>3. /\ service_tokens' \in [Project -> Row]
      /\ service_tokens'[Aspectus] = [hash |-> h, revoked |-> FALSE]
      /\ \A q \in Project \ {Aspectus} : service_tokens'[q] = service_tokens[q]
  BY <1>0, <1>1, <1>2
<1>4. /\ owner' = [owner EXCEPT ![h] = Aspectus]
      /\ UNCHANGED <<svc_token, req, withdrawn, straddled>>
  BY DEF Seed
<1>5. /\ owner[h] \in {NULL, Aspectus}
      /\ \A s \in Request : At(s, "upsert") => req[s].hash # h
  BY <1>0 DEF IInv, AdminOwned, SlotOK, At
<1>6. \A g \in Hash : Held(g)' => Held(g)
  BY <1>4 DEF Held, At
<1>7. \A s \in Request : At(s, "upsert")' => req'[s] = req[s] /\ req[s].hash # h
  BY <1>4, <1>5 DEF At
<1> QED
  BY <1>0, <1>3, <1>4, <1>5, <1>6, <1>7, IssueStep

\* The clock, and steps outside the system.
LEMMA TimeIInv ==
  ASSUME IInv, TypeInv', Tick \/ UNCHANGED vars PROVE Effects /\ IInv'
<1>1. UNCHANGED <<service_tokens, req, history>>
  BY DEF Tick, vars, history
<1>2. \A h \in Hash : Cached(h)' => Cached(h)
  <2>1. svc_token \in [Hash -> 0..TTL]
    BY DEF IInv, TypeInv, TypeOK
  <2> QED
    BY <2>1, BoundAssumption DEF Tick, vars, Cached
<1>3. \A h \in Hash : Held(h)' => Held(h)
  BY <1>1 DEF Held, At
<1>4. Effects
  BY <1>1, <1>2, <1>3, QuietEffects DEF history
<1>5. HeldRecorded' /\ WithdrawnGone'
  BY <1>1, <1>4, TokensKept DEF WithdrawnGone, history
<1>6. \A s \in Request : SlotOK(s)'
  BY <1>1, <1>4, SlotKept DEF history
<1>7. HashesApart' /\ RowsOwned' /\ AdminOwned' /\ AdminStands'
  BY <1>1 DEF IInv, HashesApart, At, RowsOwned, AdminOwned, AdminStands, history
<1> QED
  BY <1>4, <1>5, <1>6, <1>7 DEF IInv

\* Every step has these effects and preserves the invariant.
LEMMA NextIInv == IInv /\ [Next]_vars => Effects /\ IInv'
<1> SUFFICES ASSUME IInv, [Next]_vars PROVE Effects /\ IInv'
  OBVIOUS
<1>1. TypeInv'
  BY NextTypeInv DEF IInv
<1>2. ASSUME NEW r \in Request, Handler(r) PROVE Effects /\ IInv'
  BY <1>1, <1>2, FindByHashIInv, SetCacheIInv, UpsertIInv, RevokeRowIInv, InvalidateIInv
  DEF Handler
<1>3. ASSUME NEW r \in Request, Arrival(r) PROVE Effects /\ IInv'
  BY <1>1, <1>3, ArrivalIInv
<1>4. ASSUME NEW r \in Request, Abort(r) PROVE Effects /\ IInv'
  BY <1>1, <1>4, AbortIInv
<1>5. ASSUME NEW h \in AdminHash, Seed(h) PROVE Effects /\ IInv'
  BY <1>1, <1>5, SeedIInv
<1>6. CASE Tick \/ UNCHANGED vars
  BY <1>1, <1>6, TimeIInv
<1> QED
  BY <1>2, <1>3, <1>4, <1>5, <1>6 DEF Next

\* A rotation or revocation that deleted the key of the token it withdrew
\* leaves that token unusable, unless a verifier held it when the row
\* changed.
THEOREM WithdrawnMeansRefusedHolds == Spec => []WithdrawnMeansRefused
<1>1. IInv => WithdrawnMeansRefused
  <2> SUFFICES ASSUME IInv, NEW h \in withdrawn \ straddled
               PROVE  ~Named(h) /\ ~Cached(h) /\ ~Held(h)
    BY DEF WithdrawnMeansRefused
  <2>1. h \in Hash \ AdminHash /\ owner[h] # NULL /\ ~Named(h) /\ ~Cached(h)
    BY DEF IInv, TypeInv, TypeOK, WithdrawnGone, AdminOwned
  <2>2. ~Held(h)
    BY <2>1 DEF IInv, HeldRecorded
  <2> QED
    BY <2>1, <2>2
<1> QED
  BY <1>1, InitIInv, NextIInv, PTL DEF Spec

-----------------------------------------------------------------------------
(* ServiceTokens implements RevocableCredential.                           *)

\* One step moves a generated token along, never back, and an admin token
\* back only by putting it into its row.
LEMMA StatusStep ==
  ASSUME IInv, Effects, NEW h \in Hash
  PROVE  TokenStatus(h)' \in Promise!After(h, TokenStatus(h))
<1>1. CASE owner[h] = NULL
  <2>1. TokenStatus(h)' \in {"unissued", "active"}
    BY <1>1 DEF Effects, TokenStatus
  <2> QED
    BY <1>1, <2>1 DEF TokenStatus, Promise!After, Promise!PutBack
<1>2. CASE owner[h] # NULL /\ Named(h)
  <2>1. TokenStatus(h)' \in {"active", "fading", "dead"}
    BY <1>2 DEF Effects, TokenStatus
  <2> QED
    BY <1>2, <2>1 DEF TokenStatus, Promise!After, Promise!PutBack
<1>3. CASE owner[h] # NULL /\ ~Named(h) /\ (Cached(h) \/ Held(h))
  <2>1. TokenStatus(h)' \in {"fading", "dead"} \/ (TokenStatus(h)' = "active" /\ h \in AdminHash)
    BY <1>3 DEF Effects, TokenStatus
  <2> QED
    BY <1>3, <2>1 DEF TokenStatus, Promise!After, Promise!PutBack
<1>4. CASE owner[h] # NULL /\ ~Named(h) /\ ~Cached(h) /\ ~Held(h)
  <2>1. TokenStatus(h)' = "dead" \/ (TokenStatus(h)' = "active" /\ h \in AdminHash)
    BY <1>4 DEF Effects, TokenStatus
  <2> QED
    BY <1>4, <2>1 DEF TokenStatus, Promise!After, Promise!PutBack
<1> QED
  BY <1>1, <1>2, <1>3, <1>4

\* Once neither the table, the cache nor a verifier in flight knows a token
\* that was replaced or revoked, it is refused for ever if it was generated
\* by create or rotate, and if it is an admin token until a replica that is
\* configured with it starts (main.rs:58-61): every step of the endpoints, of
\* the verifier and of a start is a step of RevocableCredential.
THEOREM OnceRefusedHolds == Spec => OnceRefusedAlwaysRefused
<1>1. Init => Promise!Init
  BY DEF Init, Promise!Init, TokenStatus
<1>2. IInv /\ [Next]_vars => [Promise!Next]_[h \in Hash |-> TokenStatus(h)]
  <2> SUFFICES ASSUME IInv, [Next]_vars PROVE Promise!Next
    OBVIOUS
  <2>1. Effects
    BY NextIInv
  <2> QED
    BY <2>1, StatusStep DEF Promise!Next
<1> QED
  BY <1>1, <1>2, InitIInv, NextIInv, PTL DEF Spec, OnceRefusedAlwaysRefused, Promise!Safety

-----------------------------------------------------------------------------
(* How long a token fades.                                                 *)

\* A handler that leaves another statement, or goes on to one, holds nothing
\* it did not hold.
LEMMA NothingTaken ==
  ASSUME NEW r \in Request, \A s \in Request \ {r} : req'[s] = req[s], req'[r].pc # "set",
         NEW h
  PROVE  Holders(h)' \subseteq Holders(h)
  BY DEF Holders, At

\* Of a token the table does not name: no verifier takes hold of it, and its
\* key lives longer only if a verifier lets go of it.
LEMMA UnnamedStep ==
  ASSUME TypeInv, [Next]_vars, NEW h \in Hash, ~Named(h)
  PROVE  /\ Holders(h)' \subseteq Holders(h)
         /\ Holders(h)' = Holders(h) => svc_token'[h] <= svc_token[h]
<1>0. /\ req \in [Request -> Slot] /\ svc_token \in [Hash -> 0..TTL]
      /\ svc_token[h] \in Nat
  BY BoundAssumption DEF TypeInv, TypeOK
<1>1. ASSUME NEW r \in Request, FindByHash(r) PROVE Holders(h)' \subseteq Holders(h)
  <2>1. CASE Named(req[r].hash)
    <3>1. Goto(r, "set")
      BY <1>1, <2>1 DEF FindByHash
    <3>2. req'[r].hash # h /\ \A s \in Request \ {r} : req'[s] = req[s]
      BY <1>0, <2>1, <3>1, Gone
    <3> QED
      BY <3>2 DEF Holders, At
  <2>2. CASE ~Named(req[r].hash)
    <3>1. Respond(r)
      BY <1>1, <2>2 DEF FindByHash
    <3> QED
      BY <1>0, <3>1, Answered, NothingTaken
  <2> QED
    BY <2>1, <2>2
<1>2. ASSUME NEW r \in Request, SetCache(r)
      PROVE  /\ Holders(h)' \subseteq Holders(h)
             /\ Holders(h)' = Holders(h) => svc_token'[h] = svc_token[h]
  <2>1. Respond(r) /\ At(r, "set")
    BY <1>2 DEF SetCache
  <2>2. Holders(h)' \subseteq Holders(h)
    BY <1>0, <2>1, Answered, NothingTaken
  <2>3. CASE req[r].hash = h
    <3>1. r \in Holders(h) /\ r \notin Holders(h)'
      BY <1>0, <2>1, <2>3, Answered DEF Holders, At
    <3> QED
      BY <2>2, <3>1
  <2>4. CASE req[r].hash # h
    <3>1. svc_token'[h] = svc_token[h]
      BY <1>0, <1>2, <2>4 DEF SetCache
    <3> QED
      BY <2>2, <3>1
  <2> QED
    BY <2>3, <2>4
<1>3. ASSUME NEW r \in Request, Upsert(r) \/ RevokeRow(r) \/ Abort(r)
      PROVE  Holders(h)' \subseteq Holders(h) /\ svc_token' = svc_token
  <2>1. Respond(r) \/ Goto(r, "invalidate")
    BY <1>3 DEF Upsert, RevokeRow, Abort
  <2>2. Holders(h)' \subseteq Holders(h)
    BY <1>0, <2>1, Gone, Answered, NothingTaken
  <2> QED
    BY <1>3, <2>2 DEF Upsert, RevokeRow, Abort
<1>4. ASSUME NEW r \in Request, Invalidate(r)
      PROVE  Holders(h)' \subseteq Holders(h) /\ svc_token'[h] <= svc_token[h]
  <2>1. Holders(h)' \subseteq Holders(h)
    <3>1. Respond(r)
      BY <1>4 DEF Invalidate
    <3> QED
      BY <1>0, <3>1, Answered, NothingTaken
  <2>2. svc_token'[h] \in {0, svc_token[h]}
    BY <1>0, <1>4 DEF Invalidate
  <2> QED
    BY <1>0, <2>1, <2>2
<1>5. ASSUME NEW r \in Request, Arrival(r)
      PROVE  Holders(h)' \subseteq Holders(h) /\ svc_token' = svc_token
  <2>1. /\ UNCHANGED svc_token /\ req'[r].pc # "set"
        /\ \A s \in Request \ {r} : req'[s] = req[s]
    BY <1>0, <1>5, Arrived DEF TypeInv
  <2> QED
    BY <2>1, NothingTaken
<1>6. ASSUME NEW g \in AdminHash, Seed(g)
      PROVE  Holders(h)' \subseteq Holders(h) /\ svc_token' = svc_token
  BY <1>6 DEF Seed, Holders, At
<1>7. ASSUME Tick
      PROVE  Holders(h)' \subseteq Holders(h) /\ svc_token'[h] <= svc_token[h]
  <2>1. svc_token'[h] = IF svc_token[h] > 0 THEN svc_token[h] - 1 ELSE 0
    BY <1>7 DEF Tick, Cached
  <2>2. Holders(h)' = Holders(h)
    BY <1>7 DEF Tick, Holders, At
  <2> QED
    BY <1>0, <2>1, <2>2
<1>8. ASSUME UNCHANGED vars
      PROVE  Holders(h)' \subseteq Holders(h) /\ svc_token' = svc_token
  BY <1>8 DEF vars, Holders, At
<1>9. svc_token[h] <= svc_token[h]
  BY <1>0
<1> QED
  BY <1>1, <1>2, <1>3, <1>4, <1>5, <1>6, <1>7, <1>8, <1>9 DEF Next, Handler, FindByHash

\* A token fades for no longer than its verifiers in flight and the 60
\* seconds they write: a hit renews nothing, and no verifier finds a row that
\* was replaced or revoked (lib.rs:282-284, 296-298).
THEOREM FadingIsBoundedHolds == Spec => FadingIsBounded
<1>1. TypeInv /\ [Next]_vars =>
        [\A h \in Hash : TokenStatus(h) = "fading" =>
           /\ Holders(h)' \subseteq Holders(h)
           /\ Holders(h)' = Holders(h) => svc_token'[h] <= svc_token[h]]_vars
  <2>1. \A h \in Hash : TokenStatus(h) = "fading" => ~Named(h)
    BY DEF TokenStatus
  <2> QED
    BY <2>1, UnnamedStep
<1> QED
  BY <1>1, InitTypeInv, NextTypeInv, PTL DEF Spec, FadingIsBounded
=============================================================================
