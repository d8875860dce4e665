------------------------ MODULE RevocableCredential -------------------------
(***************************************************************************)
(* What a verifier with a cache in front of its table promises about the   *)
(* credentials it accepts, with no cache, table or request in sight.       *)
(*                                                                         *)
(* A credential is accepted while it is active.  Once it is withdrawn it   *)
(* may go on being accepted for a while ("fading"), but only for a while,  *)
(* and once refused it is refused for ever, unless it is one of those that *)
(* operators configure: they may put one back, active, by configuring it   *)
(* again.  One may be issued dead, with an expiry in the past.             *)
(*                                                                         *)
(* ServiceTokens and ApiKeys implement this specification.                 *)
(***************************************************************************)
CONSTANTS
  Credential,
  Configured    \* those operators configure; the others are generated

VARIABLE status

Status == {"unissued", "active", "fading", "dead"}

Init == status = [c \in Credential |-> "unissued"]

PutBack(c) == IF c \in Configured THEN {"active"} ELSE {}

(* Where one step may take a credential.  Nothing leads a generated one    *)
(* back, and a refused one is never accepted without being active.         *)
After(c, s) ==
  CASE s = "unissued" -> {"unissued", "active", "dead"}
    [] s = "active"   -> {"active", "fading", "dead"}
    [] s = "fading"   -> {"fading", "dead"} \cup PutBack(c)
    [] s = "dead"     -> {"dead"} \cup PutBack(c)

(* One step may withdraw a credential and issue another.                   *)
Next ==
  /\ DOMAIN status' = Credential
  /\ \A c \in Credential : status'[c] \in After(c, status[c])

Safety == Init /\ [][Next]_status

(* No credential fades for ever.  By Safety one that has ceased to fade is *)
(* dead, for good if it was generated, or has been put back.               *)
Fades == \A c \in Credential : []<>(status[c] # "fading")
=============================================================================
