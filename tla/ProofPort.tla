----------------------------- MODULE ProofPort -----------------------------
(***************************************************************************)
(* What a proof port promises its callers (api/src/proofPort.ts and        *)
(* ApiResult in api/src/types.ts), whatever stands behind it: a call gets  *)
(* one answer, either the outcome of its proof or a typed degraded result, *)
(* never an exception and never silence while the process lives.  An       *)
(* identity check is decided only under a key that the port published.     *)
(***************************************************************************)
CONSTANTS
  Call,        \* calls on the port
  IssuerCall,  \* those that ask for the issuer key
  CheckCall    \* those that ask for an identity check

VARIABLES
  outcome,     \* how far each call is, and how it was answered
  ended        \* the process behind the port is gone

vars == <<outcome, ended>>

Outcome == {"unasked", "asked", "decided", "degraded"}

TypeOK == outcome \in [Call -> Outcome] /\ ended \in BOOLEAN

Init ==
  /\ outcome = [c \in Call |-> "unasked"]
  /\ ended = FALSE

Ask(c) ==
  /\ outcome[c] = "unasked"
  /\ outcome' = [outcome EXCEPT ![c] = "asked"]
  /\ UNCHANGED ended

KeyPublished == \E i \in IssuerCall : outcome[i] = "decided"

Decide(c) ==
  /\ outcome[c] = "asked"
  /\ c \in CheckCall => KeyPublished
  /\ outcome' = [outcome EXCEPT ![c] = "decided"]
  /\ UNCHANGED ended

Degrade(c) ==
  /\ outcome[c] = "asked"
  /\ outcome' = [outcome EXCEPT ![c] = "degraded"]
  /\ UNCHANGED ended

End ==
  /\ ended' = TRUE
  /\ UNCHANGED outcome

Answer(c) == Decide(c) \/ Degrade(c)

Next == ~ended /\ (End \/ \E c \in Call : Ask(c) \/ Answer(c))

Safety == Init /\ [][Next]_vars

Spec == Safety /\ \A c \in Call : WF_vars(~ended /\ Answer(c))
=============================================================================
