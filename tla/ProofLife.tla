------------------------------ MODULE ProofLife ------------------------------
(***************************************************************************)
(* The life of one proof as its screen shows it (domain/proofState.ts):    *)
(* only a call moves it, only an answer carries a value, and a proof that  *)
(* was started settles.                                                    *)
(***************************************************************************)
CONSTANT Value  \* the answers that mean the predicate holds

VARIABLES phase, value

NoValue == "undefined"

Init == phase = "idle" /\ value = NoValue

\* A first attempt, or another one after a "no" or after nobody answered.
Start ==
  /\ phase \in {"idle", "failed", "degraded"}
  /\ phase' = "generating"
  /\ value' = NoValue

Settle ==
  /\ phase = "generating"
  /\ \/ phase' = "ready" /\ value' \in Value
     \/ phase' \in {"failed", "degraded"} /\ value' = NoValue

\* The journey is over, and she starts another.
StartOver ==
  /\ phase = "ready"
  /\ phase' = "idle"
  /\ value' = NoValue

Next == Start \/ Settle \/ StartOver

Safety == Init /\ [][Next]_<<phase, value>>

Spec == Safety /\ WF_<<phase, value>>(Settle)
=============================================================================
