------------------------------ MODULE DemoRun ------------------------------
(***************************************************************************)
(* The unattended demo (api/src/run.ts): it starts a network of its own,   *)
(* deploys the backing circuit afresh for each of its checks, calls it     *)
(* once, and must not exit green unless every call was measured and gave   *)
(* the answer that was expected, nor leave the network behind.             *)
(***************************************************************************)
EXTENDS Naturals, Sequences

CONSTANTS
  Expected,   \* the answer each check expects, in order
  MaxFaults   \* bound: how much goes wrong

DemoAssumption == Expected \in Seq(BOOLEAN) /\ MaxFaults \in Nat

VARIABLES
  pc,         \* the await run() is at
  network,    \* the local network
  check,      \* the check at hand
  contracts,  \* how many contracts were deployed
  outcomes,   \* the checks answered, each with the contract that answered
  report,     \* what run() is about to return, or its exception
  exit,       \* "green" is exit code 0, "red" 1
  faults

vars == <<pc, network, check, contracts, outcomes, report, exit, faults>>

Fault == faults < MaxFaults /\ faults' = faults + 1

Init ==
  /\ pc = "starting" /\ network = "starting"
  /\ check = 1 /\ contracts = 0 /\ outcomes = <<>>
  /\ report = "none" /\ exit = "none" /\ faults = 0

----------------------------------------------------------------------------
(* startLocalEnvironment.                                                  *)

Started ==
  /\ pc = "starting" /\ network = "starting"
  /\ network' = "up" /\ pc' = "deploying"
  /\ UNCHANGED <<check, contracts, outcomes, report, exit, faults>>

\* The network, or its wallet after it: what came up is shut down again as far
\* as that goes, and run() returns without its own finally.
StartFails ==
  /\ pc = "starting" /\ Fault
  /\ network' \in {"none", "stopped", "leaked"}
  /\ pc' = "reporting"
  /\ report' \in {"degraded", "thrown"}
  /\ UNCHANGED <<check, contracts, outcomes, exit>>

----------------------------------------------------------------------------
(* The body of run(), and its finally.                                     *)

\* Mutation: the result is returned past the finally.
LeaveUnshut(how) == report' = how /\ pc' = "reporting"

\* Leaving the try block, by a return or an exception, awaits the shutdown.
Leave(how) == report' = how /\ pc' = "shutting"

Deployed ==
  /\ pc = "deploying" /\ network = "up"
  /\ contracts' = contracts + 1 /\ pc' = "calling"
  /\ UNCHANGED <<network, check, outcomes, report, exit, faults>>

\* A deploy or a call degrades, or throws, or finds the network gone.
StepFails ==
  /\ pc \in {"deploying", "calling"}
  /\ \/ Fault
     \/ network # "up" /\ UNCHANGED faults
  /\ \E how \in {"degraded", "thrown"} : Leave(how)
  /\ UNCHANGED <<network, check, contracts, outcomes, exit>>

\* "Public ledger did not change as expected".
Unexpected(cleared) == cleared # Expected[check]

\* The circuit answers what its collateral says, unless something is wrong.
Called ==
  /\ pc = "calling" /\ network = "up"
  /\ \E cleared \in BOOLEAN :
       /\ IF cleared = Expected[check] THEN UNCHANGED faults ELSE Fault
       /\ IF Unexpected(cleared)
          THEN Leave("degraded") /\ UNCHANGED <<check, outcomes>>
          ELSE /\ outcomes' = Append(outcomes, [contract |-> contracts, cleared |-> cleared])
               /\ IF check = Len(Expected) THEN Leave("ok") /\ UNCHANGED check
                  ELSE check' = check + 1 /\ pc' = "deploying" /\ UNCHANGED report
  /\ UNCHANGED <<network, contracts, exit>>

\* The network goes away under the run.
NetworkDies ==
  /\ network = "up" /\ Fault /\ network' = "dead"
  /\ UNCHANGED <<pc, check, contracts, outcomes, report, exit>>

\* A shutdown that throws replaces whatever run() was about to return.
ShutsDown ==
  /\ pc = "shutting"
  /\ \/ network' = "stopped" /\ UNCHANGED <<report, faults>>
     \/ network' = "leaked" /\ Fault /\ report' = "thrown"
  /\ pc' = "reporting"
  /\ UNCHANGED <<check, contracts, outcomes, exit>>

\* Mutation: only a degraded report is red, and nothing catches.
ExitOfResult(r) == IF r = "degraded" THEN "red" ELSE "green"

ExitOf(r) == IF r = "ok" THEN "green" ELSE "red"

\* The catch of run() and the exit that follows it.
Exits ==
  /\ pc = "reporting"
  /\ exit' = ExitOf(report) /\ pc' = "gone"
  /\ UNCHANGED <<network, check, contracts, outcomes, report, faults>>

Next ==
  \/ Started \/ StartFails \/ Deployed \/ StepFails \/ Called \/ ShutsDown \/ Exits
  \/ NetworkDies

Safety == Init /\ [][Next]_vars

----------------------------------------------------------------------------
TypeOK ==
  /\ pc \in {"starting", "deploying", "calling", "shutting", "reporting", "gone"}
  /\ network \in {"starting", "none", "up", "dead", "stopped", "leaked"}
  /\ check \in 1..Len(Expected) /\ contracts \in 0..Len(Expected)
  /\ outcomes \in Seq([contract : 1..Len(Expected), cleared : BOOLEAN])
  /\ report \in {"none", "ok", "degraded", "thrown"}
  /\ exit \in {"none", "green", "red"} /\ faults \in 0..MaxFaults

\* Exit code 0 is earned: every check was answered as expected, each by a
\* contract of its own so that no call was measured on a warmed-up prover,
\* and the network is down.  A broken run never turns a gate green.
GreenIsEarned ==
  exit = "green" =>
    /\ network = "stopped"
    /\ Len(outcomes) = Len(Expected)
    /\ \A i \in DOMAIN outcomes : outcomes[i] = [contract |-> i, cleared |-> Expected[i]]

\* However it ends, its network is not left running, unless its own shutdown
\* could not be done.
NothingLeftBehind == exit # "none" => network \in {"none", "stopped", "leaked"}
=============================================================================
