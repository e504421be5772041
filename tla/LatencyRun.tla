----------------------------- MODULE LatencyRun -----------------------------
(***************************************************************************)
(* The second way to the latency number (tools/harness/latency.ts, run by  *)
(* tools/measure-proof-latency.sh): one network, one wallet, one deploy,   *)
(* one timed call, one look at the ledger, and a clean-up that stops the   *)
(* wallet before the network, both under one try.                          *)
(***************************************************************************)
EXTENDS Naturals

CONSTANT MaxFaults   \* bound: how much goes wrong

LatencyAssumption == MaxFaults \in Nat

VARIABLES
  pc,        \* the await run() is at
  network,   \* the local network
  wallet,    \* walletProvider
  deployed,  \* contracts deployed
  timed,     \* circuit calls answered between the two marks
  report,    \* what run() is about to return
  exit, faults

vars == <<pc, network, wallet, deployed, timed, report, exit, faults>>

Fault == faults < MaxFaults /\ faults' = faults + 1

Init ==
  /\ pc = "start" /\ network = "none" /\ wallet = "undefined"
  /\ deployed = 0 /\ timed = 0
  /\ report = "none" /\ exit = "none" /\ faults = 0

\* Mutation: a return inside the try that skips the finally.
ReturnsPast(why) == report' = why /\ pc' = "reporting"

\* `finally` comes between a return and the caller.
Returns(why) == report' = why /\ pc' = "stopping"

----------------------------------------------------------------------------
NetworkStarts ==
  /\ pc = "start" /\ network' = "up" /\ pc' = "build"
  /\ UNCHANGED <<wallet, deployed, timed, report, exit, faults>>

WalletBuilt ==
  /\ pc = "build" /\ network = "up" /\ wallet' = "built" /\ pc' = "fund"
  /\ UNCHANGED <<network, deployed, timed, report, exit, faults>>

\* The wallet starts and finds its genesis funds.
WalletFunded ==
  /\ pc = "fund" /\ network = "up" /\ wallet' = "started" /\ pc' = "deploy"
  /\ UNCHANGED <<network, deployed, timed, report, exit, faults>>

\* What is blamed is told by whether there is a wallet yet.
Blamed == IF wallet = "undefined" THEN "environment_unavailable" ELSE "wallet_unavailable"

\* A start that throws may leave some of the network up.
SetupFails ==
  /\ pc \in {"start", "build", "fund"}
  /\ Fault \/ (pc # "start" /\ network # "up" /\ UNCHANGED faults)
  /\ network' \in IF pc = "start" THEN {"none", "up"} ELSE {network}
  /\ Returns(Blamed)
  /\ UNCHANGED <<wallet, deployed, timed, exit>>

Deployed ==
  /\ pc = "deploy" /\ network = "up" /\ pc' = "call"
  /\ deployed' = deployed + 1
  /\ UNCHANGED <<network, wallet, timed, report, exit, faults>>

Called ==
  /\ pc = "call" /\ network = "up" /\ pc' = "read"
  /\ timed' = timed + 1
  /\ UNCHANGED <<network, wallet, deployed, report, exit, faults>>

\* A deploy, the call or the query throws, or finds nothing at the address.
StepFails ==
  /\ pc \in {"deploy", "call", "read"}
  /\ Fault \/ (network # "up" /\ UNCHANGED faults)
  /\ Returns("degraded")
  /\ UNCHANGED <<network, wallet, deployed, timed, exit>>

LedgerRead ==
  /\ pc = "read" /\ network = "up"
  /\ Returns("ok")
  /\ UNCHANGED <<network, wallet, deployed, timed, exit, faults>>

----------------------------------------------------------------------------
\* The wallet first, if there is one; if that throws, nothing stops the network.
StopsWallet ==
  /\ pc = "stopping"
  /\ \/ wallet = "undefined" /\ pc' = "shutting" /\ UNCHANGED <<wallet, faults>>
     \/ wallet # "undefined" /\ wallet' = "stopped" /\ pc' = "shutting" /\ UNCHANGED faults
     \/ wallet # "undefined" /\ Fault /\ pc' = "reporting" /\ wallet' = "stop threw"
  /\ UNCHANGED <<network, deployed, timed, report, exit>>

ShutsDown ==
  /\ pc = "shutting" /\ pc' = "reporting"
  /\ \/ network' = "stopped" /\ UNCHANGED faults
     \/ network' = "leaked" /\ Fault
  /\ UNCHANGED <<wallet, deployed, timed, report, exit>>

\* Mutation: every report that is printed ends the run well.
GreenIfPrinted(r) == "green"

ExitOf(r) == IF r = "ok" THEN "green" ELSE "red"

Exits ==
  /\ pc = "reporting" /\ exit' = ExitOf(report) /\ pc' = "gone"
  /\ UNCHANGED <<network, wallet, deployed, timed, report, faults>>

NetworkDies ==
  /\ network = "up" /\ Fault /\ network' = "dead"
  /\ UNCHANGED <<pc, wallet, deployed, timed, report, exit>>

Next ==
  \/ NetworkStarts \/ WalletBuilt \/ WalletFunded \/ SetupFails
  \/ Deployed \/ Called \/ StepFails \/ LedgerRead
  \/ StopsWallet \/ ShutsDown \/ Exits \/ NetworkDies

Spec == Init /\ [][Next]_vars

----------------------------------------------------------------------------
TypeOK ==
  /\ pc \in {"start", "build", "fund", "deploy", "call", "read", "stopping", "shutting",
            "reporting", "gone"}
  /\ network \in {"none", "up", "dead", "stopped", "leaked"}
  /\ wallet \in {"undefined", "built", "started", "stopped", "stop threw"}
  /\ deployed \in 0..1 /\ timed \in 0..1
  /\ report \in {"none", "ok", "degraded", "environment_unavailable", "wallet_unavailable"}
  /\ exit \in {"none", "green", "red"} /\ faults \in 0..MaxFaults

\* A number is printed, and the run is green, for one call on one contract of
\* its own, whose ledger could be read after it: never for a degraded run.
GreenIsMeasured ==
  exit = "green" => deployed = 1 /\ timed = 1 /\ report = "ok"

\* A run that is over, however it failed, has its network down, or tried to
\* bring it down; the one exception is a wallet that would not stop.
NetworkIsReleased ==
  exit # "none" /\ network = "up" => wallet = "stop threw"

\* "Exits non-zero on any failure" (tools/measure-proof-latency.sh).
AnyFailureIsRed ==
  exit = "green" => wallet # "stop threw" /\ network # "leaked"
=============================================================================
