----------------------------- MODULE Operator ------------------------------
(***************************************************************************)
(* What an operator runs, for TLC: the deployment tool of the page, the    *)
(* scripts that copy the keys into a build, the unattended demo and the    *)
(* latency measurement.  They share no variable: a behaviour exercises one *)
(* of them and leaves the others as they start.                            *)
(***************************************************************************)
EXTENDS DeployTool, Sequences

CONSTANTS
  Circuit, Served, MaxCompiles, MaxRuns,  \* ZkArtifacts
  Wanted,                                 \* the answers the demo expects
  MaxFaults                               \* of the demo and of the measurement

VARIABLES
  tool,  \* the one that runs
  managed, compiles, runs, mode, script, left, public, dist, warned, planned, raced,
  demo, demoNetwork, check, contracts, outcomes, demoReport, demoExit, demoFaults,
  measuring, network, wallet, deployed, timed, report, exit, faults

Artifacts == INSTANCE ZkArtifacts WITH Target <- Served, pc <- script
Demo == INSTANCE DemoRun WITH
  Expected <- Wanted, pc <- demo, network <- demoNetwork,
  report <- demoReport, exit <- demoExit, faults <- demoFaults
Latency == INSTANCE LatencyRun WITH pc <- measuring

\* What the three modules ask of their constants.
ASSUME ToolsAssumption ==
  Artifacts!ArtifactAssumption /\ Demo!DemoAssumption /\ Latency!LatencyAssumption

artifactVars == <<managed, compiles, runs, mode, script, left, public, dist, warned, planned, raced>>
demoVars == <<demo, demoNetwork, check, contracts, outcomes, demoReport, demoExit, demoFaults>>
latencyVars == <<measuring, network, wallet, deployed, timed, report, exit, faults>>
operatorVars == <<tool, vars, artifactVars, demoVars, latencyVars>>

Tools == {"deploy", "artifacts", "demo", "latency"}

\* A build that lacks nothing, or one thing.
MCLacking == {{}, {"lace"}, {"fetch"}, {"sdk"}, {"page"}, {"circuit"}}

\* The demo's two checks, one that clears and one that does not, and a third.
MCWanted == <<TRUE, FALSE, TRUE>>

\* The operator's page starts out in order.
InOrder == [wallet |-> "ready", network |-> Expected, server |-> "ready",
            indexer |-> "ready", site |-> "ready"]

OperatorInit ==
  /\ tool \in Tools
  /\ Init /\ world = InOrder /\ (tool # "deploy" => lacks = {})
  /\ Artifacts!Init /\ Demo!Init /\ Latency!Init

Deploys == tool = "deploy" /\ Next /\ UNCHANGED <<tool, artifactVars, demoVars, latencyVars>>
Copies == tool = "artifacts" /\ Artifacts!Next /\ UNCHANGED <<tool, vars, demoVars, latencyVars>>
RunsDemo == tool = "demo" /\ Demo!Next /\ UNCHANGED <<tool, vars, artifactVars, latencyVars>>
Measures == tool = "latency" /\ Latency!Next /\ UNCHANGED <<tool, vars, artifactVars, demoVars>>

OperatorNext == Deploys \/ Copies \/ RunsDemo \/ Measures
OperatorSafety == OperatorInit /\ [][OperatorNext]_operatorVars

----------------------------------------------------------------------------
\* A bundle ships exactly what was compiled.  (copy-zk-artifacts.mjs.)
ShipsWhatWasCompiled == Artifacts!ShipsWhatWasCompiled

\* Wherever it fails, a script ends as it should: exit code 0 says that every
\* check of the demo was answered as expected (run.ts), or that a call was timed
\* (latency.ts), no network is left that its own wallet did not hold up, and
\* what is served without a whole set of keys was warned of (copyZkArtifacts.mjs).
ScriptsEndWell ==
  /\ Artifacts!ServesWholeOrWarned
  /\ Demo!GreenIsEarned /\ Demo!NothingLeftBehind
  /\ Latency!GreenIsMeasured /\ Latency!NetworkIsReleased
============================================================================
