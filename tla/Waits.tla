------------------------------- MODULE Waits -------------------------------
(***************************************************************************)
(* Every wait of the program that its own timers bound, for TLC: the       *)
(* browser-direct ports, the deployment tool, the service worker's cache,  *)
(* the bridge, Creva's issuer and the advisor.  A behaviour exercises one  *)
(* of them, under the fairness that module states, and leaves the others   *)
(* unasked.                                                                *)
(***************************************************************************)
EXTENDS LacePort

CONSTANTS b1, i1, i2, d1, r1, r2, a1, gold, None

VARIABLES
  part,  \* the one that is waited for
  absent, around, turns, attempt, why,
  phase, target, current, targetOf, address, key, work, reloads,
  base, site, version, outages, worker, status, cache, request, kind, response, put, lost,
  canFetch, process, health, deployment, network, restarts,
  trip, wire, held, issuerKey, body, decided, by, expired,
  api, signing, entropy, swings, claim, probed, origin, signer,
  loopback, model, swaps, tier, advising, advice, met

Tool == INSTANCE DeployTool WITH
  Call <- {d1}, Lacking <- {{}},
  lacks <- absent, world <- around, changes <- turns, pc <- attempt, reason <- why
Worker == INSTANCE ServiceWorker WITH
  Request <- {r1, r2}, Bases <- {"root"}, MaxVersion <- 2, MaxChanges <- 0,
  changes <- outages
Bridge == INSTANCE BridgeSession WITH
  BackingCall <- {b1}, IdentityCall <- {i1, i2}, Holds <- {i1}, Hosts <- {TRUE},
  MaxChanges <- 1,
  changes <- restarts, pc <- trip, key <- issuerKey, answer <- decided
Issuer == INSTANCE CrevaIssuer WITH
  BackingIssue <- {b1}, IdentityIssue <- {i1}, MaxChanges <- 1,
  changes <- swings, pc <- claim, seen <- probed
Advice == INSTANCE Advisor WITH
  Request <- {a1}, Tier <- {gold}, MaxChanges <- 2,
  changes <- swaps, pc <- advising, answer <- advice, seen <- met

ASSUME WaitsAssumption ==
  Worker!WorkerAssumption /\ Issuer!IssuerAssumption /\ Advice!AdvisorAssumption

toolVars == <<absent, around, turns, attempt, why,
              phase, target, current, targetOf, address, key, work, reloads>>
workerVars == <<base, site, version, outages, worker, status, cache,
                request, kind, response, put, lost>>
bridgeVars == <<canFetch, process, health, deployment, network, restarts,
                trip, wire, held, issuerKey, body, decided, by, expired>>
issuerVars == <<api, signing, entropy, swings, claim, probed, origin, signer>>
adviceVars == <<loopback, model, swaps, tier, advising, advice, met>>
waitsVars == <<part, vars, toolVars, workerVars, bridgeVars, issuerVars, adviceVars>>

MCLacking == {{}, {"deployment"}}
InOrder == [wallet |-> "ready", network |-> Expected, server |-> "ready",
            indexer |-> "ready", site |-> "ready"]

WaitsInit ==
  /\ part \in {"lace", "tool", "worker", "bridge", "issuer", "advisor"}
  /\ Init /\ world = InOrder /\ (part # "lace" => lacks = {})
  /\ Tool!Init /\ around = InOrder
  /\ Worker!Init
  /\ Bridge!Init
  /\ Issuer!Init /\ (part # "issuer" => api = "ok" /\ signing = "up" /\ entropy)
  /\ Advice!Init /\ (part # "advisor" => loopback /\ model = gold /\ tier[a1] = gold)

Calls ==
  /\ part = "lace" /\ Next
  /\ UNCHANGED <<part, toolVars, workerVars, bridgeVars, issuerVars, adviceVars>>
Deploys ==
  /\ part = "tool" /\ Tool!Next
  /\ UNCHANGED <<part, vars, workerVars, bridgeVars, issuerVars, adviceVars>>
\* What bypasses the cache is left to the run Browser.
Caches ==
  /\ part = "worker" /\ Worker!Next
  /\ \A r \in {r1, r2} : kind'[r] \notin {"zk", "bundle"}
  /\ UNCHANGED <<part, vars, toolVars, bridgeVars, issuerVars, adviceVars>>
\* The identity checks come one after the other, the backing check at any time;
\* the run Services has them all overlap.
Bridges ==
  /\ part = "bridge" /\ Bridge!Next
  /\ trip'[i1] # "idle" => trip[i2] \in {"ok", "degraded"}
  /\ UNCHANGED <<part, vars, toolVars, workerVars, issuerVars, adviceVars>>
Issues ==
  /\ part = "issuer" /\ Issuer!Next
  /\ UNCHANGED <<part, vars, toolVars, workerVars, bridgeVars, adviceVars>>
Advises ==
  /\ part = "advisor" /\ Advice!Next
  /\ UNCHANGED <<part, vars, toolVars, workerVars, bridgeVars, issuerVars>>

WaitsNext == Calls \/ Deploys \/ Caches \/ Bridges \/ Issues \/ Advises

\* The part that moves is scheduled as its module says; the others are not.
WaitsFairness ==
  \/ []<>(part = "lace") /\ Fairness
  \/ []<>(part = "tool") /\ Tool!Fairness
  \/ []<>(part = "worker") /\ Worker!Fairness
  \/ []<>(part = "bridge") /\ Bridge!Fairness
  \/ []<>(part = "issuer") /\ Issuer!Fairness
  \/ []<>(part = "advisor") /\ Advice!Fairness

WaitsSpec == WaitsInit /\ [][WaitsNext]_waitsVars /\ WaitsFairness

----------------------------------------------------------------------------
\* Every call ends: of the ports, short of their proof; of the deployment tool,
\* though no network need confirm what it submitted (laceDeploy.ts); of the
\* bridge, one whose answer stops half-way too (bridgeProofPort.ts); of the
\* issuer, unless its signing service is silent (crevaCollateralSigner.ts); and
\* of the advisor (localModelPredictor.ts).
EveryCallEnds ==
  /\ EveryWaitEnds
  /\ Tool!EveryRunSettles
  /\ Bridge!EveryCallEnds
  /\ Issuer!EveryIssueEnds
  /\ Advice!EveryAdviceEnds

\* A navigation online brings the offline shell to the deployment it saw, unless
\* its write, which nobody awaits, is lost.  (sw.js, networkFirstNavigation.)
RefreshReachesCache == Worker!RefreshReachesCache

\* A check asked of a server at rest is decided unless one of its own trips runs
\* out of time.  A memoised deployment whose network has gone is not at rest.
\* (bridgeProofPort.ts, the key brought by a call's own first trip.)
RetryIsDecided == Bridge!RetryIsDecided
============================================================================
