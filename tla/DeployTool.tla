---------------------------- MODULE DeployTool ----------------------------
(***************************************************************************)
(* The operator's deployment screen (web/src/deployRun.ts, deployMount.ts, *)
(* deployScreen.ts, laceDeploy.ts over api/src/laceDeploy.ts): one         *)
(* controller for two targets, one press per deployment, five minutes for  *)
(* each.  A deployment whose wait is over goes on by itself: the wallet    *)
(* may still sign, the network may still confirm.                          *)
(***************************************************************************)
EXTENDS LaceStack

CONSTANT None   \* no attempt yet

ASSUME ToolAssumption == None \notin Call

VARIABLES
  phase,    \* the controller's state, which the screen draws
  target,   \* the contract that state is about
  current,  \* the attempt it is about; a call of the stack is one attempt
  targetOf, \* what each attempt was asked to deploy
  address,  \* whose contract the screen names
  key,      \* whose issuer key it shows beside it
  work,     \* how far the deployment itself is, awaited or not
  reloads   \* how often the page was loaded again

screenVars == <<phase, target, current, address, key>>
toolVars == <<screenVars, targetOf, work, reloads>>
vars == <<stackVars, toolVars>>

Target == {"backing", "identity"}

\* The reasons a deployment is reported to have failed for.
Reason == {"environment_unavailable", "wallet_absent", "wallet_locked", "wallet_wrong_network",
           "proof_server_unreachable", "contract_not_compiled", "deploy_failed"}

Reload == 0..1

Init ==
  /\ StackInit
  /\ phase = "idle" /\ target = "backing" /\ current = None
  /\ address = None /\ key = None
  /\ targetOf = [c \in Call |-> "none"]
  /\ work = [c \in Call |-> "none"]
  /\ reloads = 0

----------------------------------------------------------------------------
\* The buttons the screen has: none while a run is on, none once it is done.
Buttons ==
  CASE phase = "idle"     -> Target
    [] phase = "degraded" -> {target}
    [] OTHER              -> {}

\* A press runs the controller, which ignores it while a run is on; the lace
\* chunk is imported first.
Press(c, t) ==
  /\ pc[c] = "idle"
  /\ t \in Buttons
  /\ phase # "running"
  /\ phase' = "running" /\ target' = t /\ current' = c
  /\ address' = None /\ key' = None
  /\ targetOf' = [targetOf EXCEPT ![c] = t]
  /\ Goto(c, "called")
  /\ UNCHANGED <<work, reloads>>

LoadChunk(c) ==
  /\ pc[c] = "called"
  /\ IF "lace" \notin lacks /\ world.site = "ready"
     THEN SelectWallet(c)
     ELSE Degrade(c, "environment_unavailable")
  /\ UNCHANGED toolVars

Preflight(c) == StackProceeds(c) /\ UNCHANGED toolVars

\* The contract's module is imported.
Stacked(c) == pc[c] = "stacked" /\ Goto(c, "loading") /\ UNCHANGED toolVars

\* An identity deployment issues its own attestation, under a key of its own;
\* then the deployment is under way, and only the wait for it is bounded.
LoadContract(c) ==
  /\ pc[c] = "loading"
  /\ IF "circuit" \in lacks
     THEN Degrade(c, "contract_not_compiled") /\ UNCHANGED work
     ELSE /\ Goto(c, IF targetOf[c] = "identity" THEN "issuing" ELSE "deploying")
          /\ work' = IF targetOf[c] = "identity" THEN work
                     ELSE [work EXCEPT ![c] = "building"]
  /\ UNCHANGED <<screenVars, targetOf, reloads>>

Issue(c) ==
  /\ pc[c] = "issuing"
  /\ Goto(c, "deploying")
  /\ work' = [work EXCEPT ![c] = "building"]
  /\ UNCHANGED <<screenVars, targetOf, reloads>>

----------------------------------------------------------------------------
(* The deployment itself, which nobody can call back.                      *)
Ready ==
  /\ world.site = "ready" /\ world.server = "ready"
  /\ world.wallet = "ready" /\ world.network = Expected

Refused ==
  \/ world.wallet \in {"absent", "refusing"} \/ world.network # Expected
  \/ "refusing" \in {world.server, world.site}

\* Proved, signed by the operator in the wallet, paid for and submitted.
Submit(c) ==
  /\ work[c] = "building" /\ Ready
  /\ work' = [work EXCEPT ![c] = "submitted"]
  /\ UNCHANGED <<pc, reason, screenVars, targetOf, reloads>>

Land(c) ==
  /\ work[c] = "submitted"
  /\ work' = [work EXCEPT ![c] = "landed"]
  /\ UNCHANGED <<pc, reason, screenVars, targetOf, reloads>>

\* The wait is over because the deployment is: refused before anything was
\* submitted, or the indexer that is asked for its confirmation failed.
DeployFails(c) ==
  /\ \/ /\ work[c] = "building" /\ Refused
        /\ work' = [work EXCEPT ![c] = "dead"]
     \/ /\ pc[c] = "deploying" /\ work[c] \in {"submitted", "landed"} /\ world.indexer = "refusing"
        /\ UNCHANGED work
  /\ IF pc[c] = "deploying" THEN Degrade(c, "deploy_failed") ELSE UNCHANGED <<pc, reason>>
  /\ UNCHANGED <<screenVars, targetOf, reloads>>

\* The address is the one thing read off the deployment; without it the
\* deployment is not reported as done.
Confirmed(c) ==
  /\ pc[c] = "deploying" /\ work[c] = "landed" /\ world.indexer = "ready"
  /\ \E named \in BOOLEAN :
       IF named THEN Goto(c, "ok") ELSE Degrade(c, "deploy_failed")
  /\ UNCHANGED toolVars

\* Five minutes are over; the deployment goes on without its caller.
Unconfirmed(c) ==
  \/ work[c] = "submitted"
  \/ work[c] = "building" /\ "silent" \in {world.wallet, world.server}
  \/ work[c] = "landed" /\ world.indexer = "silent"

\* Mutation: the time-out is reported like a chunk that did not load.
DeployExpiresUnnamed(c) ==
  /\ pc[c] = "deploying"
  /\ Unconfirmed(c) /\ Expired("deploying", TRUE)
  /\ Degrade(c, "environment_unavailable")
  /\ UNCHANGED toolVars

DeployExpires(c) ==
  /\ pc[c] = "deploying"
  /\ Unconfirmed(c) /\ Expired("deploying", TRUE)
  /\ Degrade(c, "deploy_failed")
  /\ UNCHANGED toolVars

----------------------------------------------------------------------------
\* Mutation: the issuer key does not travel with the address.
SettleKeyless(c) ==
  /\ phase = "running" /\ current = c
  /\ pc[c] \in {"ok", "degraded"}
  /\ phase' = IF pc[c] = "ok" THEN "done" ELSE "degraded"
  /\ address' = IF pc[c] = "ok" THEN c ELSE None
  /\ UNCHANGED <<target, current, key, targetOf, work, reloads, pc, reason>>

\* The controller settles the run it waited for, and the screen is drawn.
Settle(c) ==
  /\ phase = "running" /\ current = c
  /\ pc[c] \in {"ok", "degraded"}
  /\ phase' = IF pc[c] = "ok" THEN "done" ELSE "degraded"
  /\ address' = IF pc[c] = "ok" THEN c ELSE None
  /\ key' = IF pc[c] = "ok" /\ targetOf[c] = "identity" THEN c ELSE None
  /\ UNCHANGED <<target, current, targetOf, work, reloads, pc, reason>>

\* The page is loaded again: its promises are gone, what was submitted is not.
LoadAgain ==
  /\ reloads + 1 \in Reload
  /\ reloads' = reloads + 1
  /\ phase' = "idle" /\ target' = "backing" /\ current' = None
  /\ address' = None /\ key' = None
  /\ pc' = [c \in Call |-> IF pc[c] \in {"idle", "ok", "degraded"} THEN pc[c] ELSE "gone"]
  /\ work' = [c \in Call |-> IF work[c] = "building" THEN "dead" ELSE work[c]]
  /\ UNCHANGED <<reason, targetOf>>

RunProceeds(c) ==
  \/ LoadChunk(c)
  \/ Preflight(c)
  \/ Stacked(c)
  \/ LoadContract(c)
  \/ Issue(c)
  \/ Submit(c)
  \/ DeployFails(c)
  \/ Confirmed(c)
  \/ DeployExpires(c)
  \/ Settle(c)

Next ==
  \/ /\ \/ \E c \in Call : RunProceeds(c) \/ Land(c) \/ \E t \in Target : Press(c, t)
        \/ LoadAgain
     /\ UNCHANGED <<lacks, world, changes>>
  \/ WorldChanges /\ UNCHANGED toolVars

Safety == Init /\ [][Next]_vars

\* The event loop runs what has settled and every timer that is due; a peer
\* that is not silent answers.  No network has to confirm anything.
Fairness == \A c \in Call : WF_vars(RunProceeds(c) /\ UNCHANGED <<lacks, world, changes>>)

Spec == Safety /\ Fairness

----------------------------------------------------------------------------
Awaited(c) == pc[c] \notin {"idle", "ok", "degraded", "gone"}
MayLand(c) == work[c] \in {"building", "submitted", "landed"}

TypeOK ==
  /\ lacks \in Lacking /\ world \in World /\ changes \in 0..MaxChanges
  /\ pc \in [Call -> {"idle", "called", "connect", "status", "configuration", "connected",
                      "probe", "addresses", "stacked", "loading", "issuing", "deploying",
                      "ok", "degraded", "gone"}]
  /\ reason \in [Call -> Reason \cup {"none"}]
  /\ phase \in {"idle", "running", "done", "degraded"}
  /\ target \in Target
  /\ {current, address, key} \subseteq Call \cup {None}
  /\ targetOf \in [Call -> Target \cup {"none"}]
  /\ work \in [Call -> {"none", "building", "submitted", "landed", "dead"}]
  /\ reloads \in Reload

\* Two deployments are never both waited for: a press while one is in flight
\* starts nothing ("calling it twice while one is in flight starts no second
\* deployment", deployRun.ts), so any other that may still land was given up on.
OneDeploymentAwaited ==
  \A c, d \in Call : Awaited(c) /\ Awaited(d) => c = d

\* What the operator copies belongs together: a contract that is on the chain,
\* of the kind the screen names, and the key that signed its own attestation.
DoneNamesWhatLanded ==
  phase = "done" =>
    /\ address # None /\ work[address] = "landed" /\ targetOf[address] = target
    /\ key = IF target = "identity" THEN address ELSE None

\* An attempt that is over for the screen but may still land, or has landed,
\* is reported by the one reason whose copy says to look before paying again.
MayLandIsWarnedOf ==
  \A c \in Call : pc[c] = "degraded" /\ MayLand(c) => reason[c] = "deploy_failed"

\* A retry deploys what failed, on the target the screen is about.
RetryKeepsTarget ==
  [][phase = "degraded" /\ phase' = "running" =>
       target' = target /\ targetOf'[current'] = targetOf[current]]_vars

\* A run on screen ends, whatever the wallet, the servers and the network do.
EveryRunSettles == (phase = "running") ~> (phase # "running")

\* What the screen's title says of every degraded run: "No se desplegó nada"
\* (deployScreen.ts), and laceDeploy.ts of deploy_failed: "the deployment did
\* not happen".
NothingWasDeployed == phase = "degraded" => work[current] # "landed"
=============================================================================
