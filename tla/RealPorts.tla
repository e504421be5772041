----------------------------- MODULE RealPorts -----------------------------
(***************************************************************************)
(* The two memoised deployments of a process: the backing one of           *)
(* api/src/realProofPort and the identity one of api/src/realIdentityPort, *)
(* both opened on the one shared environment.                              *)
(*                                                                         *)
(* An attempt is one run of openDeployment / openIdentityDeployment, named *)
(* after the request that found no memo and began it.  The two functions   *)
(* differ in one thing: when its deploy degrades, backing shuts the shared *)
(* environment down before it answers, and identity does not.              *)
(***************************************************************************)
EXTENDS SharedEnvironment

CONSTANTS
  BackingCall,   \* requests to checkBacking
  IdentityCall   \* requests to checkIdentity or to the issuer key

ASSUME CallsArePartitioned ==
  /\ BackingCall \cup IdentityCall = Call
  /\ BackingCall \cap IdentityCall = {}

VARIABLES
  deploymentPromise,  \* the memo of each port, or None
  attempt,            \* where each attempt has got to
  attemptEnv,         \* the start it awaits or runs on
  releasing           \* the start it took when its deploy degraded

portVars == <<deploymentPromise, attempt, attemptEnv, releasing>>

Port == {"backing", "identity"}
PortOf(c) == IF c \in BackingCall THEN "backing" ELSE "identity"

AttemptPhase == {"unused", "loading", "awaitEnv", "deploying", "releasing",
                 "ok", "degraded"}

PortTypeOK ==
  /\ deploymentPromise \in [Port -> Call \cup {None}]
  /\ attempt \in [Call -> AttemptPhase]
  /\ attemptEnv \in [Call -> Call \cup {None}]
  /\ releasing \in [Call -> Call \cup {None}]

PortInit ==
  /\ deploymentPromise = [p \in Port |-> None]
  /\ attempt = [a \in Call |-> "unused"]
  /\ attemptEnv = [a \in Call |-> None]
  /\ releasing = [a \in Call |-> None]

InFlight(a) == attempt[a] \in {"loading", "awaitEnv", "deploying", "releasing"}
AttemptSettled(a) == attempt[a] \in {"ok", "degraded"}

----------------------------------------------------------------------------
(* deployment() / identityDeployment(): join the memo, or begin an attempt *)
(* that runs up to its first await, the import of the compiled contract.   *)

DeploymentFor(c) ==
  IF deploymentPromise[PortOf(c)] = None THEN c ELSE deploymentPromise[PortOf(c)]

\* Mutation: the attempt is not memoised until it has settled.
JoinWithoutMemo(c) ==
  /\ attempt' = [attempt EXCEPT ![c] = "loading"]
  /\ UNCHANGED <<deploymentPromise, attemptEnv, releasing>>

JoinDeployment(c) ==
  /\ deploymentPromise' = [deploymentPromise EXCEPT ![PortOf(c)] = DeploymentFor(c)]
  /\ attempt' = IF deploymentPromise[PortOf(c)] = None
                THEN [attempt EXCEPT ![c] = "loading"]
                ELSE attempt
  /\ UNCHANGED <<attemptEnv, releasing>>

\* Mutation: a degraded attempt stays memoised.
SettleMemoised(a) ==
  /\ attempt' = [attempt EXCEPT ![a] = "degraded"]
  /\ UNCHANGED deploymentPromise

\* A degraded attempt clears the memo, if the memo is still its own.
SettleDegraded(a) ==
  /\ attempt' = [attempt EXCEPT ![a] = "degraded"]
  /\ deploymentPromise' = IF deploymentPromise[PortOf(a)] = a
                          THEN [deploymentPromise EXCEPT ![PortOf(a)] = None]
                          ELSE deploymentPromise

----------------------------------------------------------------------------
(* openDeployment() / openIdentityDeployment(), one await after the other. *)

ContractLoads(a) ==
  /\ attempt[a] = "loading"
  /\ attempt' = [attempt EXCEPT ![a] = "awaitEnv"]
  /\ attemptEnv' = [attemptEnv EXCEPT ![a] = EnvironmentFor(a)]
  /\ JoinEnvironment(a)
  /\ UNCHANGED <<deploymentPromise, releasing, faults>>

ContractMissing(a) ==
  /\ attempt[a] = "loading"
  /\ Fault("contract")
  /\ SettleDegraded(a)
  /\ UNCHANGED <<attemptEnv, releasing, environmentPromise, env>>

EnvironmentStarted(a) ==
  /\ attempt[a] = "awaitEnv"
  /\ StartedOk(attemptEnv[a])
  /\ attempt' = [attempt EXCEPT ![a] = "deploying"]
  /\ UNCHANGED <<deploymentPromise, attemptEnv, releasing, envVars>>

\* A rejected start is caught and becomes a degraded attempt as well.
EnvironmentUnavailable(a) ==
  /\ attempt[a] = "awaitEnv"
  /\ env[attemptEnv[a]] \in FailedStart \cup {"rejected"}
  /\ SettleDegraded(a)
  /\ UNCHANGED <<attemptEnv, releasing, envVars>>

DeploySucceeds(a) ==
  /\ attempt[a] = "deploying"
  /\ Reachable(attemptEnv[a])
  /\ attempt' = [attempt EXCEPT ![a] = "ok"]
  /\ UNCHANGED <<deploymentPromise, attemptEnv, releasing, envVars>>

\* A deploy degrades because it failed, or because its network is going away.
DeployFailure(a) ==
  \/ Fault("deploy")
  \/ env[attemptEnv[a]] # "up" /\ UNCHANGED faults

\* Mutation: the identity memo is cleared with the environment.
DropBothPorts(a) ==
  /\ a \in BackingCall
  /\ attempt[a] = "deploying"
  /\ DeployFailure(a)
  /\ attempt' = [attempt EXCEPT ![a] = "releasing"]
  /\ releasing' = [releasing EXCEPT ![a] = environmentPromise]
  /\ deploymentPromise' = [deploymentPromise EXCEPT !["identity"] = None]
  /\ ForgetEnvironment
  /\ UNCHANGED <<attemptEnv, env>>

\* Backing: shutdownSharedEnvironment() takes whatever is memoised, and the
\* attempt answers only after that shutdown has.
BackingDeployDegrades(a) ==
  /\ a \in BackingCall
  /\ attempt[a] = "deploying"
  /\ DeployFailure(a)
  /\ attempt' = [attempt EXCEPT ![a] = "releasing"]
  /\ releasing' = [releasing EXCEPT ![a] = environmentPromise]
  /\ ForgetEnvironment
  /\ UNCHANGED <<deploymentPromise, attemptEnv, env>>

ReleaseStops(a) ==
  /\ attempt[a] = "releasing"
  /\ releasing[a] # None
  /\ BeginStop(releasing[a])
  /\ UNCHANGED <<environmentPromise, faults, portVars>>

\* Mutation: the shutdown is not awaited.
ReleaseUnawaited(a) ==
  /\ attempt[a] = "releasing"
  /\ SettleDegraded(a)
  /\ UNCHANGED <<attemptEnv, releasing, envVars>>

ReleaseReturns(a) ==
  /\ attempt[a] = "releasing"
  /\ ShutdownReturned(releasing[a])
  /\ SettleDegraded(a)
  /\ UNCHANGED <<attemptEnv, releasing, envVars>>

\* Mutation: identity gives the environment up as backing does.
GiveUpEnvironment(a) ==
  /\ a \in IdentityCall
  /\ attempt[a] = "deploying"
  /\ DeployFailure(a)
  /\ SettleDegraded(a)
  /\ ForgetEnvironment
  /\ UNCHANGED <<attemptEnv, releasing, env>>

\* Identity: the degraded deploy is returned, the environment is left alone.
IdentityDeployDegrades(a) ==
  /\ a \in IdentityCall
  /\ attempt[a] = "deploying"
  /\ DeployFailure(a)
  /\ SettleDegraded(a)
  /\ UNCHANGED <<attemptEnv, releasing, environmentPromise, env>>

\* Building the providers, or signing the attestation, throws: the catch
\* degrades the attempt and touches nothing else, on either port.
DeployThrows(a) ==
  /\ attempt[a] = "deploying"
  /\ Fault("throw")
  /\ SettleDegraded(a)
  /\ UNCHANGED <<attemptEnv, releasing, environmentPromise, env>>

\* What the event loop makes of an attempt in the end, and what may go wrong.
AttemptProceeds(a) ==
  \/ ContractLoads(a)
  \/ EnvironmentStarted(a)
  \/ EnvironmentUnavailable(a)
  \/ DeploySucceeds(a)
  \/ BackingDeployDegrades(a)
  \/ ReleaseStops(a)
  \/ ReleaseReturns(a)
  \/ IdentityDeployDegrades(a)

AttemptFails(a) == ContractMissing(a) \/ DeployThrows(a)
=============================================================================
