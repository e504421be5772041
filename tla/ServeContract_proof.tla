------------------------ MODULE ServeContract_proof ------------------------
(***************************************************************************)
(* What the callers of Serve are promised: its action properties, that a   *)
(* published key stays good, and that every step of the process is a step  *)
(* of ProofPort or invisible to it.                                        *)
(***************************************************************************)
EXTENDS Serve_proof

USE DEF FailedStart, OutOfReach

\* A request is handed the memoised attempt, which is not a degraded one, or
\* begins a new attempt (realProofPort.ts and realIdentityPort.ts).
THEOREM RetriesStartAfresh == Safety => NoStaleDegrade
<1>1. ASSUME ServeInv, [Next]_vars
      PROVE  [\A c \in Call : joined'[c] # joined[c] => attempt[joined'[c]] # "degraded"]_vars
  <2>1. SUFFICES ASSUME Next, NEW c \in Call, joined'[c] # joined[c]
                 PROVE  attempt[joined'[c]] # "degraded"
    BY <1>1
  <2>2. PICK d \in Call : Dispatch(d)
    BY <2>1 DEF Next, Arrive, Disconnect, HandlerProceeds, Refuse, OpeningDegraded, PublishKey,
                CallCircuit, CircuitAnswers, CircuitDegrades, Respond, AttemptMoves,
                EnvironmentMoves, ReceiveSignal, TeardownProceeds, TakeBacking, TakeIdentity,
                TakeEnvironment, StopEnvironment, Exit, serveVars
  <2>3. c = d /\ joined'[c] = DeploymentFor(c)
    BY <1>1, <2>1, <2>2 DEF Dispatch, ServeInv, TypeOK
  <2>4. CASE deploymentPromise[PortOf(c)] = None
    BY <1>1, <2>2, <2>3, <2>4 DEF DeploymentFor, Dispatch, ServeInv, PortInv, FreshInv
  <2>5. CASE deploymentPromise[PortOf(c)] # None
    BY <1>1, <2>3, <2>5 DEF DeploymentFor, ServeInv, PortInv, MemoInv, PortOf, Port
  <2>6. QED
    BY <2>4, <2>5
<1>2. QED
  BY <1>1, ServeInvariant, PTL DEF Safety, NoStaleDegrade

----------------------------------------------------------------------------
(* A backing attempt takes the very network it ran on, and waits for it.   *)

ReleaseInv ==
  ~TearingDown => \A a \in Call : attempt[a] = "releasing" =>
    releasing[a] = attemptEnv[a] /\ StartedOk(releasing[a])

\* A start that came up stays one that came up, whatever becomes of it.
LEMMA StartedIsForGood ==
  ASSUME ServeInv, Next, NEW e \in Call, StartedOk(e) PROVE StartedOk(e)'
<1> USE DEF ServeInv, TypeOK, EnvTypeOK, StartedOk
<1>1. CASE \E f \in Call : EnvironmentMoves(f)
  BY <1>1 DEF EnvironmentMoves, EnvSettles, EnvFails, StartSucceeds, StartNetworkFails,
              StartWalletFails, WalletCleanupEnds, StartRejects, EnvironmentDies,
              StopSucceeds, StopFails
<1>2. CASE \E b \in Call : ContractLoads(b)
  BY <1>2 DEF ContractLoads, JoinEnvironment, PortInv, FreshInv
<1>3. CASE (\E b \in Call : ReleaseStops(b)) \/ (\E s \in Signal : StopEnvironment(s))
  BY <1>3 DEF ReleaseStops, StopEnvironment, BeginStop
<1>4. CASE env' = env
  BY <1>4
<1> QED
  BY <1>1, <1>2, <1>3, <1>4
     DEF Next, Arrive, Disconnect, HandlerProceeds, Refuse, Dispatch, OpeningDegraded,
         PublishKey, CallCircuit, CircuitAnswers, CircuitDegrades, AttemptMoves,
         AttemptProceeds, AttemptFails, EnvironmentStarted, EnvironmentUnavailable,
         DeploySucceeds, BackingDeployDegrades, ReleaseReturns, IdentityDeployDegrades,
         ContractMissing, DeployThrows, ReceiveSignal, TeardownProceeds, TakeBacking,
         TakeIdentity, TakeEnvironment, Exit, envVars

LEMMA ReleaseStep == ServeInv /\ ReleaseInv /\ [Next]_vars => ReleaseInv'
<1>1. ASSUME ServeInv, ReleaseInv, [Next]_vars, ~TearingDown',
             NEW a \in Call, attempt'[a] = "releasing"
      PROVE  (releasing[a] = attemptEnv[a] /\ StartedOk(releasing[a]))'
  <2> USE <1>1 DEF ServeInv, TypeOK, EnvTypeOK, PortTypeOK, StartedOk
  <2>1. ~TearingDown
    BY TearingIsForGood DEF vars, signalVars, TearingDown
  <2>2. CASE attempt[a] # "releasing"
    <3>1. BackingDeployDegrades(a) /\ UNCHANGED <<serveVars, signalVars>>
      BY <2>2 DEF Next, Arrive, Disconnect, HandlerProceeds, Refuse, Dispatch, JoinDeployment,
                  OpeningDegraded, PublishKey, CallCircuit, CircuitAnswers, CircuitDegrades,
                  AttemptMoves, AttemptProceeds, AttemptFails, ContractLoads, EnvironmentStarted,
                  EnvironmentUnavailable, DeploySucceeds, BackingDeployDegrades, ReleaseStops,
                  ReleaseReturns, IdentityDeployDegrades, ContractMissing, DeployThrows,
                  SettleDegraded, EnvironmentMoves, ReceiveSignal, TeardownProceeds, TakeBacking,
                  TakeIdentity, TakeDeployment, TakeEnvironment, StopEnvironment, Exit, vars, portVars
    <3>2. deploymentPromise["backing"] = a
      BY <2>1, <3>1 DEF PortInv, SingleFlight, InFlight, BackingDeployDegrades, PortOf
    <3>3. environmentPromise = attemptEnv[a] /\ env[attemptEnv[a]] \in {"up", "dead"}
      BY <2>1, <3>1, <3>2, NoneIsNoCall DEF PortInv, BackingEnvInv, BackingDeployDegrades
    <3>4. QED
      BY <3>1, <3>3 DEF BackingDeployDegrades
  <2>3. CASE attempt[a] = "releasing"
    <3>1. releasing[a] = attemptEnv[a] /\ StartedOk(releasing[a]) /\ releasing[a] \in Call
      BY <2>1, <2>3 DEF ReleaseInv, PortInv, AttemptInv
    <3>2. releasing'[a] = releasing[a] /\ attemptEnv'[a] = attemptEnv[a]
      BY <2>3 DEF Next, Arrive, Disconnect, HandlerProceeds, Refuse, Dispatch, JoinDeployment,
                  OpeningDegraded, PublishKey, CallCircuit, CircuitAnswers, CircuitDegrades,
                  AttemptMoves, AttemptProceeds, AttemptFails, ContractLoads, EnvironmentStarted,
                  EnvironmentUnavailable, DeploySucceeds, BackingDeployDegrades, ReleaseStops,
                  ReleaseReturns, IdentityDeployDegrades, ContractMissing, DeployThrows,
                  SettleDegraded, EnvironmentMoves, ReceiveSignal, TeardownProceeds, TakeBacking,
                  TakeIdentity, TakeDeployment, TakeEnvironment, StopEnvironment, Exit, vars, portVars
    <3>3. \A e \in Call : StartedOk(e) => StartedOk(e)'
      BY StartedIsForGood DEF vars, envVars
    <3>4. QED
      BY <3>1, <3>2, <3>3
  <2>4. QED
    BY <2>2, <2>3
<1>2. QED
  BY <1>1 DEF ReleaseInv

\* The private-state lock is released before a failed backing attempt says it
\* failed (realProofPort.ts, openDeployment()).
THEOREM LockIsReleasedFirst == Safety => LockReleasedBeforeGivingUp
<1>1. Init => ReleaseInv
  BY DEF Init, PortInit, ReleaseInv
<1>2. ASSUME ServeInv, ReleaseInv, [Next]_vars
      PROVE  [\A a \in BackingCall :
                ~TearingDown /\ attempt[a] = "releasing" /\ attempt'[a] = "degraded"
                  => env[attemptEnv[a]] \in {"stopped", "leaked"}]_vars
  <2>1. SUFFICES ASSUME Next, NEW a \in BackingCall, ~TearingDown,
                        attempt[a] = "releasing", attempt'[a] = "degraded"
                 PROVE  env[attemptEnv[a]] \in {"stopped", "leaked"}
    BY <1>2
  <2>2. a \in Call
    BY CallsArePartitioned
  <2>3. ReleaseReturns(a)
    <3>1. PICK b \in Call : AttemptMoves(b)
      BY <1>2, <2>1, <2>2
         DEF ServeInv, TypeOK, PortTypeOK, Next, Arrive, Disconnect, HandlerProceeds, Refuse,
             Dispatch, JoinDeployment, OpeningDegraded, PublishKey, CallCircuit, CircuitAnswers,
             CircuitDegrades, EnvironmentMoves, ReceiveSignal, TeardownProceeds, TakeBacking,
             TakeIdentity, TakeDeployment, TakeEnvironment, StopEnvironment, Exit, portVars
    <3>2. b = a
      BY <1>2, <2>1, <2>2, <3>1
         DEF ServeInv, TypeOK, PortTypeOK, AttemptMoves, AttemptProceeds, AttemptFails,
             ContractLoads, EnvironmentStarted, EnvironmentUnavailable, DeploySucceeds,
             BackingDeployDegrades, ReleaseStops, ReleaseReturns, IdentityDeployDegrades,
             ContractMissing, DeployThrows, SettleDegraded, portVars
    <3>3. QED
      BY <2>1, <3>1, <3>2
         DEF AttemptMoves, AttemptProceeds, AttemptFails, ContractLoads, EnvironmentStarted,
             EnvironmentUnavailable, DeploySucceeds, BackingDeployDegrades, ReleaseStops,
             IdentityDeployDegrades, ContractMissing, DeployThrows, portVars
  <2>4. releasing[a] = attemptEnv[a] /\ StartedOk(releasing[a]) /\ releasing[a] \in Call
    BY <1>2, <2>1, <2>2 DEF ReleaseInv, ServeInv, PortInv, AttemptInv
  <2>5. QED
    BY <2>3, <2>4, NoneIsNoCall DEF ReleaseReturns, ShutdownReturned, StartedOk
<1>3. QED
  BY <1>1, <1>2, ReleaseStep, ServeInvariant, PTL DEF Safety, LockReleasedBeforeGivingUp

----------------------------------------------------------------------------
(***************************************************************************)
(* Keys.  The identity deployment never changes while the listener may     *)
(* still have a request to read, so whatever key was published names it.   *)
(***************************************************************************)
GoneInv == \A c \in gone : handler[c] \notin {"idle", "receiving"}

QuietInv ==
  /\ GoneInv
  /\ \A s \in Signal : teardown[s] # "idle" => ~listening
  /\ TearingDown => \A c \in Call : handler[c] # "receiving"

IdentityInv ==
  ~TearingDown => \A a \in IdentityCall :
    attempt[a] = "ok" => deploymentPromise["identity"] = a

HandlerInv ==
  \A c \in Call :
    /\ handler[c] \in {"opening", "calling"} => joined[c] \in Call /\ PortOf(joined[c]) = PortOf(c)
    /\ handler[c] = "calling" => c \notin IssuerCall
    /\ handler[c] = "done" <=> answer[c] # "none"

\* k was published: a settled identity deployment, read by some client.
Published(k) ==
  /\ k \in IdentityCall
  /\ attempt[k] = "ok"
  /\ \E i \in IssuerCall : answer[i] = "decided"

KeyInv ==
  /\ \A i \in IssuerCall : answer[i] = "decided" => Published(joined[i])
  /\ \A c \in CheckCall : issuerKey[c] # None =>
       /\ Published(issuerKey[c])
       /\ handler[c] \in {"opening", "calling"} => joined[c] = issuerKey[c]

ContractInv == QuietInv /\ IdentityInv /\ HandlerInv /\ KeyInv

LEMMA RolesAreRequests == IssuerCall \subseteq Call /\ CheckCall \subseteq Call /\ IdentityCall \subseteq Call
BY CallsArePartitioned, IssuerCallsAreIdentity DEF CheckCall

LEMMA OkIsForGood ==
  ASSUME ServeInv, Next, NEW a \in Call, attempt[a] = "ok" PROVE attempt'[a] = "ok"
<1> USE DEF ServeInv, TypeOK, PortTypeOK
<1>1. CASE \E b \in Call : AttemptMoves(b)
  BY <1>1 DEF AttemptMoves, AttemptProceeds, AttemptFails, ContractLoads, EnvironmentStarted,
              EnvironmentUnavailable, DeploySucceeds, BackingDeployDegrades, ReleaseStops,
              ReleaseReturns, IdentityDeployDegrades, ContractMissing, DeployThrows,
              SettleDegraded, portVars
<1>2. CASE \E c \in Call : Dispatch(c)
  BY <1>2 DEF Dispatch, JoinDeployment, PortInv, FreshInv
<1>3. CASE attempt' = attempt
  BY <1>3
<1>4. QED
  BY <1>1, <1>2, <1>3
     DEF Next, Arrive, Disconnect, HandlerProceeds, Refuse, OpeningDegraded, PublishKey,
         CallCircuit, CircuitAnswers, CircuitDegrades, EnvironmentMoves, ReceiveSignal,
         TeardownProceeds, TakeBacking, TakeIdentity, TakeDeployment, TakeEnvironment,
         StopEnvironment, Exit, portVars

LEMMA QuietStep == ServeInv /\ QuietInv /\ [Next]_vars => QuietInv'
<1>1. ASSUME ServeInv, QuietInv, Next PROVE QuietInv'
  <2> USE <1>1 DEF ServeInv, TypeOK, QuietInv, GoneInv
  <2>1. CASE \E s \in Signal : ReceiveSignal(s) \/ TeardownProceeds(s)
    <3>1. PICK s \in Signal : ReceiveSignal(s) \/ TeardownProceeds(s)
      BY <2>1
    <3>2. CASE ReceiveSignal(s)
      BY <3>2 DEF ReceiveSignal, TearingDown
    <3>3. CASE TakeBacking(s)
      <4>1. \A c \in Call : handler[c] # "receiving"
        <5>1. SUFFICES ASSUME NEW c \in Call, handler[c] = "receiving" PROVE FALSE
          OBVIOUS
        <5>2. c \in gone
          BY <3>3, <5>1 DEF TakeBacking, Drained
        <5>3. QED
          BY <5>1, <5>2 DEF GoneInv
      <4>2. QED
        BY <3>3, <4>1 DEF TakeBacking, serveVars
    <3>4. CASE TakeIdentity(s) \/ TakeEnvironment(s)
      BY <3>4 DEF TakeIdentity, TakeEnvironment, serveVars, TearingDown
    <3>5. CASE StopEnvironment(s) \/ Exit(s)
      BY <3>5 DEF StopEnvironment, Exit, serveVars, signalVars, TearingDown
    <3>6. QED
      BY <3>1, <3>2, <3>3, <3>4, <3>5 DEF TeardownProceeds
  <2>2. CASE ~\E s \in Signal : ReceiveSignal(s) \/ TeardownProceeds(s)
    <3>1. /\ UNCHANGED <<listening, teardown>>
          /\ listening \/ \A c \in Call : handler'[c] = "receiving" => handler[c] = "receiving"
          /\ \A c \in gone' : handler'[c] \notin {"idle", "receiving"}
      BY <2>2 DEF Next, Arrive, Disconnect, HandlerProceeds, Refuse, Dispatch, OpeningDegraded,
                  PublishKey, CallCircuit, CircuitAnswers, CircuitDegrades, Respond, AttemptMoves,
                  EnvironmentMoves, serveVars, signalVars
    <3>2. QED
      BY <3>1 DEF TearingDown
  <2>3. QED
    BY <2>1, <2>2
<1>2. ServeInv /\ QuietInv /\ UNCHANGED vars => QuietInv'
  BY DEF QuietInv, GoneInv, TearingDown, vars, serveVars, signalVars
<1>3. QED
  BY <1>1, <1>2

LEMMA IdentityStep == ServeInv /\ IdentityInv /\ [Next]_vars => IdentityInv'
<1>1. ASSUME ServeInv, IdentityInv, Next, ~TearingDown',
             NEW a \in IdentityCall, attempt'[a] = "ok"
      PROVE  deploymentPromise'["identity"] = a
  <2> USE <1>1 DEF ServeInv, TypeOK, PortTypeOK, Port
  <2>1. ~TearingDown /\ a \in Call /\ PortOf(a) = "identity"
    BY TearingIsForGood, CallsArePartitioned DEF PortOf
  <2>2. CASE \E b \in Call : AttemptMoves(b)
    <3>1. attempt[a] \in {"ok", "deploying"}
      BY <2>1, <2>2
         DEF AttemptMoves, AttemptProceeds, AttemptFails, ContractLoads, EnvironmentStarted,
             EnvironmentUnavailable, DeploySucceeds, BackingDeployDegrades, ReleaseStops,
             ReleaseReturns, IdentityDeployDegrades, ContractMissing, DeployThrows,
             SettleDegraded, portVars
    <3>2. deploymentPromise["identity"] = a
      BY <2>1, <3>1 DEF IdentityInv, PortInv, SingleFlight, InFlight
    <3>3. QED
      BY <2>1, <2>2, <3>2
         DEF AttemptMoves, AttemptProceeds, AttemptFails, ContractLoads, EnvironmentStarted,
             EnvironmentUnavailable, DeploySucceeds, BackingDeployDegrades, ReleaseStops,
             ReleaseReturns, IdentityDeployDegrades, ContractMissing, DeployThrows,
             SettleDegraded, portVars
  <2>3. CASE \E c \in Call : Dispatch(c)
    <3>1. PICK c \in Call : Dispatch(c)
      BY <2>3
    <3>2. attempt[a] = "ok"
      BY <2>1, <3>1 DEF Dispatch, JoinDeployment
    <3>3. deploymentPromise["identity"] = a
      BY <2>1, <3>2 DEF IdentityInv
    <3>4. QED
      BY <2>1, <3>1, <3>3, NoneIsNoCall DEF Dispatch, JoinDeployment, DeploymentFor, PortOf
  <2>4. CASE \E s \in Signal : ReceiveSignal(s) \/ TeardownProceeds(s)
    <3>1. UNCHANGED portVars
      BY <2>4 DEF TearingDown, ReceiveSignal, TeardownProceeds, TakeBacking, TakeIdentity,
                  TakeEnvironment, StopEnvironment, Exit, portVars
    <3>2. QED
      BY <2>1, <3>1 DEF IdentityInv, portVars
  <2>5. CASE UNCHANGED portVars
    BY <2>1, <2>5 DEF IdentityInv, portVars
  <2>6. QED
    BY <2>2, <2>3, <2>4, <2>5
       DEF Next, Arrive, Disconnect, HandlerProceeds, Refuse, OpeningDegraded, PublishKey,
           CallCircuit, CircuitAnswers, CircuitDegrades, EnvironmentMoves, portVars
<1>2. ServeInv /\ IdentityInv /\ Next => IdentityInv'
  BY <1>1 DEF IdentityInv
<1>3. ServeInv /\ IdentityInv /\ UNCHANGED vars => IdentityInv'
  BY DEF IdentityInv, TearingDown, vars, portVars, signalVars
<1>4. QED
  BY <1>2, <1>3

\* Steps that are neither a client's nor a handler's leave the requests alone.
LEMMA OnlyRequestsMoveHandlers ==
  ASSUME Next, ~\E c \in Call : Arrive(c) \/ Disconnect(c) \/ HandlerProceeds(c)
  PROVE  UNCHANGED <<handler, joined, issuerKey, answer, gone>>
BY DEF Next, AttemptMoves, EnvironmentMoves, ReceiveSignal, TeardownProceeds, TakeBacking,
       TakeIdentity, TakeEnvironment, StopEnvironment, Exit, serveVars

LEMMA HandlerStep == ServeInv /\ HandlerInv /\ [Next]_vars => HandlerInv'
<1>1. ASSUME ServeInv, HandlerInv, NEW c \in Call, Arrive(c) \/ Disconnect(c) \/ HandlerProceeds(c)
      PROVE  HandlerInv'
  <2> USE <1>1 DEF ServeInv, TypeOK, HandlerInv
  <2>1. CASE Arrive(c)
    BY <2>1 DEF Arrive
  <2>2. CASE Disconnect(c)
    BY <2>2 DEF Disconnect
  <2>3. CASE Dispatch(c)
    <3>1. DeploymentFor(c) \in Call /\ PortOf(DeploymentFor(c)) = PortOf(c)
      BY <2>3 DEF DeploymentFor, PortInv, MemoInv, PortTypeOK, PortOf, Port
    <3>2. joined' = [joined EXCEPT ![c] = DeploymentFor(c)]
      BY <2>3 DEF Dispatch
    <3>3. QED
      BY <2>3, <3>1, <3>2 DEF Dispatch, PortOf
  <2>4. CASE Refuse(c) \/ OpeningDegraded(c) \/ PublishKey(c) \/ CircuitAnswers(c) \/ CircuitDegrades(c)
    BY <2>4 DEF Refuse, OpeningDegraded, PublishKey, CircuitAnswers, CircuitDegrades, Respond
  <2>5. CASE CallCircuit(c)
    BY <2>5 DEF CallCircuit
  <2>6. QED
    BY <2>1, <2>2, <2>3, <2>4, <2>5 DEF HandlerProceeds
<1>2. ASSUME HandlerInv, UNCHANGED <<handler, joined, answer>> PROVE HandlerInv'
  BY <1>2 DEF HandlerInv, PortOf
<1>3. QED
  BY <1>1, <1>2, OnlyRequestsMoveHandlers DEF vars, serveVars

\* A published key stays published.
LEMMA PublishedIsForGood ==
  ASSUME ServeInv, HandlerInv, Next, NEW k, Published(k) PROVE Published(k)'
<1>1. k \in Call /\ attempt'[k] = "ok"
  BY OkIsForGood, RolesAreRequests DEF Published
<1>2. PICK i \in IssuerCall : answer[i] = "decided"
  BY DEF Published
<1>3. handler[i] = "done" /\ i \in Call
  BY <1>2, RolesAreRequests DEF HandlerInv
<1>4. answer'[i] = "decided"
  <2>1. CASE \E c \in Call : Arrive(c) \/ Disconnect(c) \/ HandlerProceeds(c)
    BY <1>2, <1>3, <2>1
       DEF ServeInv, TypeOK, Arrive, Disconnect, HandlerProceeds, Refuse, Dispatch, OpeningDegraded,
           PublishKey, CallCircuit, CircuitAnswers, CircuitDegrades, Respond
  <2>2. QED
    BY <1>2, <2>1, OnlyRequestsMoveHandlers
<1>5. QED
  BY <1>1, <1>4 DEF Published

LEMMA KeyStep == ServeInv /\ ContractInv /\ [Next]_vars => KeyInv'
<1>1. ASSUME ServeInv, ContractInv, Next, NEW i \in IssuerCall, answer'[i] = "decided"
      PROVE  Published(joined[i])'
  <2> USE <1>1 DEF ServeInv, TypeOK, ContractInv
  <2>1. i \in Call /\ i \in IdentityCall
    BY RolesAreRequests, IssuerCallsAreIdentity
  <2>2. CASE answer[i] = "decided"
    <3>1. handler[i] = "done" /\ Published(joined[i])
      BY <2>1, <2>2 DEF HandlerInv, KeyInv
    <3>2. joined'[i] = joined[i]
      <4>1. CASE \E c \in Call : Arrive(c) \/ Disconnect(c) \/ HandlerProceeds(c)
        BY <2>1, <3>1, <4>1
           DEF Arrive, Disconnect, HandlerProceeds, Refuse, Dispatch, OpeningDegraded,
               PublishKey, CallCircuit, CircuitAnswers, CircuitDegrades, Respond
      <4>2. QED
        BY <4>1, OnlyRequestsMoveHandlers
    <3>3. QED
      BY <3>1, <3>2, PublishedIsForGood DEF Published
  <2>3. CASE answer[i] # "decided"
    <3>1. PublishKey(i)
      <4>1. PICK c \in Call : Arrive(c) \/ Disconnect(c) \/ HandlerProceeds(c)
        BY <2>3, OnlyRequestsMoveHandlers
      <4>2. c = i /\ (PublishKey(c) \/ CircuitAnswers(c))
        BY <2>1, <2>3, <4>1
           DEF Arrive, Disconnect, HandlerProceeds, Refuse, Dispatch, OpeningDegraded,
               PublishKey, CallCircuit, CircuitAnswers, CircuitDegrades, Respond
      <4>3. QED
        BY <2>1, <4>2 DEF CircuitAnswers, HandlerInv
    <3>2. joined[i] \in Call /\ PortOf(joined[i]) = "identity" /\ attempt[joined[i]] = "ok"
      BY <2>1, <3>1, CallsArePartitioned DEF PublishKey, HandlerInv, PortOf
    <3>3. joined[i] \in IdentityCall
      BY <3>2, CallsArePartitioned DEF PortOf
    <3>4. joined' = joined /\ attempt' = attempt
      BY <3>1 DEF PublishKey, Respond, portVars
    <3>5. QED
      BY <1>1, <3>2, <3>3, <3>4 DEF Published
  <2>4. QED
    BY <2>2, <2>3
<1>2. ASSUME ServeInv, ContractInv, Next, NEW c \in CheckCall, issuerKey'[c] # None
      PROVE  /\ Published(issuerKey[c])'
             /\ handler'[c] \in {"opening", "calling"} => joined'[c] = issuerKey'[c]
  <2> USE <1>2 DEF ServeInv, TypeOK, ContractInv
  <2>1. c \in Call /\ c \in IdentityCall /\ PortOf(c) = "identity"
    BY RolesAreRequests, CallsArePartitioned DEF CheckCall, PortOf
  <2>2. CASE issuerKey'[c] # issuerKey[c]
    <3>1. Arrive(c)
      <4>1. PICK d \in Call : Arrive(d) \/ Disconnect(d) \/ HandlerProceeds(d)
        BY <2>2, OnlyRequestsMoveHandlers
      <4>2. QED
        BY <2>1, <2>2, <4>1
           DEF Arrive, Disconnect, HandlerProceeds, Refuse, Dispatch, OpeningDegraded,
               PublishKey, CallCircuit, CircuitAnswers, CircuitDegrades, Respond
    <3>2. issuerKey'[c] \in PublishedKeys
      BY <2>1, <3>1 DEF Arrive
    <3>3. Published(issuerKey'[c])
      BY <3>2 DEF PublishedKeys, KeyInv
    <3>4. attempt' = attempt /\ answer' = answer /\ handler'[c] = "receiving"
      BY <2>1, <3>1 DEF Arrive, portVars
    <3>5. QED
      BY <3>3, <3>4 DEF Published
  <2>3. CASE issuerKey'[c] = issuerKey[c]
    <3>1. Published(issuerKey[c])
      BY <2>1, <2>3 DEF KeyInv
    <3>2. Published(issuerKey[c])'
      BY <2>3, <3>1, PublishedIsForGood DEF Published
    <3>3. ASSUME handler'[c] \in {"opening", "calling"} PROVE joined'[c] = issuerKey'[c]
      <4>1. CASE Dispatch(c)
        <5>1. deploymentPromise["identity"] = issuerKey[c]
          BY <2>1, <3>1, <4>1 DEF Dispatch, Published, IdentityInv, QuietInv
        <5>2. issuerKey[c] # None
          BY <2>3
        <5>3. QED
          BY <2>1, <2>3, <4>1, <5>1, <5>2 DEF Dispatch, DeploymentFor
      <4>2. CASE ~Dispatch(c)
        <5>1. handler[c] \in {"opening", "calling"} /\ joined'[c] = joined[c]
          <6>1. CASE \E d \in Call : Arrive(d) \/ Disconnect(d) \/ HandlerProceeds(d)
            BY <2>1, <3>3, <4>2, <6>1
               DEF Arrive, Disconnect, HandlerProceeds, Refuse, Dispatch, OpeningDegraded,
                   PublishKey, CallCircuit, CircuitAnswers, CircuitDegrades, Respond
          <6>2. QED
            BY <3>3, <6>1, OnlyRequestsMoveHandlers
        <5>2. QED
          BY <2>3, <5>1 DEF KeyInv
      <4>3. QED
        BY <4>1, <4>2
    <3>4. QED
      BY <3>2, <3>3
  <2>4. QED
    BY <2>2, <2>3
<1>3. ASSUME KeyInv, UNCHANGED vars PROVE KeyInv'
  BY <1>3 DEF KeyInv, Published, vars, serveVars, portVars
<1>4. QED
  BY <1>1, <1>2, <1>3 DEF KeyInv, ContractInv

LEMMA ContractInvariant == Safety => [](ServeInv /\ ContractInv)
<1>1. Init => ContractInv
  <2> SUFFICES ASSUME Init PROVE ContractInv
    OBVIOUS
  <2> USE RolesAreRequests DEF Init, PortInit
  <2>1. QuietInv /\ IdentityInv
    BY DEF QuietInv, GoneInv, TearingDown, IdentityInv
  <2>2. HandlerInv /\ KeyInv
    BY DEF HandlerInv, KeyInv
  <2>3. QED
    BY <2>1, <2>2 DEF ContractInv
<1>2. ServeInv /\ ContractInv /\ [Next]_vars => ContractInv'
  BY QuietStep, IdentityStep, HandlerStep, KeyStep DEF ContractInv
<1>3. QED
  BY <1>1, <1>2, ServeInvariant, PTL DEF Safety

\* No port redeploys while it serves, so a check runs on the deployment whose
\* key its client read, although two trips lie between (proofServer.ts).
THEOREM PublishedKeysStayGood == Safety => []PublishedKeyIsCurrent
<1>1. KeyInv => PublishedKeyIsCurrent
  BY DEF KeyInv, PublishedKeyIsCurrent
<1>2. QED
  BY <1>1, ContractInvariant, PTL DEF ContractInv

----------------------------------------------------------------------------
(* Every step of the process is a step of the port's contract, or none.    *)

LEMMA RequestSteps ==
  ASSUME ServeInv, ContractInv, ~exited, exited' = exited, NEW c \in Call,
         Arrive(c) \/ Disconnect(c) \/ HandlerProceeds(c)
  PROVE  [Contract!Next]_(Contract!vars)
<1> USE DEF ServeInv, TypeOK, PortOutcome
<1>1. CASE Arrive(c)
  BY <1>1 DEF Arrive, Contract!Next, Contract!Ask
<1>2. CASE UNCHANGED PortOutcome
  BY <1>2 DEF Contract!vars
<1>3. CASE Dispatch(c) \/ CallCircuit(c)
  BY <1>2, <1>3 DEF Dispatch, CallCircuit
<1>4. CASE Refuse(c) \/ OpeningDegraded(c) \/ CircuitDegrades(c)
  <2>1. handler[c] \in {"receiving", "opening", "calling"} /\ Respond(c, "degraded")
    BY <1>4 DEF Refuse, OpeningDegraded, CircuitDegrades
  <2>2. PortOutcome[c] = "asked" /\ PortOutcome' = [PortOutcome EXCEPT ![c] = "degraded"]
    BY <2>1 DEF Respond
  <2>3. QED
    BY <2>2 DEF Contract!Next, Contract!Answer, Contract!Degrade
<1>5. CASE Disconnect(c)
  <2>1. CASE handler[c] = "receiving"
    <3>1. PortOutcome[c] = "asked" /\ PortOutcome' = [PortOutcome EXCEPT ![c] = "degraded"]
      BY <1>5, <2>1 DEF Disconnect
    <3>2. QED
      BY <3>1 DEF Contract!Next, Contract!Answer, Contract!Degrade
  <2>2. CASE handler[c] # "receiving"
    BY <1>2, <1>5, <2>2 DEF Disconnect
  <2>3. QED
    BY <2>1, <2>2
<1>6. CASE PublishKey(c)
  <2>1. c \notin CheckCall
    BY <1>6 DEF PublishKey, CheckCall
  <2>2. QED
    BY <1>6, <2>1 DEF PublishKey, Respond, Contract!Next, Contract!Answer, Contract!Decide
<1>7. CASE CircuitAnswers(c)
  <2>1. ASSUME c \in CheckCall PROVE Contract!KeyPublished
    <3>1. issuerKey[c] = joined[c] /\ joined[c] # None
      BY <1>7, <2>1, NoneIsNoCall DEF CircuitAnswers, KeyVerifies, ContractInv, HandlerInv
    <3>2. PICK i \in IssuerCall : answer[i] = "decided"
      BY <2>1, <3>1 DEF ContractInv, KeyInv, Published
    <3>3. i \in Call /\ handler[i] = "done"
      BY <3>2, RolesAreRequests DEF ContractInv, HandlerInv
    <3>4. QED
      BY <3>2, <3>3 DEF Contract!KeyPublished
  <2>2. QED
    BY <1>7, <2>1 DEF CircuitAnswers, Respond, Contract!Next, Contract!Answer, Contract!Decide
<1>8. QED
  BY <1>1, <1>3, <1>4, <1>5, <1>6, <1>7 DEF HandlerProceeds

LEMMA OtherSteps ==
  ASSUME ServeInv, Next, ~\E c \in Call : Arrive(c) \/ Disconnect(c) \/ HandlerProceeds(c)
  PROVE  [Contract!Next]_(Contract!vars)
<1>1. UNCHANGED PortOutcome
  BY OnlyRequestsMoveHandlers DEF PortOutcome
<1>2. CASE \E s \in Signal : Exit(s) \/ TakeEnvironment(s)
  <2>1. ~exited /\ (exited' = TRUE \/ exited' = exited)
    BY <1>2 DEF Next, Exit, TakeEnvironment, ServeInv, TypeOK
  <2> QED
    BY <1>1, <2>1 DEF Contract!Next, Contract!End, Contract!vars
<1>3. CASE ~\E s \in Signal : Exit(s) \/ TakeEnvironment(s)
  <2>1. UNCHANGED exited
    BY <1>3 DEF Next, AttemptMoves, EnvironmentMoves, ReceiveSignal, TeardownProceeds, TakeBacking,
                TakeIdentity, StopEnvironment, signalVars
  <2>2. QED
    BY <1>1, <2>1 DEF Contract!vars
<1>4. QED
  BY <1>2, <1>3

\* The process behaves as a proof port: one answer to a call, either the
\* outcome of its proof or a typed degraded result, and an identity check is
\* decided only under a published key (proofPort.ts).
THEOREM ServesTheContract == Safety => Contract!Safety
<1>1. Init => Contract!Init
  BY DEF Init, Contract!Init, PortOutcome
<1>2. ServeInv /\ ContractInv /\ [Next]_vars => [Contract!Next]_(Contract!vars)
  <2>1. ASSUME ServeInv, ContractInv, Next PROVE [Contract!Next]_(Contract!vars)
    <3>1. CASE \E c \in Call : Arrive(c) \/ Disconnect(c) \/ HandlerProceeds(c)
      <4>1. PICK c \in Call : Arrive(c) \/ Disconnect(c) \/ HandlerProceeds(c)
        BY <3>1
      <4>2. ~exited /\ exited' = exited
        BY <2>1, <4>1 DEF Next, Arrive, Disconnect, HandlerProceeds, Refuse, Dispatch,
               OpeningDegraded, PublishKey, CallCircuit, CircuitAnswers, CircuitDegrades, signalVars
      <4>3. QED
        BY <2>1, <4>1, <4>2, RequestSteps
    <3>2. QED
      BY <2>1, <3>1, OtherSteps
  <2>2. UNCHANGED vars => UNCHANGED Contract!vars
    BY DEF vars, serveVars, signalVars, Contract!vars, PortOutcome
  <2>3. QED
    BY <2>1, <2>2
<1>3. QED
  BY <1>1, <1>2, ContractInvariant, PTL DEF Safety, Contract!Safety
----------------------------------------------------------------------------
(***************************************************************************)
(* The exit.  Every network that runs is in somebody's custody: memoised,  *)
(* being stopped by the attempt whose deploy degraded, or taken by a       *)
(* signal's handler.  With one signal, each stretch of that handler leaves *)
(* fewer attempts that could start another, so the last one is the last.   *)
(***************************************************************************)
OneSignal == \A s, t \in Signal : s = t

Running(e) == env[e] \in {"starting", "cleaning", "up", "stopping"}

BeingStopped(e) ==
  \/ \E a \in Call : attempt[a] = "releasing" /\ releasing[a] = e
  \/ \E s \in Signal : teardown[s] = "environment" /\ pending[s] = e

Kept(e) == environmentPromise = e \/ BeingStopped(e)

CustodyInv == \A e \in Call : Running(e) => Kept(e)

\* The attempts that may still be on their way at a stretch of a teardown.
DrainInv ==
  \A s \in Signal, a \in Call : InFlight(a) =>
    /\ teardown[s] = "backing" =>
         pending[s] = a \/ (PortOf(a) = "identity" /\ deploymentPromise["identity"] = a)
    /\ teardown[s] = "identity" => pending[s] = a
    /\ teardown[s] # "environment"

EmptyInv == \A s \in Signal : teardown[s] = "environment" => environmentPromise = None

ExitInv ==
  exited => \E s \in Signal : teardown[s] = "environment" /\ ShutdownReturned(pending[s])

LEMMA CustodyStep == ServeInv /\ CustodyInv /\ [Next]_vars => CustodyInv'
<1> USE DEF ServeInv, TypeOK, EnvTypeOK, PortTypeOK
<1>1. ASSUME ServeInv, CustodyInv, NEW e \in Call, Running(e)', NEW f \in Call, EnvironmentMoves(f)
      PROVE  Kept(e)'
  <2>1. Running(e) /\ (environmentPromise = e => environmentPromise' = e)
    BY <1>1 DEF Running, EnvironmentMoves, EnvSettles, EnvFails, StartSucceeds, StartNetworkFails,
                StartWalletFails, WalletCleanupEnds, StartRejects, EnvironmentDies, StopSucceeds,
                StopFails, ForgetStart
  <2> QED
    BY <1>1, <2>1 DEF CustodyInv, Kept, BeingStopped, EnvironmentMoves, portVars, signalVars
<1>2. ASSUME ServeInv, CustodyInv, NEW e \in Call, Running(e)', NEW b \in Call, AttemptMoves(b)
      PROVE  Kept(e)'
  <2> USE <1>2 DEF AttemptMoves, signalVars
  <2>1. CASE ContractLoads(b)
    <3>1. Running(e) \/ environmentPromise' = e
      BY <2>1 DEF ContractLoads, JoinEnvironment, EnvironmentFor, Running
    <3>2. environmentPromise = e => environmentPromise' = e
      BY <2>1, NoneIsNoCall DEF ContractLoads, JoinEnvironment, EnvironmentFor
    <3>3. \A a \in Call : attempt[a] = "releasing" => attempt'[a] = "releasing" /\ releasing'[a] = releasing[a]
      BY <2>1 DEF ContractLoads
    <3> QED
      BY <3>1, <3>2, <3>3 DEF CustodyInv, Kept, BeingStopped
  <2>2. CASE BackingDeployDegrades(b)
    <3>1. Running(e)
      BY <2>2 DEF BackingDeployDegrades, Running
    <3>2. attempt'[b] = "releasing" /\ releasing'[b] = environmentPromise
      BY <2>2 DEF BackingDeployDegrades
    <3>3. \A a \in Call : attempt[a] = "releasing" => attempt'[a] = "releasing" /\ releasing'[a] = releasing[a]
      BY <2>2 DEF BackingDeployDegrades
    <3> QED
      BY <3>1, <3>2, <3>3 DEF CustodyInv, Kept, BeingStopped
  <2>3. CASE ReleaseStops(b)
    <3>1. UNCHANGED <<environmentPromise, attempt, releasing>>
      BY <2>3 DEF ReleaseStops, portVars
    <3>2. CASE e = releasing[b]
      BY <2>3, <3>1, <3>2 DEF ReleaseStops, Kept, BeingStopped
    <3>3. CASE e # releasing[b]
      BY <2>3, <3>1, <3>3 DEF ReleaseStops, BeginStop, Running, CustodyInv, Kept, BeingStopped
    <3> QED BY <3>2, <3>3
  <2>4. CASE ReleaseReturns(b)
    <3>1. Running(e) /\ UNCHANGED <<environmentPromise, releasing>>
      BY <2>4 DEF ReleaseReturns, Running, envVars
    <3>2. releasing[b] # e
      BY <2>4, <3>1, NoneIsNoCall DEF ReleaseReturns, ShutdownReturned, Running
    <3>3. \A a \in Call : a # b => attempt'[a] = attempt[a]
      BY <2>4 DEF ReleaseReturns, SettleDegraded
    <3> QED
      BY <3>1, <3>2, <3>3 DEF CustodyInv, Kept, BeingStopped
  <2>5. CASE \/ EnvironmentStarted(b) \/ EnvironmentUnavailable(b) \/ DeploySucceeds(b)
             \/ IdentityDeployDegrades(b) \/ ContractMissing(b) \/ DeployThrows(b)
    <3>1. UNCHANGED <<environmentPromise, env, releasing>>
      BY <2>5 DEF EnvironmentStarted, EnvironmentUnavailable, DeploySucceeds,
                  IdentityDeployDegrades, ContractMissing, DeployThrows, envVars
    <3>2. \A a \in Call : attempt[a] = "releasing" => attempt'[a] = "releasing"
      BY <2>5 DEF EnvironmentStarted, EnvironmentUnavailable, DeploySucceeds,
                  IdentityDeployDegrades, ContractMissing, DeployThrows, SettleDegraded
    <3> QED
      BY <3>1, <3>2 DEF CustodyInv, Kept, BeingStopped, Running
  <2> QED
    BY <2>1, <2>2, <2>3, <2>4, <2>5 DEF AttemptProceeds, AttemptFails
<1>3. ASSUME ServeInv, CustodyInv, NEW e \in Call, Running(e)', NEW s \in Signal,
             ReceiveSignal(s) \/ TeardownProceeds(s)
      PROVE  Kept(e)'
  <2> USE <1>3
  <2>1. CASE ReceiveSignal(s) \/ TakeBacking(s) \/ TakeIdentity(s) \/ Exit(s)
    <3>1. UNCHANGED <<environmentPromise, env, attempt, releasing>>
      BY <2>1 DEF ReceiveSignal, TakeBacking, TakeIdentity, TakeDeployment, Exit, envVars, portVars
    <3>2. \A t \in Signal : teardown[t] = "environment"
                            => teardown'[t] = "environment" /\ pending'[t] = pending[t]
      BY <2>1 DEF ReceiveSignal, TakeBacking, TakeIdentity, TakeDeployment, Exit
    <3> QED
      BY <3>1, <3>2 DEF CustodyInv, Kept, BeingStopped, Running
  <2>2. CASE TakeEnvironment(s)
    <3>1. Running(e) /\ UNCHANGED <<attempt, releasing>>
      BY <2>2 DEF TakeEnvironment, Running, portVars
    <3>2. teardown'[s] = "environment" /\ pending'[s] = environmentPromise
      BY <2>2 DEF TakeEnvironment
    <3>3. \A t \in Signal : teardown[t] = "environment"
                            => teardown'[t] = "environment" /\ pending'[t] = pending[t]
      BY <2>2 DEF TakeEnvironment
    <3> QED
      BY <3>1, <3>2, <3>3 DEF CustodyInv, Kept, BeingStopped
  <2>3. CASE StopEnvironment(s)
    <3>1. UNCHANGED <<environmentPromise, attempt, releasing, teardown, pending>>
      BY <2>3 DEF StopEnvironment, portVars, signalVars
    <3>2. CASE e = pending[s]
      BY <2>3, <3>1, <3>2 DEF StopEnvironment, Kept, BeingStopped
    <3>3. CASE e # pending[s]
      BY <2>3, <3>1, <3>3 DEF StopEnvironment, BeginStop, Running, CustodyInv, Kept, BeingStopped
    <3> QED BY <3>2, <3>3
  <2> QED
    BY <2>1, <2>2, <2>3 DEF TeardownProceeds
<1>4. ASSUME ServeInv, CustodyInv, NEW e \in Call, Running(e)', NEW c \in Call,
             Arrive(c) \/ Disconnect(c) \/ HandlerProceeds(c)
      PROVE  Kept(e)'
  <2>1. UNCHANGED <<environmentPromise, env, releasing, teardown, pending>>
    BY <1>4 DEF Arrive, Disconnect, HandlerProceeds, Refuse, Dispatch, JoinDeployment,
                OpeningDegraded, PublishKey, CallCircuit, CircuitAnswers, CircuitDegrades,
                envVars, portVars, signalVars
  <2>2. \A a \in Call : attempt[a] = "releasing" => attempt'[a] = "releasing"
    BY <1>4 DEF Arrive, Disconnect, HandlerProceeds, Refuse, Dispatch, JoinDeployment,
                OpeningDegraded, PublishKey, CallCircuit, CircuitAnswers, CircuitDegrades,
                portVars, PortInv, FreshInv
  <2> QED
    BY <1>4, <2>1, <2>2 DEF CustodyInv, Kept, BeingStopped, Running
<1>5. ASSUME CustodyInv, UNCHANGED vars PROVE CustodyInv'
  BY <1>5 DEF CustodyInv, Kept, BeingStopped, Running, vars, envVars, portVars, signalVars
<1> QED
  BY <1>1, <1>2, <1>3, <1>4, <1>5 DEF Next, CustodyInv

\* What the attempts still on their way become, at each stretch of the teardown.
LEMMA DrainStep ==
  ASSUME OneSignal, ServeInv, QuietInv, DrainInv, [Next]_vars
  PROVE  DrainInv'
<1> USE DEF ServeInv, TypeOK, PortTypeOK, Port
<1>1. SUFFICES ASSUME Next, NEW s \in Signal, NEW a \in Call, InFlight(a)',
                      teardown'[s] \in {"backing", "identity", "environment"}
               PROVE  /\ teardown'[s] = "backing" =>
                           \/ pending'[s] = a
                           \/ PortOf(a) = "identity" /\ deploymentPromise'["identity"] = a
                      /\ teardown'[s] = "identity" => pending'[s] = a
                      /\ teardown'[s] # "environment"
  <2>1. CASE UNCHANGED vars
    BY <2>1 DEF DrainInv, InFlight, PortOf, vars, portVars, signalVars
  <2> QED BY <2>1 DEF DrainInv, InFlight, PortOf
<1>2. CASE \E t \in Signal : ReceiveSignal(t) \/ TeardownProceeds(t)
  <2>1. ReceiveSignal(s) \/ TeardownProceeds(s)
    BY <1>2 DEF OneSignal
  <2>2. InFlight(a)
    BY <1>1, <2>1 DEF InFlight, ReceiveSignal, TeardownProceeds, TakeBacking, TakeIdentity,
                TakeDeployment, TakeEnvironment, StopEnvironment, Exit, portVars
  <2>3. CASE TakeBacking(s)
    <3>1. ~TearingDown
      BY <2>3 DEF TakeBacking, TearingDown, OneSignal
    <3>2. deploymentPromise[PortOf(a)] = a
      BY <2>2, <3>1 DEF PortInv, SingleFlight
    <3> QED
      BY <2>3, <3>2 DEF TakeBacking, TakeDeployment, PortOf
  <2>4. CASE TakeIdentity(s)
    <3>1. pending[s] # a
      BY <2>2, <2>4, NoneIsNoCall DEF TakeIdentity, PendingSettled, AttemptSettled, InFlight
    <3>2. deploymentPromise["identity"] = a
      BY <2>2, <2>4, <3>1 DEF TakeIdentity, DrainInv
    <3> QED
      BY <2>4, <3>2 DEF TakeIdentity, TakeDeployment
  <2>5. CASE TakeEnvironment(s)
    <3>1. pending[s] = a
      BY <2>2, <2>5 DEF TakeEnvironment, DrainInv
    <3> QED
      BY <2>2, <2>5, <3>1, NoneIsNoCall DEF TakeEnvironment, PendingSettled, AttemptSettled, InFlight
  <2>6. CASE ReceiveSignal(s)
    BY <1>1, <2>6 DEF ReceiveSignal
  <2>7. CASE StopEnvironment(s) \/ Exit(s)
    BY <1>1, <2>2, <2>7 DEF StopEnvironment, Exit, DrainInv, portVars, signalVars
  <2> QED
    BY <2>1, <2>3, <2>4, <2>5, <2>6, <2>7 DEF TeardownProceeds
<1>3. CASE ~\E t \in Signal : ReceiveSignal(t) \/ TeardownProceeds(t)
  <2>1. UNCHANGED <<teardown, pending>>
    BY <1>1, <1>3 DEF Next, Arrive, Disconnect, HandlerProceeds, Refuse, Dispatch, OpeningDegraded,
                PublishKey, CallCircuit, CircuitAnswers, CircuitDegrades, AttemptMoves,
                EnvironmentMoves, signalVars
  <2>2. TearingDown
    BY <1>1, <2>1 DEF TearingDown
  <2>3. \A c \in Call : ~Dispatch(c)
    BY <2>2 DEF QuietInv, Dispatch
  <2>4. InFlight(a) /\ (deploymentPromise["identity"] = a => deploymentPromise'["identity"] = a)
    <3>1. CASE \E b \in Call : AttemptMoves(b)
      BY <1>1, <3>1 DEF InFlight, AttemptMoves, AttemptProceeds, AttemptFails, ContractLoads,
             EnvironmentStarted, EnvironmentUnavailable, DeploySucceeds, BackingDeployDegrades,
             ReleaseStops, ReleaseReturns, IdentityDeployDegrades, ContractMissing, DeployThrows,
             SettleDegraded, PortOf, portVars
    <3>2. CASE UNCHANGED portVars
      BY <1>1, <3>2 DEF InFlight, portVars
    <3> QED
      BY <1>1, <1>3, <2>3, <3>1, <3>2
         DEF Next, Arrive, Disconnect, HandlerProceeds, Refuse, OpeningDegraded, PublishKey,
             CallCircuit, CircuitAnswers, CircuitDegrades, EnvironmentMoves
  <2> QED
    BY <1>1, <2>1, <2>4 DEF DrainInv
<1> QED BY <1>2, <1>3

LEMMA EmptyStep ==
  ASSUME OneSignal, ServeInv, QuietInv, DrainInv, EmptyInv, [Next]_vars
  PROVE  EmptyInv'
<1> USE DEF ServeInv, TypeOK, EnvTypeOK
<1>1. SUFFICES ASSUME Next, NEW s \in Signal, teardown'[s] = "environment"
               PROVE  environmentPromise' = None
  BY DEF EmptyInv, vars, envVars, signalVars
<1>2. CASE TakeEnvironment(s)
  BY <1>2 DEF TakeEnvironment, ForgetEnvironment
<1>3. CASE ~TakeEnvironment(s)
  <2>1. teardown[s] = "environment"
    BY <1>1, <1>3 DEF OneSignal, Next, Arrive, Disconnect, HandlerProceeds, Refuse, Dispatch,
          OpeningDegraded, PublishKey, CallCircuit, CircuitAnswers, CircuitDegrades, AttemptMoves,
          EnvironmentMoves, ReceiveSignal, TeardownProceeds, TakeBacking, TakeIdentity,
          StopEnvironment, Exit, signalVars
  <2>2. environmentPromise = None /\ \A a \in Call : ~InFlight(a)
    BY <2>1 DEF EmptyInv, DrainInv
  <2> QED
    BY <1>1, <1>3, <2>2
       DEF InFlight, Next, Arrive, Disconnect, HandlerProceeds, Refuse, Dispatch, OpeningDegraded,
           PublishKey, CallCircuit, CircuitAnswers, CircuitDegrades, AttemptMoves, AttemptProceeds,
           AttemptFails, ContractLoads, EnvironmentStarted, EnvironmentUnavailable, DeploySucceeds,
           BackingDeployDegrades, ReleaseStops, ReleaseReturns, IdentityDeployDegrades,
           ContractMissing, DeployThrows, EnvironmentMoves, EnvSettles, EnvFails, StartSucceeds,
           StartNetworkFails, StartWalletFails, WalletCleanupEnds, StartRejects, EnvironmentDies,
           StopSucceeds, StopFails, ForgetStart, ForgetEnvironment, ReceiveSignal,
           TeardownProceeds, TakeBacking, TakeIdentity, TakeEnvironment, StopEnvironment, Exit, envVars
<1> QED BY <1>2, <1>3

LEMMA ExitStep == ServeInv /\ ExitInv /\ [Next]_vars => ExitInv'
<1>1. ASSUME ServeInv, Next PROVE ExitInv'
  <2>1. SUFFICES ASSUME exited' PROVE ExitInv'
    BY DEF ExitInv
  <2>2. PICK s \in Signal : Exit(s) \/ TakeEnvironment(s)
    BY <1>1, <2>1 DEF Next, Arrive, Disconnect, HandlerProceeds, Refuse, Dispatch, OpeningDegraded,
          PublishKey, CallCircuit, CircuitAnswers, CircuitDegrades, AttemptMoves, EnvironmentMoves,
          ReceiveSignal, TeardownProceeds, TakeBacking, TakeIdentity, StopEnvironment, signalVars
  <2>3. CASE Exit(s)
    BY <2>3 DEF Exit, ExitInv, ShutdownReturned, envVars
  <2>4. CASE TakeEnvironment(s)
    <3>1. teardown'[s] = "environment" /\ pending'[s] = None
      BY <1>1, <2>1, <2>4 DEF TakeEnvironment, ServeInv, TypeOK
    <3> QED
      BY <3>1 DEF ExitInv, ShutdownReturned
  <2> QED
    BY <2>2, <2>3, <2>4
<1>2. ASSUME ExitInv, UNCHANGED vars PROVE ExitInv'
  BY <1>2 DEF ExitInv, ShutdownReturned, vars, envVars, signalVars
<1> QED BY <1>1, <1>2

\* A process that one signal ends leaves nothing running behind, whoever was
\* still starting a network when it came: only one that refused to stop
\* (realProofPort.ts, shutdownRealPorts(), under serve.ts's handler).
THEOREM OneSignalLeavesNothing == Safety => [](OneSignal => NothingRunsAtExit)
<1> DEFINE ExitingInv == CustodyInv /\ ExitInv /\ (OneSignal => DrainInv /\ EmptyInv)
<1>1. Init => ExitingInv
  BY DEF Init, EnvInit, PortInit, CustodyInv, Running, ExitInv, DrainInv, EmptyInv, InFlight
<1>2. ServeInv /\ ContractInv /\ ExitingInv /\ [Next]_vars => ExitingInv'
  BY CustodyStep, DrainStep, EmptyStep, ExitStep DEF ContractInv, OneSignal
<1>3. ServeInv /\ ExitingInv => (OneSignal => NothingRunsAtExit)
  <2>1. SUFFICES ASSUME ServeInv, ExitingInv, OneSignal, exited, NEW e \in Call, Occupies(e),
                        env[e] \notin OutOfReach
                 PROVE  FALSE
    BY DEF NothingRunsAtExit
  <2>2. PICK s \in Signal : teardown[s] = "environment" /\ ShutdownReturned(pending[s])
    BY <2>1 DEF ExitInv
  <2>3. Kept(e)
    BY <2>1 DEF CustodyInv, Running, Occupies
  <2>4. environmentPromise # e /\ \A a \in Call : attempt[a] # "releasing"
    BY <2>1, <2>2, NoneIsNoCall DEF EmptyInv, DrainInv, InFlight
  <2>5. pending[s] = e
    BY <2>1, <2>3, <2>4 DEF Kept, BeingStopped, OneSignal
  <2> QED
    BY <2>1, <2>2, <2>5, NoneIsNoCall DEF ShutdownReturned, Occupies
<1> HIDE DEF ExitingInv
<1> QED
  BY <1>1, <1>2, <1>3, ServeInvariant, ContractInvariant, PTL DEF Safety
----------------------------------------------------------------------------
(***************************************************************************)
(* How far the two disagreements with the comments reach (the runs         *)
(* ServeTwoNetworks and ServeStaleIdentity).  A network is lost to its     *)
(* memo only by being taken to be shut down, and who took it stays         *)
(* recorded: releasing[b] is never written twice.                          *)
(***************************************************************************)
TakenByBacking(e) == \E b \in BackingCall : releasing[b] = e

TakenInv ==
  /\ \A a \in Call : attempt[a] \notin {"releasing", "degraded"} => releasing[a] = None
  /\ ~TearingDown =>
       \A e \in Call : env[e] \in {"stopping", "stopped", "leaked"} => TakenByBacking(e)

StartedInv ==
  \A a \in Call : attempt[a] \in {"deploying", "ok"} => StartedOk(attemptEnv[a])

\* No backing deploy has degraded on a network, and no signal has got as far
\* as the ports.
NothingTaken == ~TearingDown /\ \A b \in BackingCall : releasing[b] = None

\* Every start that failed took its network down again.
NothingLeftOver == \A e \in Call : env[e] # "leftover"

\* Of two networks one is on its way out: somebody has taken it and waits for
\* it to stop, or nobody has a handle on it.
Leaving(e) == env[e] \in OutOfReach \/ BeingStopped(e)

OneNetworkStays ==
  \A e, f \in Call : Occupies(e) /\ Occupies(f) /\ e # f => Leaving(e) \/ Leaving(f)

\* The memoised identity deployment stands on a network nobody has shut down,
\* or on one that a degraded backing deploy took away.
OnlyBackingTakesTheNetwork ==
  LET a == deploymentPromise["identity"]
  IN ~TearingDown /\ a # None /\ attempt[a] = "ok" =>
       env[attemptEnv[a]] \in {"up", "dead"} \/ TakenByBacking(attemptEnv[a])

LEMMA BackingAreRequests == BackingCall \subseteq Call
BY CallsArePartitioned

LEMMA StartedStep == ServeInv /\ StartedInv /\ [Next]_vars => StartedInv'
<1>1. ASSUME ServeInv, StartedInv, Next, NEW a \in Call, attempt'[a] \in {"deploying", "ok"}
      PROVE  StartedOk(attemptEnv[a])'
  <2> USE <1>1 DEF ServeInv, TypeOK, PortTypeOK
  <2>1. CASE EnvironmentStarted(a)
    BY <2>1 DEF EnvironmentStarted, StartedOk, envVars
  <2>2. CASE ~EnvironmentStarted(a)
    <3>1. attempt[a] \in {"deploying", "ok"} /\ attemptEnv'[a] = attemptEnv[a]
      BY <2>2 DEF Next, Arrive, Disconnect, HandlerProceeds, Refuse, Dispatch, JoinDeployment,
                  OpeningDegraded, PublishKey, CallCircuit, CircuitAnswers, CircuitDegrades,
                  AttemptMoves, AttemptProceeds, AttemptFails, ContractLoads, EnvironmentStarted,
                  EnvironmentUnavailable, DeploySucceeds, BackingDeployDegrades, ReleaseStops,
                  ReleaseReturns, IdentityDeployDegrades, ContractMissing, DeployThrows,
                  SettleDegraded, EnvironmentMoves, ReceiveSignal, TeardownProceeds, TakeBacking,
                  TakeIdentity, TakeDeployment, TakeEnvironment, StopEnvironment, Exit, portVars
    <3>2. StartedOk(attemptEnv[a]) /\ attemptEnv[a] \in Call
      BY <3>1 DEF StartedInv, PortInv, AttemptInv
    <3>3. StartedOk(attemptEnv[a])' <=> env'[attemptEnv[a]] \in {"up", "dead", "stopping", "stopped", "leaked"}
      BY <3>1 DEF StartedOk
    <3> QED
      BY <3>2, <3>3, StartedIsForGood DEF StartedOk
  <2> QED BY <2>1, <2>2
<1>2. ASSUME StartedInv, UNCHANGED vars PROVE StartedInv'
  BY <1>2 DEF StartedInv, StartedOk, vars, envVars, portVars
<1> QED BY <1>1, <1>2 DEF StartedInv

\* An attempt takes a network once, and what it took it keeps on record.
LEMMA ReleasingIsKept ==
  ASSUME ServeInv, TakenInv, Next, NEW a \in Call
  PROVE  /\ releasing[a] # None => releasing'[a] = releasing[a]
         /\ attempt'[a] \notin {"releasing", "degraded"} => releasing'[a] = None
<1> USE DEF ServeInv, TypeOK, PortTypeOK, TakenInv
<1>1. CASE \E b \in Call : AttemptMoves(b)
  BY <1>1 DEF AttemptMoves, AttemptProceeds, AttemptFails, ContractLoads, EnvironmentStarted,
              EnvironmentUnavailable, DeploySucceeds, BackingDeployDegrades, ReleaseStops,
              ReleaseReturns, IdentityDeployDegrades, ContractMissing, DeployThrows,
              SettleDegraded, portVars
<1>2. CASE \E c \in Call : Dispatch(c)
  BY <1>2 DEF Dispatch, JoinDeployment, PortInv, FreshInv
<1>3. CASE UNCHANGED <<attempt, releasing>>
  BY <1>3
<1> QED
  BY <1>1, <1>2, <1>3
     DEF Next, Arrive, Disconnect, HandlerProceeds, Refuse, OpeningDegraded, PublishKey,
         CallCircuit, CircuitAnswers, CircuitDegrades, EnvironmentMoves, ReceiveSignal,
         TeardownProceeds, TakeBacking, TakeIdentity, TakeDeployment, TakeEnvironment,
         StopEnvironment, Exit, portVars

LEMMA TakenStep == ServeInv /\ TakenInv /\ [Next]_vars => TakenInv'
<1>1. ASSUME ServeInv, TakenInv, Next, ~TearingDown',
             NEW e \in Call, env'[e] \in {"stopping", "stopped", "leaked"}
      PROVE  TakenByBacking(e)'
  <2> USE <1>1 DEF ServeInv, TypeOK, EnvTypeOK
  <2>1. ~TearingDown
    BY TearingIsForGood
  <2>2. CASE env[e] \in {"stopping", "stopped", "leaked"}
    BY <2>1, <2>2, ReleasingIsKept, BackingAreRequests, NoneIsNoCall DEF TakenInv, TakenByBacking
  <2>3. CASE env[e] \notin {"stopping", "stopped", "leaked"}
    <3>1. PICK b \in Call : ReleaseStops(b)
      BY <2>1, <2>3
         DEF Next, Arrive, Disconnect, HandlerProceeds, Refuse, Dispatch, OpeningDegraded,
             PublishKey, CallCircuit, CircuitAnswers, CircuitDegrades, AttemptMoves,
             AttemptProceeds, AttemptFails, ContractLoads, JoinEnvironment, EnvironmentStarted,
             EnvironmentUnavailable, DeploySucceeds, BackingDeployDegrades, ReleaseReturns,
             IdentityDeployDegrades, ContractMissing, DeployThrows, EnvironmentMoves, EnvSettles,
             EnvFails, StartSucceeds, StartNetworkFails, StartWalletFails, WalletCleanupEnds,
             StartRejects, EnvironmentDies, StopSucceeds, StopFails, ReceiveSignal,
             TeardownProceeds, TakeBacking, TakeIdentity, TakeEnvironment, StopEnvironment, Exit,
             TearingDown, envVars
    <3>2. b \in BackingCall /\ releasing[b] = e /\ UNCHANGED releasing
      BY <2>3, <3>1 DEF ReleaseStops, BeginStop, PortInv, AttemptInv, portVars
    <3> QED
      BY <3>2 DEF TakenByBacking
  <2> QED BY <2>2, <2>3
<1>2. ASSUME ServeInv, TakenInv, Next PROVE TakenInv'
  BY <1>1, <1>2, ReleasingIsKept DEF TakenInv
<1>3. ASSUME TakenInv, UNCHANGED vars PROVE TakenInv'
  BY <1>3 DEF TakenInv, TakenByBacking, TearingDown, vars, envVars, portVars, signalVars
<1> QED BY <1>2, <1>3

LEMMA TakenInvariant == Safety => [](ServeInv /\ TakenInv /\ StartedInv /\ CustodyInv)
<1>1. Init => TakenInv /\ StartedInv /\ CustodyInv
  BY DEF Init, EnvInit, PortInit, TakenInv, StartedInv, CustodyInv, Running
<1> QED
  BY <1>1, TakenStep, StartedStep, CustodyStep, ServeInvariant, PTL DEF Safety

\* Two networks run side by side only while one of them is being shut down, or
\* if it refused to be, or if it is what a failed start left: never two that
\* somebody may still be handed, however often the process is told to stop
\* (sharedEnvironment.ts, whose header says there is never a second at all).
THEOREM OneNetworkIsHandedOut == Safety => []OneNetworkStays
<1>1. CustodyInv => OneNetworkStays
  BY DEF CustodyInv, Running, Kept, BeingStopped, Occupies, Leaving, OneNetworkStays
<1> QED BY <1>1, TakenInvariant, PTL

\* The identity deployment loses its network to a backing deploy that degraded
\* and to nothing else (realProofPort.ts, openDeployment()).
THEOREM IdentityLosesItsNetworkToBacking == Safety => []OnlyBackingTakesTheNetwork
<1>1. ASSUME ServeInv, TakenInv, StartedInv PROVE OnlyBackingTakesTheNetwork
  <2>1. SUFFICES ASSUME NEW a \in Call, deploymentPromise["identity"] = a, ~TearingDown,
                        attempt[a] = "ok"
                 PROVE  env[attemptEnv[a]] \in {"up", "dead"} \/ TakenByBacking(attemptEnv[a])
    BY <1>1 DEF OnlyBackingTakesTheNetwork, ServeInv, TypeOK, PortTypeOK, Port
  <2>2. StartedOk(attemptEnv[a]) /\ attemptEnv[a] \in Call
    BY <1>1, <2>1 DEF StartedInv, ServeInv, PortInv, AttemptInv
  <2> QED
    BY <1>1, <2>1, <2>2 DEF TakenInv, StartedOk
<1> QED BY <1>1, TakenInvariant, PTL

\* Until a backing deploy degrades or a teardown begins, the identity deployment
\* handed out is a live one (realIdentityPort.ts:129-130), and there is one
\* network (sharedEnvironment.ts:4-6) as long as no failed start has left its
\* own up, which localEnvironment.ts does not exclude: it swallows the error of
\* its clean-up.
THEOREM CommentsHoldUntilSomethingIsTaken ==
  Safety => [](NothingTaken => /\ IdentityDeploymentLive
                               /\ NothingLeftOver => OneEnvironment)
<1>1. ASSUME ServeInv, TakenInv, CustodyInv, NothingTaken, NothingLeftOver PROVE OneEnvironment
  <2>1. ASSUME NEW e \in Call, Occupies(e) PROVE environmentPromise = e
    <3>1. env[e] \notin OutOfReach
      BY <1>1, <2>1, NoneIsNoCall DEF NothingTaken, NothingLeftOver, TakenInv, TakenByBacking
    <3>2. Kept(e)
      BY <1>1, <2>1, <3>1 DEF CustodyInv, Running, Occupies
    <3> QED
      BY <1>1, <3>2, NoneIsNoCall
         DEF Kept, BeingStopped, NothingTaken, TearingDown, ServeInv, PortInv, AttemptInv
  <2> QED BY <2>1 DEF OneEnvironment
<1>2. ASSUME ServeInv, TakenInv, StartedInv, NothingTaken PROVE IdentityDeploymentLive
  <2>1. SUFFICES ASSUME NEW a \in Call, deploymentPromise["identity"] = a, attempt[a] = "ok"
                 PROVE  env[attemptEnv[a]] \in {"up", "dead"}
    BY <1>2 DEF IdentityDeploymentLive, ServeInv, TypeOK, PortTypeOK, Port
  <2>2. StartedOk(attemptEnv[a]) /\ attemptEnv[a] \in Call
    BY <1>2, <2>1 DEF StartedInv, ServeInv, PortInv, AttemptInv
  <2> QED
    BY <1>2, <2>2, NoneIsNoCall DEF NothingTaken, TakenInv, TakenByBacking, StartedOk
<1> QED BY <1>1, <1>2, TakenInvariant, PTL

----------------------------------------------------------------------------
(***************************************************************************)
(* No deadlock.  Liveness is out of the prover's reach, but not that every *)
(* wait is for something that began and that can move.                     *)
(***************************************************************************)
\* The guards of what the event loop and the world do of their own accord
\* (EnvSettles, AttemptProceeds).
StartCanMove(e) == e # None /\ env[e] \in {"starting", "cleaning", "stopping"}

AttemptCanMove(a) ==
  \/ attempt[a] \in {"loading", "deploying"}
  \/ /\ attempt[a] = "awaitEnv"
     /\ StartedOk(attemptEnv[a]) \/ env[attemptEnv[a]] \in FailedStart \cup {"rejected"}
  \/ /\ attempt[a] = "releasing"
     /\ ShutdownReturned(releasing[a]) \/ env[releasing[a]] \in {"up", "dead"}

\* Whoever awaits attempt a has its result, or a or the start it awaits can move.
Ending(a) ==
  \/ AttemptSettled(a)
  \/ AttemptCanMove(a)
  \/ attempt[a] = "awaitEnv" /\ StartCanMove(attemptEnv[a])
  \/ attempt[a] = "releasing" /\ StartCanMove(releasing[a])

\* Along every chain of waits, from a handler or a signal's handler to an
\* attempt and from there to a start or a shutdown, somebody can move.
EveryWaitCanEnd ==
  /\ \A c \in Call :
       /\ handler[c] = "opening" => Ending(joined[c])
       /\ handler[c] = "calling" => attempt[joined[c]] = "ok" /\ StartedOk(attemptEnv[joined[c]])
  /\ \A s \in Signal : pending[s] # None =>
       /\ teardown[s] \in {"backing", "identity"} => Ending(pending[s])
       /\ teardown[s] = "environment" =>
            \/ ShutdownReturned(pending[s])
            \/ env[pending[s]] \in {"up", "dead"}
            \/ StartCanMove(pending[s])

\* What is awaited has begun.
BegunInv ==
  /\ \A a \in Call :
       /\ attempt[a] = "awaitEnv" => env[attemptEnv[a]] # "unused"
       /\ handler[a] = "opening" => attempt[joined[a]] # "unused"
       /\ handler[a] = "calling" => attempt[joined[a]] = "ok"
  /\ \A s \in Signal : teardown[s] \in {"backing", "identity"} /\ pending[s] # None =>
       attempt[pending[s]] # "unused"

\* Nothing that began is as if it had not.
LEMMA BegunIsForGood ==
  ASSUME ServeInv, Next, NEW a \in Call
  PROVE  /\ attempt[a] # "unused" => attempt'[a] # "unused"
         /\ env[a] # "unused" => env'[a] # "unused"
<1> USE DEF ServeInv, TypeOK, EnvTypeOK, PortTypeOK
<1>1. CASE \E b \in Call : AttemptMoves(b)
  BY <1>1 DEF AttemptMoves, AttemptProceeds, AttemptFails, ContractLoads, JoinEnvironment,
              EnvironmentStarted, EnvironmentUnavailable, DeploySucceeds, BackingDeployDegrades,
              ReleaseStops, BeginStop, ReleaseReturns, IdentityDeployDegrades, ContractMissing,
              DeployThrows, SettleDegraded, envVars, portVars
<1>2. CASE \E e \in Call : EnvironmentMoves(e)
  BY <1>2 DEF EnvironmentMoves, EnvSettles, EnvFails, StartSucceeds, StartNetworkFails,
              StartWalletFails, WalletCleanupEnds, StartRejects, EnvironmentDies,
              StopSucceeds, StopFails, portVars
<1>3. CASE \E c \in Call : Dispatch(c)
  BY <1>3 DEF Dispatch, JoinDeployment, envVars
<1>4. CASE \E s \in Signal : StopEnvironment(s)
  BY <1>4 DEF StopEnvironment, BeginStop, portVars
<1>5. CASE UNCHANGED <<attempt, env>>
  BY <1>5
<1> QED
  BY <1>1, <1>2, <1>3, <1>4, <1>5
     DEF Next, Arrive, Disconnect, HandlerProceeds, Refuse, OpeningDegraded, PublishKey,
         CallCircuit, CircuitAnswers, CircuitDegrades, ReceiveSignal, TeardownProceeds,
         TakeBacking, TakeIdentity, TakeDeployment, TakeEnvironment, Exit, envVars, portVars

LEMMA BegunStep == ServeInv /\ HandlerInv /\ BegunInv /\ [Next]_vars => BegunInv'
<1> USE DEF ServeInv, TypeOK, EnvTypeOK, PortTypeOK
<1>1. ASSUME ServeInv, BegunInv, Next, NEW a \in Call, attempt'[a] = "awaitEnv"
      PROVE  env'[attemptEnv'[a]] # "unused"
  <2>1. CASE ContractLoads(a)
    BY <1>1, <2>1, NoneIsNoCall
       DEF ContractLoads, JoinEnvironment, EnvironmentFor, NetworkInv
  <2>2. CASE ~ContractLoads(a)
    <3>1. attempt[a] = "awaitEnv" /\ attemptEnv'[a] = attemptEnv[a]
      BY <1>1, <2>2
         DEF Next, Arrive, Disconnect, HandlerProceeds, Refuse, Dispatch, JoinDeployment,
             OpeningDegraded, PublishKey, CallCircuit, CircuitAnswers, CircuitDegrades,
             AttemptMoves, AttemptProceeds, AttemptFails, ContractLoads, EnvironmentStarted,
             EnvironmentUnavailable, DeploySucceeds, BackingDeployDegrades, ReleaseStops,
             ReleaseReturns, IdentityDeployDegrades, ContractMissing, DeployThrows,
             SettleDegraded, EnvironmentMoves, ReceiveSignal, TeardownProceeds, TakeBacking,
             TakeIdentity, TakeDeployment, TakeEnvironment, StopEnvironment, Exit, portVars
    <3>2. attemptEnv[a] \in Call /\ env[attemptEnv[a]] # "unused"
      BY <1>1, <3>1 DEF BegunInv, PortInv, AttemptInv
    <3> QED
      BY <1>1, <3>1, <3>2, BegunIsForGood
  <2> QED BY <2>1, <2>2
<1>2. ASSUME ServeInv, HandlerInv, BegunInv, Next, NEW c \in Call,
             handler'[c] \in {"opening", "calling"}
      PROVE  /\ handler'[c] = "opening" => attempt'[joined'[c]] # "unused"
             /\ handler'[c] = "calling" => attempt'[joined'[c]] = "ok"
  <2>1. CASE Dispatch(c)
    <3>1. joined'[c] = DeploymentFor(c) /\ handler'[c] = "opening"
      BY <1>2, <2>1 DEF Dispatch
    <3>2. CASE deploymentPromise[PortOf(c)] = None
      BY <1>2, <2>1, <3>1, <3>2 DEF Dispatch, JoinDeployment, DeploymentFor
    <3>3. CASE deploymentPromise[PortOf(c)] # None
      <4>1. /\ deploymentPromise[PortOf(c)] \in Call
            /\ attempt[deploymentPromise[PortOf(c)]] # "unused"
        BY <1>2, <3>3 DEF PortInv, MemoInv, PortOf, Port
      <4> QED
        BY <1>2, <3>1, <3>3, <4>1, BegunIsForGood DEF DeploymentFor
    <3> QED BY <3>2, <3>3
  <2>2. CASE CallCircuit(c)
    BY <1>2, <2>2 DEF CallCircuit, portVars
  <2>3. CASE ~Dispatch(c) /\ ~CallCircuit(c)
    <3>1. handler[c] = handler'[c] /\ joined'[c] = joined[c]
      BY <1>2, <2>3, OnlyRequestsMoveHandlers
         DEF Arrive, Disconnect, HandlerProceeds, Refuse, Dispatch, OpeningDegraded, PublishKey,
             CallCircuit, CircuitAnswers, CircuitDegrades, Respond
    <3>2. joined[c] \in Call
      BY <1>2, <3>1 DEF HandlerInv
    <3> QED
      BY <1>2, <3>1, <3>2, BegunIsForGood, OkIsForGood DEF BegunInv
  <2> QED BY <2>1, <2>2, <2>3
<1>3. ASSUME ServeInv, BegunInv, Next, NEW s \in Signal,
             teardown'[s] \in {"backing", "identity"}, pending'[s] # None
      PROVE  attempt'[pending'[s]] # "unused"
  <2>1. CASE TakeBacking(s) \/ TakeIdentity(s)
    BY <1>3, <2>1 DEF TakeBacking, TakeIdentity, TakeDeployment, PortInv, MemoInv, Port
  <2>2. CASE ~(TakeBacking(s) \/ TakeIdentity(s))
    <3>1. teardown[s] = teardown'[s] /\ pending'[s] = pending[s]
      BY <1>3, <2>2
         DEF Next, Arrive, Disconnect, HandlerProceeds, Refuse, Dispatch, OpeningDegraded,
             PublishKey, CallCircuit, CircuitAnswers, CircuitDegrades, AttemptMoves,
             EnvironmentMoves, ReceiveSignal, TeardownProceeds, TakeBacking, TakeIdentity,
             TakeDeployment, TakeEnvironment, StopEnvironment, Exit, signalVars
    <3> QED
      BY <1>3, <3>1, BegunIsForGood DEF BegunInv
  <2> QED BY <2>1, <2>2
<1>4. ASSUME BegunInv, UNCHANGED vars PROVE BegunInv'
  BY <1>4 DEF BegunInv, vars, envVars, portVars, serveVars, signalVars
<1> QED BY <1>1, <1>2, <1>3, <1>4 DEF BegunInv

LEMMA EndingIs ==
  ASSUME ServeInv, BegunInv, NEW a \in Call, attempt[a] # "unused" PROVE Ending(a)
<1> USE DEF ServeInv, TypeOK, EnvTypeOK, PortTypeOK, EnvPhase, AttemptPhase
<1>1. CASE attempt[a] = "awaitEnv"
  <2>1. attemptEnv[a] \in Call /\ env[attemptEnv[a]] # "unused"
    BY <1>1 DEF PortInv, AttemptInv, BegunInv
  <2> QED
    BY <1>1, <2>1, NoneIsNoCall DEF Ending, AttemptCanMove, StartCanMove, StartedOk
<1>2. CASE attempt[a] = "releasing"
  <2>1. releasing[a] # None => releasing[a] \in Call /\ env[releasing[a]] # "unused"
    BY <1>2 DEF NetworkInv, Taken
  <2> QED
    BY <1>2, <2>1 DEF Ending, AttemptCanMove, StartCanMove, ShutdownReturned
<1>3. CASE attempt[a] \notin {"awaitEnv", "releasing"}
  BY <1>3 DEF Ending, AttemptCanMove, AttemptSettled
<1> QED BY <1>1, <1>2, <1>3

\* A handler that awaits a deployment somebody else began, and a signal's
\* handler that awaits what it took, never wait on a promise that nobody will
\* settle, whatever failed before (proofServer.ts, realProofPort.ts).
THEOREM NobodyIsStuck == Safety => []EveryWaitCanEnd
<1>1. Init => BegunInv
  BY DEF Init, PortInit, BegunInv
<1>2. ServeInv /\ ContractInv /\ StartedInv /\ BegunInv => EveryWaitCanEnd
  <2> SUFFICES ASSUME ServeInv, HandlerInv, StartedInv, BegunInv PROVE EveryWaitCanEnd
    BY DEF ContractInv
  <2>1. ASSUME NEW c \in Call, handler[c] = "opening" PROVE Ending(joined[c])
    BY <2>1, EndingIs DEF BegunInv, HandlerInv
  <2>2. ASSUME NEW c \in Call, handler[c] = "calling"
        PROVE  attempt[joined[c]] = "ok" /\ StartedOk(attemptEnv[joined[c]])
    BY <2>2 DEF BegunInv, HandlerInv, StartedInv
  <2>3. ASSUME NEW s \in Signal, pending[s] # None, teardown[s] \in {"backing", "identity"}
        PROVE  Ending(pending[s])
    BY <2>3, EndingIs DEF BegunInv, ServeInv, TypeOK
  <2>4. ASSUME NEW s \in Signal, pending[s] # None, teardown[s] = "environment"
        PROVE  \/ ShutdownReturned(pending[s])
               \/ env[pending[s]] \in {"up", "dead"}
               \/ StartCanMove(pending[s])
    <3>1. pending[s] \in Call /\ env[pending[s]] # "unused"
      BY <2>4 DEF ServeInv, TypeOK, NetworkInv, Taken
    <3> QED
      BY <2>4, <3>1 DEF ServeInv, TypeOK, EnvTypeOK, EnvPhase, ShutdownReturned, StartCanMove
  <2> QED BY <2>1, <2>2, <2>3, <2>4 DEF EveryWaitCanEnd
<1>3. ServeInv /\ ContractInv /\ BegunInv /\ [Next]_vars => BegunInv'
  BY BegunStep DEF ContractInv
<1> QED
  BY <1>1, <1>2, <1>3, TakenInvariant, ContractInvariant, PTL DEF Safety
=============================================================================
