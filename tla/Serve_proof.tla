---------------------------- MODULE Serve_proof ----------------------------
(***************************************************************************)
(* Proofs about Serve, for any set of requests, any number of failures and *)
(* any number of signals.                                                  *)
(***************************************************************************)
EXTENDS Serve, TLAPS

\* Two names for small sets of phases, read everywhere as what they stand for.
USE DEF FailedStart, OutOfReach

LEMMA TypeInit == Init => TypeOK
<1> SUFFICES ASSUME Init PROVE TypeOK
  OBVIOUS
<1>1. EnvTypeOK
  BY MaxFaultsIsNat DEF Init, EnvInit, EnvTypeOK, EnvPhase
<1>2. PortTypeOK
  BY DEF Init, PortInit, PortTypeOK, AttemptPhase
<1>3. QED
  BY <1>1, <1>2 DEF Init, TypeOK, HandlerPhase, TeardownPhase

\* A degraded settlement keeps the types of the memo and of the attempts.
LEMMA SettleDegradedTypes ==
  ASSUME PortTypeOK, NEW a \in Call, SettleDegraded(a)
  PROVE  /\ attempt' \in [Call -> AttemptPhase]
         /\ deploymentPromise' \in [Port -> Call \cup {None}]
BY DEF PortTypeOK, SettleDegraded, AttemptPhase

LEMMA FaultTypes == ASSUME EnvTypeOK, NEW k, Fault(k) PROVE faults' \in 0..MaxFaults
BY MaxFaultsIsNat DEF EnvTypeOK, Fault

LEMMA EnvironmentTypes ==
  ASSUME TypeOK, NEW e \in Call, EnvironmentMoves(e) PROVE TypeOK'
<1>1. EnvTypeOK'
  BY FaultTypes
     DEF TypeOK, EnvTypeOK, EnvironmentMoves, EnvSettles, EnvFails, EnvPhase,
         StartSucceeds, StartNetworkFails, StartWalletFails, WalletCleanupEnds,
         StartRejects, EnvironmentDies, StopSucceeds, StopFails, ForgetStart
<1>2. QED
  BY <1>1 DEF TypeOK, EnvironmentMoves, PortTypeOK, portVars, serveVars, signalVars

LEMMA AttemptTypes ==
  ASSUME TypeOK, NEW a \in Call, AttemptMoves(a) PROVE TypeOK'
<1>1. EnvTypeOK' /\ PortTypeOK'
  <2>1. CASE ContractLoads(a)
    BY <2>1 DEF TypeOK, EnvTypeOK, PortTypeOK, ContractLoads, JoinEnvironment,
                EnvironmentFor, EnvPhase, AttemptPhase
  <2>2. CASE EnvironmentStarted(a) \/ DeploySucceeds(a)
    BY <2>2 DEF TypeOK, EnvTypeOK, PortTypeOK, EnvironmentStarted, DeploySucceeds,
                AttemptPhase, envVars
  <2>3. CASE EnvironmentUnavailable(a)
    BY <2>3, SettleDegradedTypes DEF TypeOK, EnvTypeOK, PortTypeOK, EnvironmentUnavailable, envVars
  <2>4. CASE BackingDeployDegrades(a)
    BY <2>4, FaultTypes DEF TypeOK, EnvTypeOK, PortTypeOK, BackingDeployDegrades, DeployFailure,
                ForgetEnvironment, AttemptPhase
  <2>5. CASE ReleaseStops(a)
    BY <2>5 DEF TypeOK, EnvTypeOK, PortTypeOK, ReleaseStops, BeginStop, EnvPhase, portVars
  <2>6. CASE ReleaseReturns(a)
    BY <2>6, SettleDegradedTypes DEF TypeOK, EnvTypeOK, PortTypeOK, ReleaseReturns, envVars
  <2>7. CASE IdentityDeployDegrades(a)
    BY <2>7, SettleDegradedTypes, FaultTypes
       DEF TypeOK, EnvTypeOK, PortTypeOK, IdentityDeployDegrades, DeployFailure
  <2>8. CASE ContractMissing(a) \/ DeployThrows(a)
    BY <2>8, SettleDegradedTypes, FaultTypes
       DEF TypeOK, EnvTypeOK, PortTypeOK, ContractMissing, DeployThrows
  <2>9. QED
    BY <2>1, <2>2, <2>3, <2>4, <2>5, <2>6, <2>7, <2>8
       DEF AttemptMoves, AttemptProceeds, AttemptFails
<1>2. QED
  BY <1>1 DEF TypeOK, AttemptMoves, serveVars, signalVars

LEMMA HandlerTypes ==
  ASSUME TypeOK, NEW c \in Call, HandlerProceeds(c) PROVE TypeOK'
<1> USE DEF TypeOK, HandlerPhase
<1>1. CASE Refuse(c)
  BY <1>1 DEF Refuse, Respond, EnvTypeOK, PortTypeOK, envVars, portVars, signalVars
<1>2. CASE Dispatch(c)
  BY <1>2 DEF Dispatch, JoinDeployment, DeploymentFor, Port, PortOf, AttemptPhase,
              EnvTypeOK, PortTypeOK, envVars, signalVars
<1>3. CASE OpeningDegraded(c)
  BY <1>3 DEF OpeningDegraded, Respond, EnvTypeOK, PortTypeOK, envVars, portVars, signalVars
<1>4. CASE PublishKey(c)
  BY <1>4 DEF PublishKey, Respond, EnvTypeOK, PortTypeOK, envVars, portVars, signalVars
<1>5. CASE CallCircuit(c)
  BY <1>5 DEF CallCircuit, EnvTypeOK, PortTypeOK, envVars, portVars, signalVars
<1>6. CASE CircuitAnswers(c)
  BY <1>6 DEF CircuitAnswers, Respond, EnvTypeOK, PortTypeOK, envVars, portVars, signalVars
<1>7. CASE CircuitDegrades(c)
  BY <1>7, FaultTypes DEF CircuitDegrades, Respond, EnvTypeOK, PortTypeOK, portVars, signalVars
<1>8. QED
  BY <1>1, <1>2, <1>3, <1>4, <1>5, <1>6, <1>7 DEF HandlerProceeds

LEMMA ClientTypes ==
  ASSUME TypeOK, NEW c \in Call, Arrive(c) \/ Disconnect(c) PROVE TypeOK'
<1> USE DEF TypeOK, HandlerPhase, EnvTypeOK, PortTypeOK, envVars, portVars, signalVars
<1>1. CASE Arrive(c)
  <2>1. PICK k \in (IF c \in CheckCall THEN PublishedKeys ELSE {}) \cup {None} :
               issuerKey' = [issuerKey EXCEPT ![c] = k]
    BY <1>1 DEF Arrive
  <2>2. IssuerCall \subseteq Call
    BY IssuerCallsAreIdentity, CallsArePartitioned
  <2>3. k \in Call \cup {None}
    BY <2>1, <2>2 DEF PublishedKeys
  <2>4. issuerKey' \in [Call -> Call \cup {None}]
    BY <2>1, <2>3
  <2>5. QED
    BY <1>1, <2>4 DEF Arrive
<1>2. CASE Disconnect(c)
  BY <1>2 DEF Disconnect
<1>3. QED
  BY <1>1, <1>2

LEMMA SignalTypes ==
  ASSUME TypeOK, NEW s \in Signal, ReceiveSignal(s) \/ TeardownProceeds(s) PROVE TypeOK'
<1> USE DEF TypeOK, TeardownPhase, EnvTypeOK, PortTypeOK, envVars, portVars, serveVars
<1>1. CASE ReceiveSignal(s)
  BY <1>1 DEF ReceiveSignal
<1>2. CASE TakeBacking(s) \/ TakeIdentity(s)
  BY <1>2 DEF TakeBacking, TakeIdentity, TakeDeployment, Port
<1>3. CASE TakeEnvironment(s)
  BY <1>3 DEF TakeEnvironment, ForgetEnvironment
<1>4. CASE StopEnvironment(s)
  BY <1>4 DEF StopEnvironment, BeginStop, EnvPhase, signalVars
<1>5. CASE Exit(s)
  BY <1>5 DEF Exit
<1>6. QED
  BY <1>1, <1>2, <1>3, <1>4, <1>5 DEF TeardownProceeds

LEMMA TypeStep == TypeOK /\ [Next]_vars => TypeOK'
<1>1. ASSUME TypeOK, Next PROVE TypeOK'
  BY <1>1, EnvironmentTypes, AttemptTypes, HandlerTypes, ClientTypes, SignalTypes DEF Next
<1>2. TypeOK /\ UNCHANGED vars => TypeOK'
  BY DEF vars, envVars, portVars, serveVars, signalVars, TypeOK, EnvTypeOK, PortTypeOK
<1>3. QED
  BY <1>1, <1>2

\* Every variable of the process keeps its type.
THEOREM TypeCorrect == Safety => []TypeOK
BY TypeInit, TypeStep, PTL DEF Safety

----------------------------------------------------------------------------
(***************************************************************************)
(* The ports.  PortInv strengthens SingleFlight and BackingDeploymentLive  *)
(* to an inductive invariant: it says which attempts may be memoised, that *)
(* an attempt's name is fresh for the network it may start, and what the   *)
(* environment looks like under the memoised backing attempt at each of    *)
(* its awaits.                                                             *)
(***************************************************************************)
MemoInv ==
  \A p \in Port : deploymentPromise[p] # None =>
    /\ PortOf(deploymentPromise[p]) = p
    /\ attempt[deploymentPromise[p]] \notin {"unused", "degraded"}

FreshInv ==
  \A a \in Call :
    /\ handler[a] \in {"idle", "receiving"} => attempt[a] = "unused"
    /\ attempt[a] \in {"unused", "loading"} => env[a] = "unused"

AttemptInv ==
  \A a \in Call :
    /\ attempt[a] \in {"awaitEnv", "deploying", "releasing", "ok"} => attemptEnv[a] \in Call
    /\ attempt[a] = "releasing" => a \in BackingCall

\* The shared environment seen from the memoised backing attempt.
BackingEnvInv ==
  LET a == deploymentPromise["backing"]
      e == attemptEnv[a]
  IN ~TearingDown /\ a # None =>
       /\ attempt[a] \in {"deploying", "ok"} =>
            environmentPromise = e /\ env[e] \in {"up", "dead"}
       /\ attempt[a] = "awaitEnv" =>
            \/ env[e] \in FailedStart \cup {"rejected"}
            \/ environmentPromise = e /\ env[e] \in {"starting", "cleaning", "up", "dead"}

\* The memoised start is one that a caller may still be handed, because
\* whoever took a start to stop it took it out of the memo, and a name is
\* never used for a second start.
Taken(e) == e # None => environmentPromise # e /\ env[e] # "unused"

NetworkInv ==
  /\ environmentPromise # None =>
       env[environmentPromise] \in {"starting", "cleaning", "up", "dead", "rejected"}
  /\ \A a \in Call : attempt[a] = "releasing" => Taken(releasing[a])
  /\ \A s \in Signal : teardown[s] = "environment" => Taken(pending[s])

PortInv == MemoInv /\ FreshInv /\ AttemptInv /\ SingleFlight /\ BackingEnvInv

LEMMA PortInit0 == Init => PortInv
<1> SUFFICES ASSUME Init PROVE PortInv
  OBVIOUS
<1> USE DEF Init, EnvInit, PortInit
<1>1. MemoInv
  BY DEF MemoInv
<1>2. FreshInv /\ AttemptInv
  BY DEF FreshInv, AttemptInv
<1>3. SingleFlight
  BY DEF SingleFlight, InFlight
<1>4. BackingEnvInv
  BY DEF BackingEnvInv, Port
<1>5. QED
  BY <1>1, <1>2, <1>3, <1>4 DEF PortInv

\* Tearing down is never undone.
LEMMA TearingIsForGood ==
  ASSUME TypeOK, Next, TearingDown PROVE TearingDown'
<1>1. PICK s \in Signal : teardown[s] \notin {"idle", "closing"}
  BY DEF TearingDown
<1>2. teardown'[s] \notin {"idle", "closing"}
  <2>1. CASE \E t \in Signal : ReceiveSignal(t) \/ TeardownProceeds(t)
    BY <1>1, <2>1 DEF TypeOK, ReceiveSignal, TeardownProceeds, TakeBacking, TakeIdentity,
                      TakeEnvironment, StopEnvironment, Exit, signalVars
  <2>2. CASE ~\E t \in Signal : ReceiveSignal(t) \/ TeardownProceeds(t)
    <3>1. teardown' = teardown
      BY <2>2 DEF Next, Arrive, Disconnect, HandlerProceeds, Refuse, Dispatch, OpeningDegraded,
                  PublishKey, CallCircuit, CircuitAnswers, CircuitDegrades, AttemptMoves,
                  EnvironmentMoves, signalVars
    <3>2. QED
      BY <1>1, <3>1
  <2>3. QED
    BY <2>1, <2>2
<1>3. QED
  BY <1>2 DEF TearingDown

----------------------------------------------------------------------------
(* A step of the network alone.                                            *)

LEMMA EnvironmentKeepsPortInv ==
  ASSUME TypeOK, PortInv, NEW e \in Call, EnvironmentMoves(e) PROVE PortInv'
<1> USE DEF EnvironmentMoves, portVars, serveVars, signalVars
<1>1. MemoInv' /\ AttemptInv' /\ SingleFlight'
  BY DEF PortInv, MemoInv, AttemptInv, SingleFlight, InFlight, TearingDown
<1>2. FreshInv'
  BY DEF PortInv, FreshInv, TypeOK, EnvTypeOK, EnvSettles, EnvFails,
         StartSucceeds, StartNetworkFails, StartWalletFails, WalletCleanupEnds,
         StartRejects, EnvironmentDies, StopSucceeds, StopFails
<1>3. BackingEnvInv'
  BY NoneIsNoCall
     DEF PortInv, BackingEnvInv, AttemptInv, TearingDown, TypeOK, EnvTypeOK, PortTypeOK, Port,
         EnvSettles, EnvFails, StartSucceeds, StartNetworkFails, StartWalletFails,
         WalletCleanupEnds, StartRejects, EnvironmentDies, StopSucceeds, StopFails, ForgetStart
<1>4. QED
  BY <1>1, <1>2, <1>3 DEF PortInv

----------------------------------------------------------------------------
(* A step of an attempt.                                                   *)

\* Settling degraded disturbs no other attempt and forgets only its own memo.
LEMMA SettleKeepsMemos ==
  ASSUME TypeOK, PortInv, NEW a \in Call, attempt[a] \notin {"unused", "ok"}, SettleDegraded(a)
  PROVE  MemoInv'
BY DEF PortInv, MemoInv, TypeOK, PortTypeOK, SettleDegraded

LEMMA SettleKeepsSingleFlight ==
  ASSUME TypeOK, PortInv, NEW a \in Call, SettleDegraded(a), UNCHANGED teardown
  PROVE  SingleFlight'
<1>1. PortOf(a) \in Port
  BY DEF PortOf, Port
<1>2. QED
  BY <1>1 DEF PortInv, SingleFlight, InFlight, TearingDown, TypeOK, PortTypeOK, SettleDegraded

LEMMA SettleKeepsFresh ==
  ASSUME TypeOK, PortInv, NEW a \in Call, attempt[a] # "unused", SettleDegraded(a),
         UNCHANGED <<handler, env>>
  PROVE  FreshInv'
BY DEF PortInv, FreshInv, TypeOK, PortTypeOK, SettleDegraded

LEMMA SettleKeepsAttempts ==
  ASSUME TypeOK, PortInv, NEW a \in Call, SettleDegraded(a), UNCHANGED <<attemptEnv>>
  PROVE  AttemptInv'
BY DEF PortInv, AttemptInv, TypeOK, PortTypeOK, SettleDegraded

LEMMA SettleKeepsBackingEnv ==
  ASSUME TypeOK, PortInv, NEW a \in Call, SettleDegraded(a),
         UNCHANGED <<attemptEnv, env, environmentPromise, teardown>>
  PROVE  BackingEnvInv'
BY DEF PortInv, MemoInv, BackingEnvInv, TearingDown, TypeOK, PortTypeOK, SettleDegraded, Port, PortOf

LEMMA SettleKeepsPortInv ==
  ASSUME TypeOK, PortInv, NEW a \in Call, attempt[a] \notin {"unused", "ok"}, SettleDegraded(a),
         UNCHANGED <<attemptEnv, env, environmentPromise, handler, teardown>>
  PROVE  PortInv'
BY SettleKeepsMemos, SettleKeepsSingleFlight, SettleKeepsFresh, SettleKeepsAttempts,
   SettleKeepsBackingEnv DEF PortInv

LEMMA ContractLoadsKeepsPortInv ==
  ASSUME TypeOK, PortInv, NetworkInv, NEW a \in Call, ContractLoads(a),
         UNCHANGED <<serveVars, signalVars>>
  PROVE  PortInv'
<1> USE DEF ContractLoads, JoinEnvironment, EnvironmentFor, serveVars, signalVars
<1>1. MemoInv' /\ AttemptInv' /\ SingleFlight'
  BY DEF PortInv, MemoInv, AttemptInv, SingleFlight, InFlight, TearingDown,
         TypeOK, EnvTypeOK, PortTypeOK
<1>2. FreshInv'
  BY DEF PortInv, FreshInv, TypeOK, EnvTypeOK, PortTypeOK
<1>3. BackingEnvInv'
  BY NoneIsNoCall DEF PortInv, MemoInv, FreshInv, AttemptInv, BackingEnvInv, NetworkInv,
         TearingDown, TypeOK, EnvTypeOK, PortTypeOK, Port
<1>4. QED
  BY <1>1, <1>2, <1>3 DEF PortInv

LEMMA AttemptAdvancesKeepsPortInv ==
  ASSUME TypeOK, PortInv, NEW a \in Call, EnvironmentStarted(a) \/ DeploySucceeds(a),
         UNCHANGED <<serveVars, signalVars>>
  PROVE  PortInv'
<1> USE DEF EnvironmentStarted, DeploySucceeds, StartedOk, envVars, serveVars, signalVars
<1>1. MemoInv' /\ AttemptInv' /\ SingleFlight' /\ FreshInv'
  BY DEF PortInv, MemoInv, AttemptInv, SingleFlight, InFlight, FreshInv, TearingDown, TypeOK, PortTypeOK
<1>2. BackingEnvInv'
  BY DEF PortInv, BackingEnvInv, TearingDown, TypeOK, PortTypeOK, Port
<1>3. QED
  BY <1>1, <1>2 DEF PortInv

\* The backing attempt in flight is the memoised one, so taking the
\* environment away leaves no memoised attempt that counts on it.
LEMMA BackingDegradesKeepsPortInv ==
  ASSUME TypeOK, PortInv, NEW a \in Call, BackingDeployDegrades(a),
         UNCHANGED <<serveVars, signalVars>>
  PROVE  PortInv'
<1> USE DEF BackingDeployDegrades, ForgetEnvironment, serveVars, signalVars
<1>1. MemoInv' /\ AttemptInv' /\ SingleFlight' /\ FreshInv'
  BY DEF PortInv, MemoInv, AttemptInv, SingleFlight, InFlight, FreshInv, TearingDown, TypeOK, PortTypeOK
<1>2. ~TearingDown => deploymentPromise["backing"] = a
  BY DEF PortInv, SingleFlight, InFlight, PortOf
<1>3. BackingEnvInv'
  BY <1>2 DEF BackingEnvInv, TearingDown, TypeOK, PortTypeOK
<1>4. QED
  BY <1>1, <1>3 DEF PortInv

LEMMA ReleaseStopsKeepsPortInv ==
  ASSUME TypeOK, PortInv, NEW a \in Call, ReleaseStops(a), UNCHANGED <<serveVars, signalVars>>
  PROVE  PortInv'
<1> USE DEF ReleaseStops, BeginStop, portVars, serveVars, signalVars
<1>1. MemoInv' /\ AttemptInv' /\ SingleFlight'
  BY DEF PortInv, MemoInv, AttemptInv, SingleFlight, InFlight, TearingDown
<1>2. FreshInv'
  BY DEF PortInv, FreshInv, TypeOK, EnvTypeOK, PortTypeOK
<1>3. ~TearingDown => deploymentPromise["backing"] = a
  BY DEF PortInv, AttemptInv, SingleFlight, InFlight, PortOf
<1>4. BackingEnvInv'
  BY <1>3 DEF BackingEnvInv, TearingDown
<1>5. QED
  BY <1>1, <1>2, <1>4 DEF PortInv

LEMMA AttemptKeepsPortInv ==
  ASSUME TypeOK, PortInv, NetworkInv, NEW a \in Call, AttemptMoves(a) PROVE PortInv'
<1> USE DEF AttemptMoves
<1>1. CASE ContractLoads(a)
  BY <1>1, ContractLoadsKeepsPortInv
<1>2. CASE EnvironmentStarted(a) \/ DeploySucceeds(a)
  BY <1>2, AttemptAdvancesKeepsPortInv
<1>3. CASE BackingDeployDegrades(a)
  BY <1>3, BackingDegradesKeepsPortInv
<1>4. CASE ReleaseStops(a)
  BY <1>4, ReleaseStopsKeepsPortInv
<1>5. CASE \/ EnvironmentUnavailable(a)
           \/ ReleaseReturns(a)
           \/ IdentityDeployDegrades(a)
           \/ ContractMissing(a)
           \/ DeployThrows(a)
  BY <1>5, SettleKeepsPortInv
     DEF EnvironmentUnavailable, ReleaseReturns, IdentityDeployDegrades, ContractMissing,
         DeployThrows, envVars, serveVars, signalVars
<1>6. QED
  BY <1>1, <1>2, <1>3, <1>4, <1>5 DEF AttemptProceeds, AttemptFails

----------------------------------------------------------------------------
(* A step of a client, a handler or a signal.                              *)

LEMMA DispatchKeepsPortInv ==
  ASSUME TypeOK, PortInv, NEW c \in Call, Dispatch(c) PROVE PortInv'
<1> USE DEF Dispatch, JoinDeployment, DeploymentFor, envVars, signalVars
<1>1. attempt[c] = "unused" /\ PortOf(c) \in Port
  BY DEF PortInv, FreshInv, PortOf, Port
<1>2. MemoInv'
  BY <1>1 DEF PortInv, MemoInv, TypeOK, PortTypeOK
<1>3. FreshInv' /\ AttemptInv'
  BY <1>1 DEF PortInv, FreshInv, AttemptInv, TypeOK, PortTypeOK
<1>4. SingleFlight'
  <2>1. SUFFICES ASSUME ~TearingDown, NEW a \in Call, InFlight(a)'
                 PROVE  deploymentPromise'[PortOf(a)] = a
    BY DEF SingleFlight, TearingDown, PortOf
  <2>2. CASE a = c
    BY <1>1, <2>1, <2>2, NoneIsNoCall DEF PortInv, SingleFlight, InFlight, TypeOK, PortTypeOK
  <2>3. CASE a # c
    <3>1. deploymentPromise[PortOf(a)] = a
      BY <2>1, <2>3 DEF PortInv, SingleFlight, InFlight, TypeOK, PortTypeOK
    <3>2. QED
      BY <1>1, <3>1, NoneIsNoCall DEF TypeOK, PortTypeOK
  <2>4. QED
    BY <2>2, <2>3
<1>5. BackingEnvInv'
  BY <1>1, NoneIsNoCall DEF PortInv, BackingEnvInv, TearingDown, TypeOK, PortTypeOK, Port
<1>6. QED
  BY <1>2, <1>3, <1>4, <1>5 DEF PortInv

\* A step that leaves the attempts and the network alone, and takes no
\* request back to its beginning.
LEMMA BystanderKeepsPortInv ==
  ASSUME TypeOK, PortInv,
         UNCHANGED <<portVars, environmentPromise, env>>,
         ~TearingDown' => ~TearingDown,
         \A c \in Call : handler'[c] \in {"idle", "receiving"} => handler[c] \in {"idle", "receiving"}
  PROVE  PortInv'
BY DEF PortInv, MemoInv, FreshInv, AttemptInv, SingleFlight, InFlight, BackingEnvInv, portVars

LEMMA RequestKeepsPortInv ==
  ASSUME TypeOK, PortInv, NEW c \in Call, Arrive(c) \/ Disconnect(c) \/ HandlerProceeds(c)
  PROVE  PortInv'
<1>1. CASE Dispatch(c)
  BY <1>1, DispatchKeepsPortInv
<1>2. CASE ~Dispatch(c)
  <2>1. UNCHANGED <<portVars, environmentPromise, env, teardown>>
    BY <1>2 DEF Arrive, Disconnect, HandlerProceeds, Refuse, OpeningDegraded, PublishKey,
                CallCircuit, CircuitAnswers, CircuitDegrades, envVars, signalVars
  <2>2. \A d \in Call : handler'[d] \in {"idle", "receiving"} => handler[d] \in {"idle", "receiving"}
    BY <1>2 DEF Arrive, Disconnect, HandlerProceeds, Refuse, OpeningDegraded, PublishKey,
                CallCircuit, CircuitAnswers, CircuitDegrades, Respond, TypeOK
  <2>3. QED
    BY <2>1, <2>2, BystanderKeepsPortInv DEF TearingDown
<1>3. QED
  BY <1>1, <1>2

LEMMA SignalKeepsPortInv ==
  ASSUME TypeOK, PortInv, Next, NEW s \in Signal, ReceiveSignal(s) \/ TeardownProceeds(s)
  PROVE  PortInv'
<1>1. CASE ReceiveSignal(s) \/ Exit(s)
  <2>1. /\ UNCHANGED <<portVars, environmentPromise, env, handler>>
        /\ ~TearingDown' => ~TearingDown
    BY <1>1, TearingIsForGood DEF ReceiveSignal, Exit, envVars, serveVars
  <2>2. QED
    BY <2>1, BystanderKeepsPortInv
<1>2. CASE TakeBacking(s) \/ TakeIdentity(s) \/ TakeEnvironment(s) \/ StopEnvironment(s)
  <2>1. TearingDown'
    BY <1>2 DEF TearingDown, TypeOK, TakeBacking, TakeIdentity, TakeEnvironment, StopEnvironment,
                signalVars
  <2>2. SingleFlight' /\ BackingEnvInv'
    BY <2>1 DEF SingleFlight, BackingEnvInv
  <2>3. MemoInv' /\ AttemptInv'
    BY <1>2 DEF PortInv, MemoInv, AttemptInv, TypeOK, PortTypeOK, TakeBacking, TakeIdentity,
                TakeDeployment, TakeEnvironment, StopEnvironment, portVars, serveVars, Port
  <2>4. FreshInv'
    BY <1>2 DEF PortInv, FreshInv, TypeOK, EnvTypeOK, PortTypeOK, TakeBacking, TakeIdentity, TakeDeployment,
                TakeEnvironment, StopEnvironment, BeginStop, portVars, serveVars, envVars
  <2>5. QED
    BY <2>2, <2>3, <2>4 DEF PortInv
<1>3. QED
  BY <1>1, <1>2 DEF TeardownProceeds

LEMMA PortStep == TypeOK /\ PortInv /\ NetworkInv /\ [Next]_vars => PortInv'
<1>1. ASSUME TypeOK, PortInv, NetworkInv, Next PROVE PortInv'
  BY <1>1, EnvironmentKeepsPortInv, AttemptKeepsPortInv, RequestKeepsPortInv, SignalKeepsPortInv
     DEF Next
<1>2. ASSUME TypeOK, PortInv, UNCHANGED vars PROVE PortInv'
  BY <1>2, BystanderKeepsPortInv DEF vars, envVars, serveVars, signalVars, TearingDown
<1>3. QED
  BY <1>1, <1>2

----------------------------------------------------------------------------
(* NetworkInv is inductive too, given fresh names.                         *)

\* Nothing here starts a network or takes one.
LEMMA BystanderKeepsNetworkInv ==
  ASSUME TypeOK, NetworkInv, UNCHANGED <<environmentPromise, env>>,
         \A a \in Call : attempt'[a] = "releasing" => attempt[a] = "releasing" /\ releasing'[a] = releasing[a],
         \A s \in Signal : teardown'[s] = "environment" => teardown[s] = "environment" /\ pending'[s] = pending[s]
  PROVE  NetworkInv'
BY DEF NetworkInv, Taken

LEMMA EnvironmentKeepsNetworkInv ==
  ASSUME TypeOK, NetworkInv, NEW e \in Call, EnvironmentMoves(e) PROVE NetworkInv'
<1> USE NoneIsNoCall DEF NetworkInv, TypeOK, EnvTypeOK, PortTypeOK, EnvironmentMoves, portVars, serveVars, signalVars
<1>1. CASE UNCHANGED environmentPromise
  <2>1. env' \in [Call -> EnvPhase] /\ \A f \in Call : env'[f] = "unused" => env[f] = "unused"
    BY DEF EnvSettles, EnvFails, EnvPhase, StartSucceeds, StartNetworkFails, StartWalletFails,
           WalletCleanupEnds, StartRejects, EnvironmentDies, StopSucceeds, StopFails
  <2>2. \A f \in Call \cup {None} : Taken(f) => Taken(f)'
    BY <1>1, <2>1 DEF Taken
  <2>3. environmentPromise # None =>
          env'[environmentPromise] \in {"starting", "cleaning", "up", "dead", "rejected"}
    BY <1>1 DEF EnvSettles, EnvFails, StartSucceeds, StartNetworkFails, StartWalletFails, ForgetStart,
           WalletCleanupEnds, StartRejects, EnvironmentDies, StopSucceeds, StopFails
  <2>4. QED
    BY <1>1, <2>2, <2>3
<1>2. CASE environmentPromise' # environmentPromise
  BY <1>2 DEF Taken, EnvSettles, EnvFails, StartSucceeds, StartNetworkFails, StartWalletFails,
         ForgetStart, WalletCleanupEnds, StartRejects, EnvironmentDies, StopSucceeds, StopFails
<1>3. QED
  BY <1>1, <1>2

LEMMA AttemptKeepsNetworkInv ==
  ASSUME TypeOK, PortInv, NetworkInv, NEW a \in Call, AttemptMoves(a) PROVE NetworkInv'
<1> USE NoneIsNoCall DEF AttemptMoves, serveVars, signalVars
<1>1. CASE ContractLoads(a)
  <2>1. env[a] = "unused"
    BY <1>1 DEF PortInv, FreshInv, ContractLoads
  <2>2. QED
    BY <1>1, <2>1 DEF NetworkInv, Taken, ContractLoads, JoinEnvironment, EnvironmentFor,
                      TypeOK, EnvTypeOK, PortTypeOK
<1>2. CASE BackingDeployDegrades(a)
  BY <1>2 DEF NetworkInv, Taken, BackingDeployDegrades, ForgetEnvironment, TypeOK, EnvTypeOK, PortTypeOK
<1>3. CASE ReleaseStops(a)
  BY <1>3 DEF NetworkInv, Taken, ReleaseStops, BeginStop, TypeOK, EnvTypeOK, PortTypeOK, portVars
<1>4. CASE \/ EnvironmentStarted(a)
           \/ DeploySucceeds(a)
           \/ EnvironmentUnavailable(a)
           \/ ReleaseReturns(a)
           \/ IdentityDeployDegrades(a)
           \/ ContractMissing(a)
           \/ DeployThrows(a)
  BY <1>4, BystanderKeepsNetworkInv
     DEF EnvironmentStarted, DeploySucceeds, EnvironmentUnavailable, ReleaseReturns,
         IdentityDeployDegrades, ContractMissing, DeployThrows, SettleDegraded, envVars,
         TypeOK, PortTypeOK
<1>5. QED
  BY <1>1, <1>2, <1>3, <1>4 DEF AttemptProceeds, AttemptFails

LEMMA RequestKeepsNetworkInv ==
  ASSUME TypeOK, PortInv, NetworkInv, NEW c \in Call, Arrive(c) \/ Disconnect(c) \/ HandlerProceeds(c)
  PROVE  NetworkInv'
<1>1. UNCHANGED <<environmentPromise, env, releasing, teardown, pending>>
  BY DEF Arrive, Disconnect, HandlerProceeds, Refuse, Dispatch, JoinDeployment, OpeningDegraded,
         PublishKey, CallCircuit, CircuitAnswers, CircuitDegrades, envVars, portVars, signalVars
<1>2. \A a \in Call : attempt'[a] = "releasing" => attempt[a] = "releasing"
  BY DEF Arrive, Disconnect, HandlerProceeds, Refuse, Dispatch, JoinDeployment, OpeningDegraded,
         PublishKey, CallCircuit, CircuitAnswers, CircuitDegrades, portVars, TypeOK, PortTypeOK
<1>3. QED
  BY <1>1, <1>2, BystanderKeepsNetworkInv

LEMMA SignalKeepsNetworkInv ==
  ASSUME TypeOK, NetworkInv, NEW s \in Signal, ReceiveSignal(s) \/ TeardownProceeds(s)
  PROVE  NetworkInv'
<1> USE NoneIsNoCall DEF envVars, portVars, serveVars, signalVars
<1>1. CASE ReceiveSignal(s) \/ TakeBacking(s) \/ TakeIdentity(s) \/ Exit(s)
  BY <1>1, BystanderKeepsNetworkInv
     DEF ReceiveSignal, TakeBacking, TakeIdentity, TakeDeployment, Exit, TypeOK
<1>2. CASE TakeEnvironment(s)
  BY <1>2 DEF NetworkInv, Taken, TakeEnvironment, ForgetEnvironment, TypeOK, EnvTypeOK, PortTypeOK
<1>3. CASE StopEnvironment(s)
  BY <1>3 DEF NetworkInv, Taken, StopEnvironment, BeginStop, TypeOK, EnvTypeOK, PortTypeOK
<1>4. QED
  BY <1>1, <1>2, <1>3 DEF TeardownProceeds

LEMMA NetworkStep == TypeOK /\ PortInv /\ NetworkInv /\ [Next]_vars => NetworkInv'
<1>1. ASSUME TypeOK, PortInv, NetworkInv, Next PROVE NetworkInv'
  BY <1>1, EnvironmentKeepsNetworkInv, AttemptKeepsNetworkInv, RequestKeepsNetworkInv,
     SignalKeepsNetworkInv DEF Next
<1>2. ASSUME TypeOK, NetworkInv, UNCHANGED vars PROVE NetworkInv'
  BY <1>2, BystanderKeepsNetworkInv DEF vars, envVars, portVars, signalVars
<1>3. QED
  BY <1>1, <1>2

----------------------------------------------------------------------------
ServeInv == TypeOK /\ PortInv /\ NetworkInv

LEMMA ServeInvariant == Safety => []ServeInv
<1>1. Init => ServeInv
  BY TypeInit, PortInit0 DEF ServeInv, NetworkInv, Init, EnvInit, PortInit
<1>2. ServeInv /\ [Next]_vars => ServeInv'
  BY TypeStep, PortStep, NetworkStep DEF ServeInv
<1>3. QED
  BY <1>1, <1>2, PTL DEF Safety

\* Overlapping requests share one attempt per port (realProofPort.ts and
\* realIdentityPort.ts, deployment() / identityDeployment()).
THEOREM OneAttemptPerPort == Safety => []SingleFlight
<1>1. ServeInv => SingleFlight
  BY DEF ServeInv, PortInv
<1>2. QED
  BY <1>1, ServeInvariant, PTL

\* Nobody but a teardown shuts the environment down under the memoised backing
\* deployment: a release is only ever the work of the attempt that holds the
\* memo, and then there is no deployment to lose.
THEOREM BackingStaysLive == Safety => []BackingDeploymentLive
<1>1. ServeInv => BackingDeploymentLive
  BY DEF ServeInv, PortInv, BackingEnvInv, BackingDeploymentLive
<1>2. QED
  BY <1>1, ServeInvariant, PTL

\* A start that degraded is never what the next caller of sharedEnvironment()
\* joins.
THEOREM DegradedStartsAreForgotten == Safety => []DegradedStartForgotten
<1>1. ServeInv => DegradedStartForgotten
  BY DEF ServeInv, NetworkInv, DegradedStartForgotten
<1>2. QED
  BY <1>1, ServeInvariant, PTL
=============================================================================
