------------------------------- MODULE Serve -------------------------------
(***************************************************************************)
(* The long-lived process of `npm run serve`: the HTTP handlers of         *)
(* api/src/proofServer, the two ports they call, and the signal handlers   *)
(* of api/src/serve that close the listener and tear the ports down.       *)
(***************************************************************************)
EXTENDS RealPorts

CONSTANTS
  IssuerCall,  \* the identity requests that ask for the issuer key
  Malformed,   \* requests whose body or argument does not parse
  Signal       \* the SIGINT / SIGTERM deliveries of a behaviour

ASSUME IssuerCallsAreIdentity == IssuerCall \subseteq IdentityCall
ASSUME MalformedAreCalls == Malformed \subseteq Call

VARIABLES
  listening,  \* the server accepts connections
  handler,    \* where the handler of each request is
  joined,     \* the attempt whose promise the handler awaited
  issuerKey,  \* the key a check names: the attempt that issued it, or None
              \* for a key nobody here issued
  answer,     \* what the handler answered
  gone,       \* clients that closed their connection (a bridge's time-out)
  teardown,   \* where each signal's handler is
  pending,    \* the promise that handler took and awaits
  exited      \* process.exit was called

serveVars == <<listening, handler, joined, issuerKey, answer, gone>>
signalVars == <<teardown, pending, exited>>
vars == <<envVars, portVars, serveVars, signalVars>>

CheckCall == IdentityCall \ IssuerCall

HandlerPhase == {"idle", "receiving", "opening", "calling", "done"}
TeardownPhase == {"idle", "closing", "backing", "identity", "environment"}

TypeOK ==
  /\ EnvTypeOK
  /\ PortTypeOK
  /\ listening \in BOOLEAN
  /\ handler \in [Call -> HandlerPhase]
  /\ joined \in [Call -> Call \cup {None}]
  /\ issuerKey \in [Call -> Call \cup {None}]
  /\ answer \in [Call -> {"none", "decided", "degraded"}]
  /\ gone \subseteq Call
  /\ teardown \in [Signal -> TeardownPhase]
  /\ pending \in [Signal -> Call \cup {None}]
  /\ exited \in BOOLEAN

Init ==
  /\ EnvInit
  /\ PortInit
  /\ listening = TRUE
  /\ handler = [c \in Call |-> "idle"]
  /\ joined = [c \in Call |-> None]
  /\ issuerKey = [c \in Call |-> None]
  /\ answer = [c \in Call |-> "none"]
  /\ gone = {}
  /\ teardown = [s \in Signal |-> "idle"]
  /\ pending = [s \in Signal |-> None]
  /\ exited = FALSE

----------------------------------------------------------------------------
(* Clients.                                                                *)

\* The keys some client has read off the issuer route.
PublishedKeys == {joined[c] : c \in {d \in IssuerCall : answer[d] = "decided"}}

\* A request reaches the server.  A check carries a key its client read here,
\* or one from somewhere else.
Arrive(c) ==
  /\ listening
  /\ handler[c] = "idle"
  /\ handler' = [handler EXCEPT ![c] = "receiving"]
  /\ \E k \in (IF c \in CheckCall THEN PublishedKeys ELSE {}) \cup {None} :
       issuerKey' = [issuerKey EXCEPT ![c] = k]
  /\ UNCHANGED <<listening, joined, answer, gone, envVars, portVars, signalVars>>

\* The client gives up.  A handler still reading the body fails and ends; one
\* already past it keeps running and answers a closed socket.
Disconnect(c) ==
  /\ handler[c] \in {"receiving", "opening", "calling"}
  /\ c \notin gone
  /\ gone' = gone \cup {c}
  /\ IF handler[c] = "receiving"
     THEN /\ handler' = [handler EXCEPT ![c] = "done"]
          /\ answer' = [answer EXCEPT ![c] = "degraded"]
     ELSE UNCHANGED <<handler, answer>>
  /\ UNCHANGED <<listening, joined, issuerKey, envVars, portVars, signalVars>>

----------------------------------------------------------------------------
(* The handler: read the body, route it, await the port, answer.           *)

Respond(c, result) ==
  /\ handler' = [handler EXCEPT ![c] = "done"]
  /\ answer' = [answer EXCEPT ![c] = result]
  /\ UNCHANGED <<listening, joined, issuerKey, gone>>

\* A body or an argument that does not parse is answered without opening a
\* deployment.
Refuse(c) ==
  /\ c \in Malformed
  /\ handler[c] = "receiving"
  /\ Respond(c, "degraded")
  /\ UNCHANGED <<envVars, portVars, signalVars>>

Dispatch(c) ==
  /\ c \notin Malformed
  /\ handler[c] = "receiving"
  /\ handler' = [handler EXCEPT ![c] = "opening"]
  /\ joined' = [joined EXCEPT ![c] = DeploymentFor(c)]
  /\ JoinDeployment(c)
  /\ UNCHANGED <<listening, issuerKey, answer, gone, envVars, signalVars>>

OpeningDegraded(c) ==
  /\ handler[c] = "opening"
  /\ attempt[joined[c]] = "degraded"
  /\ Respond(c, "degraded")
  /\ UNCHANGED <<envVars, portVars, signalVars>>

\* Mutation: the deployment's status goes out as the answer.
PublishDeployment(c) ==
  /\ c \in IssuerCall
  /\ handler[c] = "opening"
  /\ attempt[joined[c]] = "ok"
  /\ Respond(c, attempt[joined[c]])
  /\ UNCHANGED <<envVars, portVars, signalVars>>

PublishKey(c) ==
  /\ c \in IssuerCall
  /\ handler[c] = "opening"
  /\ attempt[joined[c]] = "ok"
  /\ Respond(c, "decided")
  /\ UNCHANGED <<envVars, portVars, signalVars>>

CallCircuit(c) ==
  /\ c \notin IssuerCall
  /\ handler[c] = "opening"
  /\ attempt[joined[c]] = "ok"
  /\ handler' = [handler EXCEPT ![c] = "calling"]
  /\ UNCHANGED <<listening, joined, issuerKey, answer, gone, envVars, portVars, signalVars>>

\* Mutation: the key is not asserted.
AnyKeyVerifies(c) == TRUE

\* The circuit verifies the attestation its deployment holds against the key
\* it is handed, and aborts under any key but the one that signed it.
KeyVerifies(c) == c \in CheckCall => issuerKey[c] = joined[c]

CircuitAnswers(c) ==
  /\ handler[c] = "calling"
  /\ Reachable(attemptEnv[joined[c]])
  /\ KeyVerifies(c)
  /\ Respond(c, "decided")
  /\ UNCHANGED <<envVars, portVars, signalVars>>

CircuitDegrades(c) ==
  /\ handler[c] = "calling"
  /\ \/ Fault("call")
     \/ /\ env[attemptEnv[joined[c]]] # "up" \/ ~KeyVerifies(c)
        /\ UNCHANGED faults
  /\ Respond(c, "degraded")
  /\ UNCHANGED <<environmentPromise, env, portVars, signalVars>>

HandlerProceeds(c) ==
  \/ Refuse(c)
  \/ Dispatch(c)
  \/ OpeningDegraded(c)
  \/ PublishKey(c)
  \/ CallCircuit(c)
  \/ CircuitAnswers(c)
  \/ CircuitDegrades(c)

----------------------------------------------------------------------------
(* A signal: close the listener, then shutdownRealPorts, then exit.        *)

ReceiveSignal(s) ==
  /\ teardown[s] = "idle"
  /\ teardown' = [teardown EXCEPT ![s] = "closing"]
  /\ listening' = FALSE
  /\ UNCHANGED <<handler, joined, issuerKey, answer, gone, pending, exited, envVars, portVars>>

\* server.close() calls back when the last connection has ended, for every
\* caller that waits on it.
Drained == \A c \in Call : handler[c] \in {"idle", "done"} \/ c \in gone

TakeDeployment(s, port) ==
  /\ pending' = [pending EXCEPT ![s] = deploymentPromise[port]]
  /\ deploymentPromise' = [deploymentPromise EXCEPT ![port] = None]
  /\ UNCHANGED <<attempt, attemptEnv, releasing>>

\* Mutations: the taken attempt is not awaited, or only its success is.
NothingAwaited(s) == TRUE
OnlySuccessAwaited(s) == pending[s] # None => attempt[pending[s]] = "ok"

PendingSettled(s) == pending[s] # None => AttemptSettled(pending[s])

TakeBacking(s) ==
  /\ teardown[s] = "closing"
  /\ Drained
  /\ teardown' = [teardown EXCEPT ![s] = "backing"]
  /\ TakeDeployment(s, "backing")
  /\ UNCHANGED <<serveVars, envVars, exited>>

TakeIdentity(s) ==
  /\ teardown[s] = "backing"
  /\ PendingSettled(s)
  /\ teardown' = [teardown EXCEPT ![s] = "identity"]
  /\ TakeDeployment(s, "identity")
  /\ UNCHANGED <<serveVars, envVars, exited>>

\* A handler that finds nothing memoised has nothing to wait for: only
\* microtasks lie between here and process.exit, so no other step does.
TakeEnvironment(s) ==
  /\ teardown[s] = "identity"
  /\ PendingSettled(s)
  /\ teardown' = [teardown EXCEPT ![s] = "environment"]
  /\ pending' = [pending EXCEPT ![s] = environmentPromise]
  /\ exited' = (environmentPromise = None)
  /\ ForgetEnvironment
  /\ UNCHANGED <<env, faults, portVars, serveVars>>

StopEnvironment(s) ==
  /\ teardown[s] = "environment"
  /\ pending[s] # None
  /\ BeginStop(pending[s])
  /\ UNCHANGED <<environmentPromise, faults, portVars, serveVars, signalVars>>

Exit(s) ==
  /\ teardown[s] = "environment"
  /\ ShutdownReturned(pending[s])
  /\ exited' = TRUE
  /\ UNCHANGED <<teardown, pending, envVars, portVars, serveVars>>

TeardownProceeds(s) ==
  \/ TakeBacking(s)
  \/ TakeIdentity(s)
  \/ TakeEnvironment(s)
  \/ StopEnvironment(s)
  \/ Exit(s)

----------------------------------------------------------------------------
EnvironmentMoves(e) == (EnvSettles(e) \/ EnvFails(e)) /\ UNCHANGED <<portVars, serveVars, signalVars>>
AttemptMoves(a) == (AttemptProceeds(a) \/ AttemptFails(a)) /\ UNCHANGED <<serveVars, signalVars>>

Next ==
  /\ ~exited
  /\ \/ \E c \in Call : \/ Arrive(c)
                        \/ Disconnect(c)
                        \/ HandlerProceeds(c)
                        \/ AttemptMoves(c)
                        \/ EnvironmentMoves(c)
     \/ \E s \in Signal : ReceiveSignal(s) \/ TeardownProceeds(s)

\* The event loop runs every promise that has settled, and every external
\* wait (Docker, the wallet, the prover) ends one way or the other.  Clients
\* and signals owe nothing, and no failure is bound to happen.
Fairness ==
  /\ \A c \in Call :
       /\ WF_vars(~exited /\ HandlerProceeds(c))
       /\ WF_vars(~exited /\ AttemptProceeds(c) /\ UNCHANGED <<serveVars, signalVars>>)
       /\ WF_vars(~exited /\ EnvSettles(c) /\ UNCHANGED <<portVars, serveVars, signalVars>>)
  /\ \A s \in Signal : WF_vars(~exited /\ TeardownProceeds(s))

Safety == Init /\ [][Next]_vars
Spec == Safety /\ Fairness

----------------------------------------------------------------------------
(* What the process promises.                                              *)

\* A signal handler is past the listener and is taking the ports down.
TearingDown == \E s \in Signal : teardown[s] \notin {"idle", "closing"}

\* Requests that overlap share one attempt per port: every attempt still in
\* flight is the memoised one (realProofPort.ts, deployment()).
SingleFlight ==
  ~TearingDown => \A a \in Call : InFlight(a) => deploymentPromise[PortOf(a)] = a

\* The backing deployment that later requests are handed stands on the
\* memoised environment, and nobody has shut that down under it.
BackingDeploymentLive ==
  LET a == deploymentPromise["backing"]
  IN ~TearingDown /\ a # None /\ attempt[a] = "ok" =>
       environmentPromise = attemptEnv[a] /\ env[attemptEnv[a]] \in {"up", "dead"}

\* The same of the identity deployment: "memoises the deployment, and only a
\* live one" (realIdentityPort.ts, identityDeployment()).
IdentityDeploymentLive ==
  LET a == deploymentPromise["identity"]
  IN ~TearingDown /\ a # None /\ attempt[a] = "ok" => env[attemptEnv[a]] \in {"up", "dead"}

\* A key read off the issuer route is still the key of the deployment a later
\* check runs on, although nothing holds the two trips together: no port
\* redeploys while it serves.
PublishedKeyIsCurrent ==
  \A c \in CheckCall :
    handler[c] = "calling" /\ issuerKey[c] # None => issuerKey[c] = joined[c]

\* No request is handed an attempt that had already degraded when it asked.
NoStaleDegrade ==
  [][\A c \in Call : joined'[c] # joined[c] => attempt[joined'[c]] # "degraded"]_vars

\* A backing attempt whose deploy degraded answers only when the environment
\* it ran on is no longer up, so the next attempt is not locked out.
LockReleasedBeforeGivingUp ==
  [][\A a \in BackingCall :
       ~TearingDown /\ attempt[a] = "releasing" /\ attempt'[a] = "degraded"
         => env[attemptEnv[a]] \in {"stopped", "leaked"}]_vars

\* When the process exits on a signal no network of its is left behind, even
\* one that an abandoned request was still starting: only one that refused to
\* stop, or that a failed start had left to nobody.
NothingRunsAtExit ==
  exited => \A e \in Call : Occupies(e) => env[e] \in OutOfReach

\* A signal ends the process.
SignalEndsProcess == \A s \in Signal : (teardown[s] = "closing") ~> exited

\* Once the failures are over, a backing request that finds the process at
\* rest is decided: nothing a failure left memoised stands in its way.  What a
\* network that a failed start left up does to the next start is not modelled,
\* so the process is at rest only if there is none.
AtRest ==
  /\ faults = MaxFaults
  /\ \A a \in Call :
       ~InFlight(a) /\ env[a] \notin {"starting", "cleaning", "stopping", "leftover"}
  /\ \A s \in Signal : teardown[s] = "idle"

BackingRecovers ==
  \A c \in BackingCall \ Malformed :
    (AtRest /\ handler[c] = "receiving") ~>
       (answer[c] = "decided" \/ c \in gone \/ ~listening)

\* The process implements the port's contract: every request is answered,
\* whatever fails, and a check is decided under a published key only.
PortOutcome ==
  [c \in Call |-> IF handler[c] = "idle" THEN "unasked"
                  ELSE IF handler[c] = "done" THEN answer[c]
                  ELSE "asked"]

Contract == INSTANCE ProofPort WITH outcome <- PortOutcome, ended <- exited
ImplementsProofPort == Contract!Spec
=============================================================================
