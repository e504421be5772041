------------------------- MODULE SharedEnvironment -------------------------
(***************************************************************************)
(* The one local Midnight network of a process: api/src/sharedEnvironment  *)
(* (the memoised start) over api/src/localEnvironment (what one start and  *)
(* one shutdown do).  The module owns the state and the operations; who    *)
(* calls them is said by RealPorts and Serve.                              *)
(*                                                                         *)
(* JavaScript runs a function without interruption up to its next await,   *)
(* so each stretch between two awaits is one action here, and a promise is *)
(* the name of whoever created it: a start is named after the attempt that *)
(* called sharedEnvironment() and found no memo.                           *)
(***************************************************************************)
EXTENDS Naturals

CONSTANTS
  Call,        \* requests; a deployment attempt, and the network start it
               \* may cause, are named after the request that began them
  None,        \* undefined
  FaultKinds,  \* the failures the world may inject, see Fault
  MaxFaults    \* bound: how many of them, in total

ASSUME NoneIsNoCall == None \notin Call
ASSUME MaxFaultsIsNat == MaxFaults \in Nat

VARIABLES
  environmentPromise,  \* the memo: the start every caller shares, or None
  env,                 \* what has become of each start
  faults               \* failures injected so far

envVars == <<environmentPromise, env, faults>>

(***************************************************************************)
(* "cleaning" is the wallet-failure path, which shuts the network down     *)
(* before it reports; "dead" is a network that was up and has gone away on *)
(* its own (Docker stopped).  A network that nobody has a handle on any    *)
(* more is "leaked" when its shutdown threw, which the caller swallows,    *)
(* and "leftover" when its start reported a failure and left it up.        *)
(***************************************************************************)
EnvPhase == {"unused", "starting", "cleaning", "up", "dead", "degraded",
             "leftover", "rejected", "stopping", "stopped", "leaked"}

\* How a start that failed leaves the machine: clean, or with a network up.
FailedStart == {"degraded", "leftover"}

\* Up or coming up, and nobody has the handle that would stop it.
OutOfReach == {"leaked", "leftover"}

EnvTypeOK ==
  /\ environmentPromise \in Call \cup {None}
  /\ env \in [Call -> EnvPhase]
  /\ faults \in 0..MaxFaults

EnvInit ==
  /\ environmentPromise = None
  /\ env = [e \in Call |-> "unused"]
  /\ faults = 0

\* The promise of start e has settled with a handle.
StartedOk(e) == env[e] \in {"up", "dead", "stopping", "stopped", "leaked"}

\* The containers of e exist, so it holds the ports and the private state.
Occupies(e) == env[e] \in {"starting", "cleaning", "up", "stopping"} \cup OutOfReach

\* The network of e can still answer: a shutdown under way may lose the race.
Reachable(e) == env[e] \in {"up", "stopping"}

Fault(kind) ==
  /\ kind \in FaultKinds
  /\ faults < MaxFaults
  /\ faults' = faults + 1

----------------------------------------------------------------------------
(* sharedEnvironment(): join the memoised start, or begin and memoise one. *)

EnvironmentFor(a) == IF environmentPromise = None THEN a ELSE environmentPromise

JoinEnvironment(a) ==
  /\ environmentPromise' = EnvironmentFor(a)
  /\ env' = IF environmentPromise = None
            THEN [env EXCEPT ![a] = "starting"]
            ELSE env

\* A degraded start clears the memo, if the memo is still its own.
ForgetStart(e) ==
  environmentPromise' = IF environmentPromise = e THEN None ELSE environmentPromise

----------------------------------------------------------------------------
(* startLocalEnvironment() settling, and the network afterwards.           *)

StartSucceeds(e) ==
  /\ env[e] = "starting"
  /\ env' = [env EXCEPT ![e] = "up"]
  /\ UNCHANGED <<environmentPromise, faults>>

\* environment.start() threw, perhaps with containers already running: this
\* path cleans nothing up.
StartNetworkFails(e) ==
  /\ env[e] = "starting"
  /\ Fault("network")
  /\ \E left \in FailedStart : env' = [env EXCEPT ![e] = left]
  /\ ForgetStart(e)

StartWalletFails(e) ==
  /\ env[e] = "starting"
  /\ Fault("wallet")
  /\ env' = [env EXCEPT ![e] = "cleaning"]
  /\ UNCHANGED environmentPromise

\* The clean-up ends and the start reports.  An error of the clean-up is
\* swallowed, and then the network is still there.
WalletCleanupEnds(e) ==
  /\ env[e] = "cleaning"
  /\ \E left \in FailedStart : env' = [env EXCEPT ![e] = left]
  /\ ForgetStart(e)
  /\ UNCHANGED faults

\* A start that throws instead of degrading: .then is skipped, so the
\* rejected promise stays memoised.
StartRejects(e) ==
  /\ env[e] = "starting"
  /\ Fault("reject")
  /\ env' = [env EXCEPT ![e] = "rejected"]
  /\ UNCHANGED environmentPromise

EnvironmentDies(e) ==
  /\ env[e] = "up"
  /\ Fault("death")
  /\ env' = [env EXCEPT ![e] = "dead"]
  /\ UNCHANGED environmentPromise

----------------------------------------------------------------------------
(* shutdownSharedEnvironment(): the memo is taken at once; the network is  *)
(* stopped only when its start has settled, and the caller waits for both. *)

\* Mutation: the network is shut down under a memo that still names it.
KeepEnvironment == UNCHANGED environmentPromise

ForgetEnvironment == environmentPromise' = None

BeginStop(e) ==
  /\ env[e] \in {"up", "dead"}
  /\ env' = [env EXCEPT ![e] = "stopping"]

StopSucceeds(e) ==
  /\ env[e] = "stopping"
  /\ env' = [env EXCEPT ![e] = "stopped"]
  /\ UNCHANGED <<environmentPromise, faults>>

StopFails(e) ==
  /\ env[e] = "stopping"
  /\ Fault("stop")
  /\ env' = [env EXCEPT ![e] = "leaked"]
  /\ UNCHANGED environmentPromise

\* What a caller of shutdownSharedEnvironment that took e waits for.
ShutdownReturned(e) ==
  e # None => env[e] \in FailedStart \cup {"rejected", "stopped", "leaked"}

\* The steps that need no caller, without and with a failure.
EnvSettles(e) == StartSucceeds(e) \/ WalletCleanupEnds(e) \/ StopSucceeds(e)
EnvFails(e)   == \/ StartNetworkFails(e)
                 \/ StartWalletFails(e)
                 \/ StartRejects(e)
                 \/ EnvironmentDies(e)
                 \/ StopFails(e)

----------------------------------------------------------------------------
\* There is never more than one local network in the process: the header of
\* sharedEnvironment.ts says a second one could not open the private state.
OneEnvironment == \A e, f \in Call : Occupies(e) /\ Occupies(f) => e = f

\* A start that degraded is not what the next caller joins.
DegradedStartForgotten ==
  environmentPromise # None => env[environmentPromise] \notin FailedStart
=============================================================================
