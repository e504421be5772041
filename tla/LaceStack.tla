----------------------------- MODULE LaceStack -----------------------------
(***************************************************************************)
(* The preflight every browser-direct call begins with                     *)
(* (api/src/laceProofPort.ts, prepareLaceStack, over laceWallet.ts,        *)
(* laceProviders.ts and timeouts.ts): find the injected wallet, connect,   *)
(* read its status and configuration, probe the local proof server, read   *)
(* the addresses, build the providers.  Each is a separate await, so the   *)
(* wallet, its network and the proof server may change between any two.    *)
(*                                                                         *)
(* A peer that answers within its budget is "ready" or "refusing"; one     *)
(* that does not answer in time is "silent", and only the timer of         *)
(* withTimeout ends the wait for it.  The work it was asked for goes on.   *)
(***************************************************************************)
EXTENDS Naturals

CONSTANTS
  Call,        \* the calls made on this page, each with a preflight of its own
  Network,     \* the networks a wallet can be on
  Expected,    \* the one the build insists on (expectedNetworkId)
  Lacking,     \* the sets of things a build or page may lack
  MaxChanges   \* how often the outside world changes

ASSUME StackAssumption == Expected \in Network /\ MaxChanges \in Nat

VARIABLES
  lacks,    \* what this build and this page lack, fixed once loaded
  world,    \* the wallet, its network, the proof server, the indexer, the site
  changes,  \* how often the world has changed
  pc,       \* the await each call stands at
  reason    \* the reason of a degraded call

stackVars == <<lacks, world, changes, pc, reason>>

Peer == {"ready", "refusing", "silent"}

\* A wallet that is there may hand over a usable connection, refuse, or never answer.
World == [wallet  : Peer \cup {"absent"},
          network : Network,
          server  : Peer,
          indexer : Peer,
          site    : {"ready", "refusing"}]

Goto(c, stage) == pc' = [pc EXCEPT ![c] = stage] /\ UNCHANGED reason

\* Mutation: the reason is put where the step belongs.
DegradeSwapped(c, why) ==
  /\ pc' = [pc EXCEPT ![c] = why]
  /\ reason' = [reason EXCEPT ![c] = "degraded"]

Degrade(c, why) ==
  /\ pc' = [pc EXCEPT ![c] = "degraded"]
  /\ reason' = [reason EXCEPT ![c] = why]

\* Mutation: findDeployedContract is awaited bare.
JoinUnbounded(stage, silent) == stage # "joining" /\ silent

\* Mutation: deployContract is awaited bare.
DeployUnbounded(stage, silent) == stage # "deploying" /\ silent

\* withTimeout ends a wait whose work never settles; that work goes on.
Expired(stage, silent) == silent

\* The wait at a stage is over, by an answer, a refusal or the timer.
Settled(stage, silent) == ~silent \/ Expired(stage, silent)

StackInit ==
  /\ lacks \in Lacking
  /\ world \in World
  /\ changes = 0
  /\ pc = [c \in Call |-> "idle"]
  /\ reason = [c \in Call |-> "none"]

----------------------------------------------------------------------------
\* The wallet is looked for, and connect() is under way.
SelectWallet(c) ==
  IF world.wallet = "absent" THEN Degrade(c, "wallet_absent") ELSE Goto(c, "connect")

Connect(c) ==
  /\ pc[c] = "connect"
  /\ Settled("connect", world.wallet = "silent")
  /\ IF world.wallet = "ready" THEN Goto(c, "status") ELSE Degrade(c, "wallet_locked")

\* One of the two queries that report the network the wallet is on.
QueryNetwork(c, stage, next) ==
  /\ pc[c] = stage
  /\ Settled(stage, world.wallet = "silent")
  /\ CASE world.wallet # "ready"    -> Degrade(c, "wallet_locked")
       [] world.wallet = "ready" /\ world.network # Expected
                                    -> Degrade(c, "wallet_wrong_network")
       [] OTHER                     -> Goto(c, next)

ConnectionStatus(c) == QueryNetwork(c, "status", "configuration")

\* The belt and braces of a second report.
Configuration(c) == QueryNetwork(c, "configuration", "connected")

\* Mutation: the probe is left to the prover.
ConnectedUnprobed(c) == pc[c] = "connected" /\ Goto(c, "addresses")

Connected(c) ==
  /\ pc[c] = "connected"
  /\ IF "fetch" \in lacks THEN Degrade(c, "environment_unavailable") ELSE Goto(c, "probe")

\* The probe has both an abort and a bound, and setNetworkId follows it.
Probe(c) ==
  /\ pc[c] = "probe"
  /\ Settled("probe", world.server = "silent")
  /\ CASE world.server # "ready" -> Degrade(c, "proof_server_unreachable")
       [] world.server = "ready" /\ "sdk" \in lacks -> Degrade(c, "wallet_wrong_network")
       [] OTHER -> Goto(c, "addresses")

Addresses(c) ==
  /\ pc[c] = "addresses"
  /\ Settled("addresses", world.wallet = "silent")
  /\ CASE world.wallet # "ready" -> Degrade(c, "wallet_locked")
       [] world.wallet = "ready" /\ "page" \in lacks -> Degrade(c, "environment_unavailable")
       [] OTHER -> Goto(c, "stacked")

StackProceeds(c) ==
  \/ Connect(c)
  \/ ConnectionStatus(c)
  \/ Configuration(c)
  \/ Connected(c)
  \/ Probe(c)
  \/ Addresses(c)

\* The user locks the wallet or changes its network, the proof server or the
\* indexer stops, starts or hangs: at any point of any call.
WorldChanges ==
  /\ changes < MaxChanges
  /\ changes' = changes + 1
  /\ world' \in World
  /\ UNCHANGED <<lacks, pc, reason>>
=============================================================================
