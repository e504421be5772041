------------------------------ MODULE LacePort ------------------------------
(***************************************************************************)
(* The browser-direct proof ports (web/src/lacePort.ts,                    *)
(* api/src/laceProofPort.ts, contract.ts, identityContract.ts): load the   *)
(* lace chunk, run the preflight, join the contract the build names, call  *)
(* its circuit and answer with what that call decided.  Calls overlap: a   *)
(* start over leaves the run before it waiting for its answer.             *)
(***************************************************************************)
EXTENDS LaceStack

CONSTANTS
  BackingCall,   \* calls that ask whether the collateral covers a limit
  IdentityCall,  \* calls that ask whether the attestation matches a tax id
  Holds          \* the calls whose predicate holds of this browser's witnesses

ASSUME PortAssumption ==
  /\ Call = BackingCall \cup IdentityCall
  /\ BackingCall \cap IdentityCall = {}
  /\ Holds \subseteq Call

VARIABLES
  local,   \* what a call's own circuit run put in its next contract state
  chain,   \* the ledger of each contract: the last answer and how many
  answer,  \* the value of a decided call
  had,     \* history: the checks that failed at some moment of the call
  fine     \* history: the checks that would have passed at some moment of it

portVars == <<local, chain, answer>>
vars == <<stackVars, portVars, had, fine>>

Contract == {"backing", "identity"}
ContractOf(c) == IF c \in BackingCall THEN "backing" ELSE "identity"

Running(c) == pc[c] \notin {"idle", "ok", "degraded"}

Init ==
  /\ StackInit
  /\ local = [c \in Call |-> FALSE]
  /\ chain = [k \in Contract |-> [cleared |-> FALSE, answered |-> 0]]
  /\ answer = [c \in Call |-> FALSE]
  /\ had = [c \in Call |-> {}]
  /\ fine = [c \in Call |-> {}]

----------------------------------------------------------------------------
Check(c) ==
  /\ pc[c] = "idle"
  /\ Goto(c, "called")
  /\ UNCHANGED portVars

\* Mutation: a failed import escapes the port.
LoadChunkThrowing(c) ==
  /\ pc[c] = "called"
  /\ IF "lace" \notin lacks /\ world.site = "ready" THEN SelectWallet(c) ELSE Goto(c, "idle")
  /\ UNCHANGED portVars

\* The lazy port: nothing at all on a build for another source, otherwise the
\* chunk that holds the real port is imported.
LoadChunk(c) ==
  /\ pc[c] = "called"
  /\ IF "lace" \notin lacks /\ world.site = "ready"
     THEN SelectWallet(c)
     ELSE Degrade(c, "environment_unavailable")
  /\ UNCHANGED portVars

Preflight(c) == StackProceeds(c) /\ UNCHANGED portVars

\* What this build was pointed at, then the argument, before anything is loaded.
Unaddressed(c) ==
  IF c \in BackingCall THEN "address" \in lacks
                       ELSE "identityAddress" \in lacks \/ "issuerKey" \in lacks

\* A tax id that is not 32 bytes of hex states no predicate.
Malformed(c) == c \in IdentityCall /\ "taxId" \in lacks

Stacked(c) ==
  /\ pc[c] = "stacked"
  /\ CASE Unaddressed(c) -> Degrade(c, "contract_not_found")
       [] ~Unaddressed(c) /\ Malformed(c) -> Degrade(c, "call_failed")
       [] OTHER -> Goto(c, "loading")
  /\ UNCHANGED portVars

LoadContract(c) ==
  /\ pc[c] = "loading"
  /\ IF "circuit" \in lacks THEN Degrade(c, "contract_not_compiled") ELSE Goto(c, "joining")
  /\ UNCHANGED portVars

\* An address with nothing at it never answers the watch of a join.
Unanswered == world.indexer = "silent" \/ "deployment" \in lacks

\* The verifier keys are fetched from the site.  The identity join supplies no
\* private state: this browser must already hold an attestation it can read.
Joinable(c) ==
  /\ world.indexer = "ready" /\ world.site = "ready"
  /\ "deployment" \notin lacks
  /\ c \in IdentityCall => "attestation" \notin lacks

Join(c) ==
  /\ pc[c] = "joining"
  /\ Settled("joining", Unanswered)
  /\ IF Joinable(c) THEN Goto(c, "joined") ELSE Degrade(c, "contract_not_found")
  /\ UNCHANGED portVars

\* callTx reads the contract's state and runs the circuit on it in the page.
\* An attestation the build's key did not sign aborts it.
RunCircuit(c) ==
  /\ pc[c] = "joined"
  /\ world.indexer # "silent"
  /\ IF world.indexer = "ready" /\ (c \in IdentityCall => "signature" \notin lacks)
     THEN Goto(c, "proving") /\ local' = [local EXCEPT ![c] = c \in Holds]
     ELSE Degrade(c, "call_failed") /\ UNCHANGED local
  /\ UNCHANGED <<chain, answer>>

\* The prover key and the circuit are fetched from the site, the local server
\* proves, the wallet balances and submits.
Ready ==
  /\ world.site = "ready" /\ world.server = "ready"
  /\ world.wallet = "ready" /\ world.network = Expected

\* Proved, balanced and submitted: no timer bounds this, so a peer that is
\* silent is waited for.
Submit(c) ==
  /\ pc[c] = "proving"
  /\ world.wallet # "silent" /\ world.server # "silent"
  /\ IF Ready
     THEN /\ Goto(c, "landing")
          /\ chain' = [chain EXCEPT ![ContractOf(c)] =
               [cleared |-> local[c], answered |-> @.answered + 1]]
     ELSE Degrade(c, "call_failed") /\ UNCHANGED chain
  /\ UNCHANGED <<local, answer>>

\* Mutation: the answer is read off the ledger of the contract.
AnsweredByLedger(c) == chain[ContractOf(c)].cleared

\* What callProveBacking and callProveIdentity read their answer off: the
\* state their own transaction produced.
Answered(c) == local[c]

Finalized(c) ==
  /\ pc[c] = "landing"
  /\ world.indexer # "silent"
  /\ IF world.indexer = "ready"
     THEN Goto(c, "ok") /\ answer' = [answer EXCEPT ![c] = Answered(c)]
     ELSE Degrade(c, "call_failed") /\ UNCHANGED answer
  /\ UNCHANGED <<local, chain>>

CallProceeds(c) ==
  \/ LoadChunk(c)
  \/ Preflight(c)
  \/ Stacked(c)
  \/ LoadContract(c)
  \/ Join(c)
  \/ RunCircuit(c)
  \/ Submit(c)
  \/ Finalized(c)

----------------------------------------------------------------------------
(* The checks of a call in the order the header states them, and the       *)
(* reason each one is reported by.                                         *)
Rank == [site |-> 1, wallet |-> 2, link |-> 3, network |-> 4, fetch |-> 5, server |-> 6,
         sdk |-> 7, page |-> 8, address |-> 9, argument |-> 10, module |-> 11,
         contract |-> 12, call |-> 13]

ReasonOf == [site |-> "environment_unavailable", wallet |-> "wallet_absent",
             link |-> "wallet_locked", network |-> "wallet_wrong_network",
             fetch |-> "environment_unavailable", server |-> "proof_server_unreachable",
             sdk |-> "wallet_wrong_network", page |-> "environment_unavailable",
             address |-> "contract_not_found", argument |-> "call_failed",
             module |-> "contract_not_compiled", contract |-> "contract_not_found",
             call |-> "call_failed"]

Checks == DOMAIN Rank
Before(k) == {j \in Checks : Rank[j] < Rank[k]}

\* Some peer of the circuit call turns it down, or its own assertion fails.
CallRefused(c) ==
  \/ world.indexer = "refusing" \/ world.server = "refusing" \/ world.site = "refusing"
  \/ world.wallet \in {"absent", "refusing"} \/ world.network # Expected
  \/ c \in IdentityCall /\ "signature" \in lacks

Fails(c, k) ==
  CASE k = "site"     -> "lace" \in lacks \/ world.site # "ready"
    [] k = "wallet"   -> world.wallet = "absent"
    [] k = "link"     -> world.wallet # "ready"
    [] k = "network"  -> world.network # Expected
    [] k = "fetch"    -> "fetch" \in lacks
    [] k = "server"   -> world.server # "ready"
    [] k = "sdk"      -> "sdk" \in lacks
    [] k = "page"     -> "page" \in lacks
    [] k = "address"  -> Unaddressed(c)
    [] k = "argument" -> Malformed(c)
    [] k = "module"   -> "circuit" \in lacks
    [] k = "contract" -> ~Joinable(c)
    [] k = "call"     -> CallRefused(c)

Failing(c) == {k \in Checks : Fails(c, k)}

\* What is true of the world is noted for as long as a call runs.
Observe ==
  /\ had' = [c \in Call |-> IF Running(c)' \/ Running(c)
                            THEN had[c] \cup Failing(c)' ELSE had[c]]
  /\ fine' = [c \in Call |-> IF Running(c)' \/ Running(c)
                             THEN fine[c] \cup (Checks \ Failing(c)') ELSE fine[c]]

Next ==
  /\ \/ /\ \E c \in Call : Check(c) \/ CallProceeds(c)
        /\ UNCHANGED <<lacks, world, changes>>
     \/ WorldChanges /\ UNCHANGED portVars
  /\ Observe

Safety == Init /\ [][Next]_vars

\* The event loop runs what has settled and every timer that is due; a peer
\* that is not silent answers.  Nobody owes a change of the world.
Fairness == \A c \in Call : WF_vars(CallProceeds(c) /\ UNCHANGED <<lacks, world, changes>> /\ Observe)

Spec == Safety /\ Fairness

----------------------------------------------------------------------------
TypeOK ==
  /\ lacks \in Lacking
  /\ world \in World
  /\ changes \in 0..MaxChanges
  /\ pc \in [Call -> {"idle", "called", "connect", "status", "configuration", "connected",
                      "probe", "addresses", "stacked", "loading", "joining", "joined",
                      "proving", "landing", "ok", "degraded"}]
  /\ reason \in [Call -> {"none"} \cup {ReasonOf[k] : k \in Checks}]
  /\ local \in [Call -> BOOLEAN]
  /\ chain \in [Contract -> [cleared : BOOLEAN, answered : Nat]]
  /\ answer \in [Call -> BOOLEAN]
  /\ had \in [Call -> SUBSET Checks]
  /\ fine \in [Call -> SUBSET Checks]

\* The reason of a degraded call names something that was really wrong during
\* it, and everything the header ranks before that was in order at some moment
\* of it, however the wallet and the servers change meanwhile; a decided call
\* had everything before its circuit in order ("the reason that comes back
\* always names the FIRST thing to fix", laceProofPort.ts).
ReasonIsFirstFault ==
  \A c \in Call :
    /\ pc[c] = "degraded" =>
         \E k \in Checks : ReasonOf[k] = reason[c] /\ k \in had[c] /\ Before(k) \subseteq fine[c]
    /\ pc[c] = "ok" => Before("call") \subseteq fine[c]

\* Calls that overlap on one contract each report what their own circuit
\* decided, whichever transaction the ledger took last.
AnswerIsOwn == \A c \in Call : pc[c] = "ok" => answer[c] = (c \in Holds)

\* Every wait ends but the one for the proof and its transaction, and that one
\* is only kept by a peer that stays silent ("the proof itself is never
\* bounded", timeouts.ts).
EveryWaitEnds ==
  \A c \in Call :
    pc[c] = "called" ~>
      \/ pc[c] \in {"ok", "degraded"}
      \/ /\ pc[c] \in {"joined", "proving", "landing"}
         /\ "silent" \in {world.wallet, world.server, world.indexer}

\* A call on these ports keeps the contract of a proof port: one answer, and
\* no second thoughts.
PortOutcome ==
  [c \in Call |-> CASE pc[c] = "idle"     -> "unasked"
                    [] pc[c] = "ok"       -> "decided"
                    [] pc[c] = "degraded" -> "degraded"
                    [] OTHER              -> "asked"]

Port == INSTANCE ProofPort WITH
          outcome <- PortOutcome, ended <- FALSE, IssuerCall <- {}, CheckCall <- {}
ImplementsProofPort == Port!Safety
=============================================================================
