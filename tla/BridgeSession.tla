--------------------------- MODULE BridgeSession ---------------------------
(***************************************************************************)
(* A page's side of the local proof server (api/src/bridgeProofPort.ts):   *)
(* one trip for a backing check, two for an identity check, each bounded   *)
(* by an abort that covers the body as well as the headers.  Nothing ties  *)
(* the two trips together, and the server may be restarted, hang or be     *)
(* gone at any moment; every process signs under an issuer key of its own. *)
(* Of the inside of that process, which is module Serve, this module keeps *)
(* what a caller can tell: how each deployment stands, and what network    *)
(* the next one would be opened on.                                        *)
(***************************************************************************)
EXTENDS Naturals

CONSTANTS
  BackingCall,   \* checks of the collateral
  IdentityCall,  \* checks of the attestation
  Holds,         \* the calls whose predicate holds
  Hosts,         \* whether this page has a fetch
  MaxChanges     \* restarts, hangs, stops, and failures inside the server

PageCall == BackingCall \cup IdentityCall

ASSUME SessionAssumption ==
  /\ BackingCall \cap IdentityCall = {} /\ Holds \subseteq PageCall
  /\ Hosts \subseteq BOOLEAN /\ MaxChanges \in Nat

VARIABLES
  canFetch,    \* fetch is there
  process,     \* the process that serves, counted from 1
  health,      \* "up", "hung" or "down"
  deployment,  \* its deployment for each port
  network,     \* what sharedEnvironment() hands to the next one
  changes,     \* how much of the above has changed by itself
  pc,          \* where each call is
  wire,        \* the trip it is on
  held,        \* the process that holds its request
  key,         \* the process whose issuer key the first trip brought, 0 for none
  body,        \* what is in the answer on the wire
  answer,      \* the value of a decided call
  by,          \* history: the process that decided it
  expired      \* history: the calls of which a trip ran out of its time

serverVars == <<process, health, deployment, network, changes>>
clientVars == <<pc, wire, held, key, body, answer, by, expired>>
vars == <<canFetch, serverVars, clientVars>>

Port == {"backing", "identity"}
PortOf(c) == IF c \in BackingCall THEN "backing" ELSE "identity"

\* "doomed" is opening on a network that cannot serve it, and "dead" memoised
\* after its network has gone: it publishes its key and proves nothing.
Deployment == {"none", "opening", "doomed", "open", "dead"}

\* "up" stands for a network that answers, or for a start yet to be made;
\* "rejected" for a start that threw, which stays memoised.
NetworkState == {"up", "dead", "rejected"}

Init ==
  /\ canFetch \in Hosts
  /\ process = 1 /\ health = "up" /\ network = "up" /\ changes = 0
  /\ deployment = [p \in Port |-> "none"]
  /\ pc = [c \in PageCall |-> "idle"]
  /\ wire = [c \in PageCall |-> "none"]
  /\ held = [c \in PageCall |-> 0]
  /\ key = [c \in PageCall |-> 0]
  /\ body = [c \in PageCall |-> "none"]
  /\ answer = [c \in PageCall |-> FALSE]
  /\ by = [c \in PageCall |-> 0]
  /\ expired = {}

----------------------------------------------------------------------------
(* The page.                                                               *)

\* send(): the request goes out and the timer is set.
Trip(c, stage) ==
  /\ pc' = [pc EXCEPT ![c] = stage]
  /\ wire' = [wire EXCEPT ![c] = "sent"]

\* The issuer key first, and never the proof before it.
Ask(c) ==
  /\ pc[c] = "idle"
  /\ Trip(c, IF c \in IdentityCall THEN "issuer" ELSE "check")
  /\ UNCHANGED <<canFetch, serverVars, held, key, body, answer, by, expired>>

\* A page without a fetch, and a port with nobody behind it, fail at once; a
\* process that hangs accepts.
Reach(c) ==
  /\ wire[c] = "sent"
  /\ IF ~canFetch \/ health = "down"
     THEN /\ wire' = [wire EXCEPT ![c] = "broken"]
          /\ UNCHANGED held
     ELSE /\ wire' = [wire EXCEPT ![c] = "open"]
          /\ held' = [held EXCEPT ![c] = process]
  /\ UNCHANGED <<canFetch, serverVars, pc, key, body, answer, by, expired>>

\* Mutation: the failure is thrown at the screen.
FailsThrowing(c) ==
  /\ \/ wire[c] = "broken"
     \/ (wire[c] = "body" /\ body[c] # "value")
  /\ pc' = [pc EXCEPT ![c] = "thrown"]
  /\ wire' = [wire EXCEPT ![c] = "none"]
  /\ UNCHANGED <<canFetch, serverVars, held, key, body, answer, by, expired>>

\* Mutation: a degraded call is put back, to be made again.
FailsForgetting(c) ==
  /\ \/ wire[c] = "broken"
     \/ (wire[c] = "body" /\ body[c] # "value")
  /\ pc' = [pc EXCEPT ![c] = "idle"]
  /\ wire' = [wire EXCEPT ![c] = "none"]
  /\ UNCHANGED <<canFetch, serverVars, held, key, body, answer, by, expired>>

\* A rejected fetch, a body that is not JSON or not of the shape asked for,
\* and the typed degraded body of the server all degrade the call.
Fails(c) ==
  /\ \/ wire[c] = "broken"
     \/ (wire[c] = "body" /\ body[c] # "value")
  /\ pc' = [pc EXCEPT ![c] = "degraded"]
  /\ wire' = [wire EXCEPT ![c] = "none"]
  /\ UNCHANGED <<canFetch, serverVars, held, key, body, answer, by, expired>>

\* Mutation: the key of an earlier check is kept for the next ones.
KeyFirstHeard(c) ==
  IF \E d \in IdentityCall : key[d] # 0
  THEN key[CHOOSE d \in IdentityCall : key[d] # 0] ELSE held[c]

\* The key the second trip carries is the one the first brought.
KeyBrought(c) == held[c]

SecondTrip(c) ==
  /\ pc[c] = "issuer" /\ wire[c] = "body" /\ body[c] = "value"
  /\ key' = [key EXCEPT ![c] = KeyBrought(c)]
  /\ Trip(c, "check")
  /\ UNCHANGED <<canFetch, serverVars, held, body, answer, by, expired>>

Answered(c) ==
  /\ pc[c] = "check" /\ wire[c] = "body" /\ body[c] = "value"
  /\ pc' = [pc EXCEPT ![c] = "ok"]
  /\ wire' = [wire EXCEPT ![c] = "none"]
  /\ UNCHANGED <<canFetch, serverVars, held, key, body, answer, by, expired>>

\* Mutation: the timer is cleared once the headers are there.
BoundedUntilHeaders == {"open"}

\* The waits the timer of a trip covers.
Bounded == {"open", "headers"}

\* The timer fires, however the server is doing.
Expires(c) ==
  /\ wire[c] \in Bounded
  /\ wire' = [wire EXCEPT ![c] = "broken"]
  /\ expired' = expired \cup {c}
  /\ UNCHANGED <<canFetch, serverVars, pc, held, key, body, answer, by>>

PageProceeds(c) == Reach(c) \/ Fails(c) \/ SecondTrip(c) \/ Answered(c) \/ Expires(c)

----------------------------------------------------------------------------
(* The server behind it.                                                   *)

Serving(c) == wire[c] = "open" /\ held[c] = process /\ health = "up"

\* The first request for a port opens its deployment, on the network there is.
Open(c) ==
  /\ Serving(c) /\ deployment[PortOf(c)] = "none"
  /\ deployment' = [deployment EXCEPT ![PortOf(c)] = IF network = "up" THEN "opening" ELSE "doomed"]
  /\ UNCHANGED <<canFetch, process, health, network, changes, clientVars>>

Opened(p) ==
  /\ deployment[p] = "opening" /\ health = "up"
  /\ deployment' = [deployment EXCEPT ![p] = "open"]
  /\ UNCHANGED <<canFetch, process, health, network, changes, clientVars>>

Replies(c, content) ==
  /\ wire' = [wire EXCEPT ![c] = "headers"]
  /\ body' = [body EXCEPT ![c] = content]

\* Everyone who waits on the deployment of p is told that it degraded.
TellWaiting(p) ==
  LET waiting == {c \in PageCall : Serving(c) /\ PortOf(c) = p}
  IN /\ wire' = [c \in PageCall |-> IF c \in waiting THEN "headers" ELSE wire[c]]
     /\ body' = [c \in PageCall |-> IF c \in waiting THEN "degraded" ELSE body[c]]

\* A deployment that degrades is forgotten.  Backing shuts the network down
\* that failed it, and so the next one gets another; identity does not, and
\* neither gets past a start that threw.
GivesUp(p) ==
  /\ deployment[p] = "doomed" /\ health = "up"
  /\ deployment' = [deployment EXCEPT ![p] = "none"]
  /\ network' = IF p = "backing" /\ network = "dead" THEN "up" ELSE network
  /\ TellWaiting(p)
  /\ UNCHANGED <<canFetch, process, health, changes, pc, held, key, answer, by, expired>>

\* Mutation: a key that does not verify is answered with a no.
AnyKeyDecides(c) == TRUE

\* The attestation of a process verifies under its own key only, and under any
\* other the circuit aborts: nothing is decided.
KeyVerifies(c) == c \in IdentityCall => key[c] = process

Publish(c) ==
  /\ pc[c] = "issuer" /\ Serving(c) /\ deployment["identity"] \in {"open", "dead"}
  /\ Replies(c, "value")
  /\ UNCHANGED <<canFetch, serverVars, pc, held, key, answer, by, expired>>

Prove(c) ==
  /\ pc[c] = "check" /\ Serving(c) /\ deployment[PortOf(c)] \in {"open", "dead"}
  /\ IF deployment[PortOf(c)] = "open" /\ KeyVerifies(c)
     THEN /\ Replies(c, "value")
          /\ answer' = [answer EXCEPT ![c] = c \in Holds /\ (c \in IdentityCall => key[c] = process)]
          /\ by' = [by EXCEPT ![c] = process]
     ELSE Replies(c, "degraded") /\ UNCHANGED <<answer, by>>
  /\ UNCHANGED <<canFetch, serverVars, pc, held, key, expired>>

\* The rest of an answer arrives unless its process hangs or dies first.
BodyArrives(c) ==
  /\ wire[c] = "headers" /\ health = "up"
  /\ wire' = [wire EXCEPT ![c] = "body"]
  /\ UNCHANGED <<canFetch, serverVars, pc, held, key, body, answer, by, expired>>

ServerProceeds(c) == Open(c) \/ Publish(c) \/ Prove(c) \/ BodyArrives(c)

\* Connections to a process that ends are reset, half an answer included.
Reset(w) == [c \in PageCall |-> IF w[c] \in {"open", "headers"} THEN "broken" ELSE w[c]]

Restarts ==
  /\ health' \in {"up", "down"} /\ process' = process + 1
  /\ deployment' = [p \in Port |-> "none"] /\ network' = "up"
  /\ wire' = Reset(wire)
  /\ UNCHANGED body

Hangs ==
  /\ health # "down" /\ health' \in {"up", "hung"} \ {health}
  /\ UNCHANGED <<process, deployment, network, wire, body>>

\* No contract, a start that degrades, providers that throw, an identity deploy
\* that fails: the attempt is forgotten, and the network is not its business.
Degrades(p) ==
  /\ deployment[p] = "opening" /\ health = "up"
  /\ deployment' = [deployment EXCEPT ![p] = "none"]
  /\ TellWaiting(p)
  /\ UNCHANGED <<process, health, network>>

\* What shutting its network down makes of the other port's deployment: one
\* that was opening may not have got to it yet, or be done just in time.
Robbed(d) ==
  CASE d = "open" -> {"dead"} [] d = "opening" -> {"opening", "doomed", "dead"} [] OTHER -> {d}

\* A backing deploy that fails shuts the shared network down, whoever else
\* stands on it.
BackingTakesNetwork ==
  /\ deployment["backing"] = "opening" /\ health = "up"
  /\ \E d \in Robbed(deployment["identity"]) :
       deployment' = [deployment EXCEPT !["backing"] = "none", !["identity"] = d]
  /\ TellWaiting("backing")
  /\ UNCHANGED <<process, health, network>>

\* The network goes away by itself, or the start throws that everyone awaits.
LosesNetwork ==
  /\ \E p \in Port : deployment[p] \in {"opening", "open"}
  /\ network' \in {"dead"} \cup (IF \E p \in Port : deployment[p] = "open" THEN {} ELSE {"rejected"})
  /\ deployment' = [p \in Port |-> CASE deployment[p] = "open"    -> "dead"
                                    [] deployment[p] = "opening" -> "doomed"
                                    [] OTHER                     -> deployment[p]]
  /\ UNCHANGED <<process, health, wire, body>>

\* A call on the circuit degrades, or something else answers on the port: a
\* proxy, an error page.
AnswersOtherwise(c) ==
  /\ Serving(c) /\ \E content \in {"degraded", "other"} : Replies(c, content)
  /\ UNCHANGED <<process, health, deployment, network>>

Changes ==
  /\ changes < MaxChanges /\ changes' = changes + 1
  /\ \/ Restarts
     \/ Hangs
     \/ \E p \in Port : Degrades(p)
     \/ BackingTakesNetwork
     \/ LosesNetwork
     \/ \E c \in PageCall : AnswersOtherwise(c)
  /\ UNCHANGED <<canFetch, pc, held, key, answer, by, expired>>

Next ==
  \/ \E c \in PageCall : Ask(c) \/ PageProceeds(c) \/ ServerProceeds(c)
  \/ \E p \in Port : Opened(p) \/ GivesUp(p)
  \/ Changes

Safety == Init /\ [][Next]_vars

\* The page's event loop and timers, and a server that works while it is up.
Fairness ==
  /\ \A c \in PageCall : WF_vars(PageProceeds(c)) /\ WF_vars(ServerProceeds(c))
  /\ \A p \in Port : WF_vars(Opened(p) \/ GivesUp(p))

Spec == Safety /\ Fairness

----------------------------------------------------------------------------
TypeOK ==
  /\ canFetch \in BOOLEAN
  /\ process \in 1..(MaxChanges + 1) /\ health \in {"up", "hung", "down"}
  /\ deployment \in [Port -> Deployment] /\ network \in NetworkState /\ changes \in 0..MaxChanges
  /\ pc \in [PageCall -> {"idle", "issuer", "check", "ok", "degraded"}]
  /\ wire \in [PageCall -> {"none", "sent", "open", "headers", "body", "broken"}]
  /\ held \in [PageCall -> 0..process] /\ key \in [PageCall -> 0..process] /\ by \in [PageCall -> 0..process]
  /\ body \in [PageCall -> {"none", "value", "degraded", "other"}]
  /\ answer \in [PageCall -> BOOLEAN] /\ expired \subseteq PageCall

\* A server restarted between the two trips, or under a proof, never turns a
\* claim that holds into a no: what decided a check is the process whose key
\* the check was asked under, and the answer is the circuit's ("the bug this
\* order exists to prevent", bridgeProofPort.ts).
DecidedUnderItsKey ==
  \A c \in PageCall : pc[c] = "ok" =>
    /\ answer[c] = (c \in Holds)
    /\ c \in IdentityCall => by[c] = key[c]

\* "This never throws and never hangs: the abort below bounds the wait
\* unconditionally" (bridgeProofPort.ts), of a server that stops half-way
\* through an answer too.
EveryCallEnds == \A c \in PageCall : (pc[c] \in {"issuer", "check"}) ~> (pc[c] \in {"ok", "degraded"})

\* A check asked of a server at rest is decided, however earlier checks and
\* processes ended, unless one of its own trips runs out of time.  At rest means
\* more than up: a memoised deployment on a network that is gone degrades every
\* check until the server is restarted, and so does an opening on such a network.
Live(p) ==
  \/ deployment[p] = "open"
  \/ deployment[p] \in {"none", "opening"} /\ network = "up"

AtRest(c) == canFetch /\ changes = MaxChanges /\ health = "up" /\ Live(PortOf(c))

RetryIsDecided ==
  \A c \in PageCall :
    (AtRest(c) /\ wire[c] = "sent" /\ (pc[c] = "issuer" \/ c \in BackingCall))
      ~> (pc[c] = "ok" \/ c \in expired)

\* Seen from the screens, the bridge keeps the contract of a proof port.
PortOutcome ==
  [c \in PageCall |-> CASE pc[c] = "idle"     -> "unasked"
                        [] pc[c] = "ok"       -> "decided"
                        [] pc[c] = "degraded" -> "degraded"
                        [] OTHER              -> "asked"]

Bridge == INSTANCE ProofPort WITH
            Call <- PageCall, IssuerCall <- {}, CheckCall <- {},
            outcome <- PortOutcome, ended <- FALSE
ImplementsProofPort == Bridge!Safety
=============================================================================
