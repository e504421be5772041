--------------------------- MODULE Services_proof --------------------------
(***************************************************************************)
(* Proofs about what is asked over HTTP: the bridge client (BridgeSession),*)
(* who signs a claim (CrevaIssuer), the advisor, and the signature and its *)
(* two verifiers (SchnorrSigning); and that in Services each of them       *)
(* behaves as it does alone.                                               *)
(***************************************************************************)
EXTENDS Services, Integers, TLAPS

(***************************************************************************)
(* The bridge, for all sets of calls and any number of restarts: what      *)
(* decides a check, and that it keeps the contract of a proof port.        *)
(***************************************************************************)
\* The process counts the changes it was made by.
CountInv == process <= changes + 1

\* A call is on a trip only while it is asked.
TripInv == \A c \in PageCall : wire[c] # "none" => pc[c] \in {"issuer", "check"}

\* The answer of c is the circuit's, under the key c was asked under.
Settled(c) == answer[c] = (c \in Holds) /\ (c \in IdentityCall => by[c] = key[c])

\* A value on its way back to a check is such an answer, and so is one that
\* has arrived.
AnswerInv ==
  \A c \in PageCall :
    /\ pc[c] = "check" /\ wire[c] \in {"headers", "body"} /\ body[c] = "value" => Settled(c)
    /\ pc[c] = "ok" => Settled(c)

BridgeInv == TypeOK /\ CountInv /\ TripInv /\ AnswerInv

LEMMA BridgeInitially == Init => BridgeInv
<1> SUFFICES ASSUME Init PROVE BridgeInv
  OBVIOUS
<1>1. TypeOK
  BY SessionAssumption DEF Init, TypeOK, Deployment, NetworkState
<1> QED BY <1>1 DEF Init, BridgeInv, CountInv, TripInv, AnswerInv

LEMMA BridgeTypes ==
  ASSUME TypeOK, CountInv, [Next]_vars
  PROVE  TypeOK' /\ CountInv'
<1> USE SessionAssumption
<1>t. process \in Nat /\ changes \in Nat /\ 0 \in 0..process
  BY DEF TypeOK
<1>1. ASSUME NEW c \in PageCall, Ask(c) PROVE TypeOK' /\ CountInv'
  BY <1>1 DEF Ask, Trip, TypeOK, CountInv, serverVars
<1>2. ASSUME NEW c \in PageCall, Reach(c) PROVE TypeOK' /\ CountInv'
  <2>1. process \in 0..process
    BY <1>t
  <2>2. held' \in [PageCall -> 0..process] /\ wire' \in [PageCall -> {"none", "sent", "open", "headers", "body", "broken"}]
    BY <1>2, <2>1 DEF Reach, TypeOK
  <2> QED BY <1>2, <2>2 DEF Reach, TypeOK, CountInv, serverVars
<1>3. ASSUME NEW c \in PageCall, Fails(c) PROVE TypeOK' /\ CountInv'
  BY <1>3 DEF Fails, TypeOK, CountInv, serverVars
<1>4. ASSUME NEW c \in PageCall, SecondTrip(c) PROVE TypeOK' /\ CountInv'
  BY <1>4 DEF SecondTrip, KeyBrought, Trip, TypeOK, CountInv, serverVars
<1>5. ASSUME NEW c \in PageCall, Answered(c) PROVE TypeOK' /\ CountInv'
  BY <1>5 DEF Answered, TypeOK, CountInv, serverVars
<1>6. ASSUME NEW c \in PageCall, Expires(c) PROVE TypeOK' /\ CountInv'
  BY <1>6 DEF Expires, TypeOK, CountInv, serverVars
<1>7. ASSUME NEW c \in PageCall, Open(c) PROVE TypeOK' /\ CountInv'
  BY <1>7 DEF Open, Deployment, TypeOK, CountInv, clientVars
<1>8. ASSUME NEW p \in Port, Opened(p) PROVE TypeOK' /\ CountInv'
  BY <1>8 DEF Opened, Deployment, TypeOK, CountInv, clientVars
<1>9. ASSUME NEW c \in PageCall, Publish(c) PROVE TypeOK' /\ CountInv'
  BY <1>9 DEF Publish, Replies, TypeOK, CountInv, serverVars
<1>10. ASSUME NEW c \in PageCall, Prove(c) PROVE TypeOK' /\ CountInv'
  <2>1. process \in 0..process
    BY <1>t
  <2>2. by' \in [PageCall -> 0..process]
    BY <1>10, <2>1 DEF Prove, TypeOK
  <2>3. answer' \in [PageCall -> BOOLEAN]
    BY <1>10 DEF Prove, TypeOK
  <2>4. /\ body' \in [PageCall -> {"none", "value", "degraded", "other"}]
        /\ wire' \in [PageCall -> {"none", "sent", "open", "headers", "body", "broken"}]
    BY <1>10 DEF Prove, Replies, TypeOK
  <2> QED BY <1>10, <2>2, <2>3, <2>4 DEF Prove, TypeOK, CountInv, serverVars
<1>11. ASSUME NEW c \in PageCall, BodyArrives(c) PROVE TypeOK' /\ CountInv'
  BY <1>11 DEF BodyArrives, TypeOK, CountInv, serverVars
<1>12. ASSUME Changes PROVE TypeOK' /\ CountInv'
  <2> DEFINE Wires == wire' \in [PageCall -> {"none", "sent", "open", "headers", "body", "broken"}]
             Bodies == body' \in [PageCall -> {"none", "value", "degraded", "other"}]
             Deployments == deployment' \in [Port -> Deployment] /\ network' \in NetworkState
             Server == process' \in {process, process + 1} /\ health' \in {"up", "hung", "down"}
  <2>1. changes < MaxChanges /\ changes' = changes + 1 /\ UNCHANGED <<canFetch, pc, held, key, answer, by, expired>>
    BY <1>12 DEF Changes
  <2>2. Wires /\ Bodies /\ Deployments /\ Server
    <3>1. CASE Restarts
      BY <3>1 DEF Restarts, Reset, Deployment, NetworkState, TypeOK
    <3>2. CASE Hangs
      BY <3>2 DEF Hangs, TypeOK
    <3>3. ASSUME NEW p \in Port, Degrades(p) PROVE Wires /\ Bodies /\ Deployments /\ Server
      BY <3>3 DEF Degrades, TellWaiting, Deployment, TypeOK
    <3>4. CASE BackingTakesNetwork
      <4>1. \A d \in Deployment : Robbed(d) \subseteq Deployment
        BY DEF Robbed, Deployment
      <4>2. deployment' \in [Port -> Deployment]
        BY <3>4, <4>1 DEF BackingTakesNetwork, Deployment, Port, TypeOK
      <4> QED BY <3>4, <4>2 DEF BackingTakesNetwork, TellWaiting, TypeOK
    <3>5. CASE LosesNetwork
      BY <3>5 DEF LosesNetwork, Deployment, NetworkState, TypeOK
    <3>6. ASSUME NEW c \in PageCall, AnswersOtherwise(c) PROVE Wires /\ Bodies /\ Deployments /\ Server
      BY <3>6 DEF AnswersOtherwise, Replies, TypeOK
    <3> QED BY <1>12, <3>1, <3>2, <3>3, <3>4, <3>5, <3>6 DEF Changes
  <2>3. CountInv' /\ process' \in 1..(MaxChanges + 1) /\ changes' \in 0..MaxChanges
    BY <1>t, <2>1, <2>2 DEF CountInv, TypeOK
  <2>4. held' \in [PageCall -> 0..process'] /\ key' \in [PageCall -> 0..process'] /\ by' \in [PageCall -> 0..process']
    <3>1. \A x \in 0..process : x \in 0..process'
      BY <1>t, <2>2
    <3> QED BY <2>1, <3>1 DEF TypeOK
  <2> QED BY <2>1, <2>2, <2>3, <2>4 DEF TypeOK
<1>13. ASSUME NEW p \in Port, GivesUp(p) PROVE TypeOK' /\ CountInv'
  <2>1. deployment' \in [Port -> Deployment] /\ network' \in NetworkState
    BY <1>13 DEF GivesUp, Deployment, NetworkState, TypeOK
  <2>2. /\ body' \in [PageCall -> {"none", "value", "degraded", "other"}]
        /\ wire' \in [PageCall -> {"none", "sent", "open", "headers", "body", "broken"}]
    BY <1>13 DEF GivesUp, TellWaiting, TypeOK
  <2> QED BY <1>13, <2>1, <2>2 DEF GivesUp, TypeOK, CountInv
<1>14. CASE UNCHANGED vars
  BY <1>14 DEF vars, serverVars, clientVars, TypeOK, CountInv
<1> QED
  BY <1>1, <1>2, <1>3, <1>4, <1>5, <1>6, <1>7, <1>8, <1>9, <1>10, <1>11, <1>12, <1>13, <1>14
     DEF Next, PageProceeds, ServerProceeds

\* What a change inside the server, or a deployment given up on, does to the
\* trips: it breaks some and answers others, and with no value for a proof.
LEMMA WireOf ==
  ASSUME TypeOK, Changes \/ \E p \in Port : GivesUp(p), NEW c \in PageCall
  PROVE  /\ wire'[c] # "none" => wire[c] # "none"
         /\ wire'[c] \in {"headers", "body"} /\ body'[c] = "value" =>
              wire[c] \in {"headers", "body"} /\ body[c] = "value"
<1> DEFINE Goal == /\ wire'[c] # "none" => wire[c] # "none"
                   /\ wire'[c] \in {"headers", "body"} /\ body'[c] = "value" =>
                        wire[c] \in {"headers", "body"} /\ body[c] = "value"
<1>1. CASE Restarts
  BY <1>1 DEF Restarts, Reset, TypeOK
<1>2. CASE UNCHANGED <<wire, body>>
  BY <1>2
<1>3. ASSUME NEW p \in Port, TellWaiting(p) PROVE Goal
  BY <1>3 DEF TellWaiting, Serving
<1>4. ASSUME NEW d \in PageCall, AnswersOtherwise(d) PROVE Goal
  BY <1>4 DEF AnswersOtherwise, Replies, Serving, TypeOK
<1>5. \/ Restarts \/ UNCHANGED <<wire, body>>
      \/ \E p \in Port : TellWaiting(p)
      \/ \E d \in PageCall : AnswersOtherwise(d)
  BY DEF Changes, Hangs, Degrades, BackingTakesNetwork, LosesNetwork, GivesUp, Port
<1> QED BY <1>1, <1>2, <1>3, <1>4, <1>5

LEMMA TripStep ==
  ASSUME TypeOK, TripInv, [Next]_vars
  PROVE  TripInv'
<1>1. ASSUME NEW c \in PageCall, Ask(c) PROVE TripInv'
  BY <1>1 DEF Ask, Trip, TypeOK, TripInv
<1>2. ASSUME NEW c \in PageCall, Reach(c) PROVE TripInv'
  BY <1>2 DEF Reach, TypeOK, TripInv
<1>3. ASSUME NEW c \in PageCall, Fails(c) PROVE TripInv'
  BY <1>3 DEF Fails, TypeOK, TripInv
<1>4. ASSUME NEW c \in PageCall, SecondTrip(c) PROVE TripInv'
  BY <1>4 DEF SecondTrip, Trip, TypeOK, TripInv
<1>5. ASSUME NEW c \in PageCall, Answered(c) PROVE TripInv'
  BY <1>5 DEF Answered, TypeOK, TripInv
<1>6. ASSUME NEW c \in PageCall, Expires(c) PROVE TripInv'
  BY <1>6 DEF Expires, Bounded, TypeOK, TripInv
<1>7. ASSUME NEW c \in PageCall, Publish(c) \/ Prove(c) PROVE TripInv'
  BY <1>7 DEF Publish, Prove, Replies, Serving, TypeOK, TripInv
<1>8. ASSUME NEW c \in PageCall, BodyArrives(c) PROVE TripInv'
  BY <1>8 DEF BodyArrives, TypeOK, TripInv
<1>9. ASSUME Changes \/ \E p \in Port : GivesUp(p) PROVE TripInv'
  <2>1. \A c \in PageCall : wire'[c] # "none" => wire[c] # "none"
    BY <1>9, WireOf
  <2> QED BY <1>9, <2>1 DEF Changes, GivesUp, TripInv
<1>10. CASE UNCHANGED <<pc, wire>>
  BY <1>10 DEF TripInv
<1> QED
  BY <1>1, <1>2, <1>3, <1>4, <1>5, <1>6, <1>7, <1>8, <1>9, <1>10
     DEF Next, PageProceeds, ServerProceeds, Open, Opened, vars, clientVars

\* A step after which nothing has arrived at c that was not there before keeps
\* what is known of its answer.
LEMMA AnswerKept ==
  ASSUME AnswerInv, NEW c \in PageCall,
         answer'[c] = answer[c], by'[c] = by[c], key'[c] = key[c], pc'[c] = pc[c],
         wire'[c] \in {"headers", "body"} /\ body'[c] = "value" =>
           wire[c] \in {"headers", "body"} /\ body[c] = "value"
  PROVE  /\ pc'[c] = "check" /\ wire'[c] \in {"headers", "body"} /\ body'[c] = "value" => Settled(c)'
         /\ pc'[c] = "ok" => Settled(c)'
BY DEF AnswerInv, Settled

LEMMA AnswerStep ==
  ASSUME TypeOK, AnswerInv, [Next]_vars
  PROVE  AnswerInv'
<1> SUFFICES ASSUME NEW d \in PageCall
             PROVE  /\ pc'[d] = "check" /\ wire'[d] \in {"headers", "body"} /\ body'[d] = "value" => Settled(d)'
                    /\ pc'[d] = "ok" => Settled(d)'
  BY DEF AnswerInv
<1>1. ASSUME NEW c \in PageCall, Ask(c) PROVE AnswerInv'
  BY <1>1 DEF Ask, Trip, TypeOK, AnswerInv, Settled
<1>2. ASSUME NEW c \in PageCall, Reach(c) PROVE AnswerInv'
  BY <1>2 DEF Reach, TypeOK, AnswerInv, Settled
<1>3. ASSUME NEW c \in PageCall, Fails(c) PROVE AnswerInv'
  BY <1>3 DEF Fails, TypeOK, AnswerInv, Settled
<1>4. ASSUME NEW c \in PageCall, SecondTrip(c) PROVE AnswerInv'
  BY <1>4 DEF SecondTrip, Trip, TypeOK, AnswerInv, Settled
<1>5. ASSUME NEW c \in PageCall, Answered(c) PROVE AnswerInv'
  BY <1>5 DEF Answered, TypeOK, AnswerInv, Settled
<1>6. ASSUME NEW c \in PageCall, Expires(c) PROVE AnswerInv'
  BY <1>6 DEF Expires, TypeOK, AnswerInv, Settled
<1>7. ASSUME NEW c \in PageCall, Publish(c) PROVE AnswerInv'
  BY <1>7 DEF Publish, Replies, TypeOK, AnswerInv, Settled
<1>8. ASSUME NEW c \in PageCall, Prove(c)
      PROVE  /\ pc'[d] = "check" /\ wire'[d] \in {"headers", "body"} /\ body'[d] = "value" => Settled(d)'
             /\ pc'[d] = "ok" => Settled(d)'
  <2>1. CASE d # c
    <3>1. /\ answer'[d] = answer[d] /\ by'[d] = by[d] /\ key'[d] = key[d] /\ pc'[d] = pc[d]
          /\ wire'[d] = wire[d] /\ body'[d] = body[d]
      BY <1>8, <2>1 DEF Prove, Replies, TypeOK
    <3> QED BY <3>1, AnswerKept
  <2>2. CASE d = c /\ deployment[PortOf(c)] = "open" /\ KeyVerifies(c)
    <3>1. /\ answer'[c] = (c \in Holds /\ (c \in IdentityCall => key[c] = process))
          /\ by'[c] = process /\ key'[c] = key[c] /\ pc'[c] = "check"
      BY <1>8, <2>2 DEF Prove, TypeOK
    <3> QED BY <2>2, <3>1 DEF KeyVerifies, Settled
  <2>3. CASE d = c /\ ~(deployment[PortOf(c)] = "open" /\ KeyVerifies(c))
    BY <1>8, <2>3 DEF Prove, Replies, TypeOK
  <2> QED BY <2>1, <2>2, <2>3
<1>9. ASSUME NEW c \in PageCall, BodyArrives(c) PROVE AnswerInv'
  BY <1>9 DEF BodyArrives, TypeOK, AnswerInv, Settled
<1>10. ASSUME Changes \/ \E p \in Port : GivesUp(p) PROVE AnswerInv'
  <2> SUFFICES ASSUME NEW c \in PageCall
               PROVE  /\ pc'[c] = "check" /\ wire'[c] \in {"headers", "body"} /\ body'[c] = "value" => Settled(c)'
                      /\ pc'[c] = "ok" => Settled(c)'
    BY DEF AnswerInv
  <2>1. answer' = answer /\ by' = by /\ key' = key /\ pc' = pc
    BY <1>10 DEF Changes, GivesUp
  <2>2. wire'[c] \in {"headers", "body"} /\ body'[c] = "value" =>
          wire[c] \in {"headers", "body"} /\ body[c] = "value"
    BY <1>10, WireOf
  <2> QED BY <2>1, <2>2, AnswerKept
<1>11. CASE UNCHANGED clientVars
  BY <1>11 DEF clientVars, AnswerInv, Settled
<1> QED
  BY <1>1, <1>2, <1>3, <1>4, <1>5, <1>6, <1>7, <1>8, <1>9, <1>10, <1>11
     DEF Next, PageProceeds, ServerProceeds, Open, Opened, vars, AnswerInv

\* Every reachable state of a session has the strengthened invariant.
THEOREM BridgeInvariant == Safety => []BridgeInv
<1>1. BridgeInv /\ [Next]_vars => BridgeInv'
  BY BridgeTypes, TripStep, AnswerStep DEF BridgeInv
<1> QED BY <1>1, BridgeInitially, PTL DEF Safety

\* Type correctness of BridgeSession.
THEOREM BridgeTypeCorrect == Safety => []TypeOK
  BY BridgeInvariant, PTL DEF BridgeInv

\* A decided check is decided by the circuit, under the key it was asked under:
\* the two trips of createBridgeIdentityPort survive any restart between them.
THEOREM BridgeDecides == Safety => []DecidedUnderItsKey
<1>1. BridgeInv => DecidedUnderItsKey
  BY DEF BridgeInv, AnswerInv, Settled, DecidedUnderItsKey
<1> QED BY <1>1, BridgeInvariant, PTL

LEMMA BridgeRefines ==
  ASSUME TypeOK, TripInv, [Next]_vars
  PROVE  [Bridge!Next]_(Bridge!vars)
<1> DEFINE Stays == \A c \in PageCall : pc'[c] = pc[c] \/ (pc[c] \in {"issuer", "check"} /\ pc'[c] \in {"issuer", "check"})
<1>1. ASSUME Stays PROVE PortOutcome' = PortOutcome
  BY <1>1 DEF PortOutcome
<1>2. ASSUME NEW c \in PageCall, Ask(c) PROVE Bridge!Ask(c)
  <2>1. pc[c] = "idle" /\ pc'[c] \in {"issuer", "check"} /\ \A d \in PageCall \ {c} : pc'[d] = pc[d]
    BY <1>2 DEF Ask, Trip, TypeOK
  <2>2. PortOutcome[c] = "unasked" /\ PortOutcome' = [PortOutcome EXCEPT ![c] = "asked"]
    BY <2>1 DEF PortOutcome
  <2> QED BY <2>2 DEF Bridge!Ask
<1>3. ASSUME NEW c \in PageCall, Fails(c) PROVE Bridge!Degrade(c)
  <2>1. pc[c] \in {"issuer", "check"} /\ pc'[c] = "degraded" /\ \A d \in PageCall \ {c} : pc'[d] = pc[d]
    BY <1>3 DEF Fails, TypeOK, TripInv
  <2>2. PortOutcome[c] = "asked" /\ PortOutcome' = [PortOutcome EXCEPT ![c] = "degraded"]
    BY <2>1 DEF PortOutcome
  <2> QED BY <2>2 DEF Bridge!Degrade
<1>4. ASSUME NEW c \in PageCall, Answered(c) PROVE Bridge!Decide(c)
  <2>1. pc[c] = "check" /\ pc'[c] = "ok" /\ \A d \in PageCall \ {c} : pc'[d] = pc[d]
    BY <1>4 DEF Answered, TypeOK
  <2>2. PortOutcome[c] = "asked" /\ PortOutcome' = [PortOutcome EXCEPT ![c] = "decided"]
    BY <2>1 DEF PortOutcome
  <2> QED BY <2>2 DEF Bridge!Decide
<1>5. ASSUME NEW c \in PageCall, SecondTrip(c) PROVE Stays
  BY <1>5 DEF SecondTrip, Trip, TypeOK
<1>6. ASSUME UNCHANGED pc PROVE Stays
  BY <1>6
<1>7. (\E c \in PageCall : Ask(c) \/ Fails(c) \/ Answered(c) \/ SecondTrip(c)) \/ UNCHANGED pc
  BY DEF Next, PageProceeds, ServerProceeds, Reach, Expires, Open, Opened, Publish, Prove,
         BodyArrives, GivesUp, Changes, vars, serverVars, clientVars
<1> QED
  BY <1>1, <1>2, <1>3, <1>4, <1>5, <1>6, <1>7
     DEF Bridge!Next, Bridge!Answer, Bridge!vars

\* Seen from a screen, the bridge is a proof port: each call gets one answer,
\* and never an exception (the safety half of proofPort.ts).
THEOREM BridgeIsAPort == Safety => ImplementsProofPort
<1>1. Init => Bridge!Init
  BY DEF Init, Bridge!Init, PortOutcome
<1>2. BridgeInv /\ [Next]_vars => [Bridge!Next]_(Bridge!vars)
  BY BridgeRefines DEF BridgeInv
<1> QED BY <1>1, <1>2, BridgeInvariant, PTL DEF Safety, ImplementsProofPort, Bridge!Safety

----------------------------------------------------------------------------
(***************************************************************************)
(* Who signs, for all sets of claims and any number of changes.            *)
(***************************************************************************)
\* The world of a claim that is being checked is among what it has seen, and
\* what a check led to had its reason there.
ClaimInv ==
  \A c \in Issuer!Issue :
    /\ origin[c] = signer[c]
    /\ origin[c] # "none" => claim[c] = "issued"
    /\ claim[c] \in {"checking", "reading"} => api \in probed[c]
    /\ claim[c] = "real" => "ok" \in probed[c]
    /\ c \in BackingIssue => (claim[c] = "synthetic" \/ origin[c] = "synthetic" => probed[c] # {"ok"})

LEMMA ClaimsInitially == Issuer!Init => Issuer!TypeOK /\ ClaimInv
  BY ServicesAssumption DEF Issuer!Init, Issuer!TypeOK, ClaimInv, Issuer!ApiState, Issuer!IssuerAssumption

LEMMA ClaimTypes == Issuer!TypeOK /\ [Issuer!Next]_issuerVars => Issuer!TypeOK'
<1> SUFFICES ASSUME Issuer!TypeOK, [Issuer!Next]_issuerVars PROVE Issuer!TypeOK'
  OBVIOUS
<1> USE ServicesAssumption DEF Issuer!TypeOK, Issuer!world, Issuer!IssuerAssumption
<1>1. ASSUME NEW c \in Issuer!Issue, Issuer!Begin(c) PROVE Issuer!TypeOK'
  BY <1>1 DEF Issuer!Begin
<1>2. ASSUME NEW c \in Issuer!Issue, Issuer!Headers(c) \/ Issuer!ReadBody(c) \/ Issuer!StatusExpires(c)
      PROVE  Issuer!TypeOK'
  BY <1>2 DEF Issuer!Headers, Issuer!ReadBody, Issuer!StatusExpires, Issuer!Body
<1>3. ASSUME NEW c \in Issuer!Issue, Issuer!SignReal(c) \/ Issuer!SignSynthetic(c) PROVE Issuer!TypeOK'
  BY <1>3 DEF Issuer!SignReal, Issuer!SignSynthetic, Issuer!Issued, Issuer!SignerUnavailable
<1>4. CASE Issuer!WorldChanges
  BY <1>4 DEF Issuer!WorldChanges
<1>5. CASE UNCHANGED issuerVars
  BY <1>5 DEF issuerVars
<1> QED BY <1>1, <1>2, <1>3, <1>4, <1>5 DEF Issuer!Next, Issuer!Proceeds

LEMMA ClaimStep ==
  ASSUME Issuer!TypeOK, ClaimInv, [Issuer!Next]_issuerVars
  PROVE  ClaimInv'
<1> USE ServicesAssumption DEF Issuer!TypeOK, Issuer!world, ClaimInv, Issuer!IssuerAssumption, Issuer!Issue
<1>1. ASSUME NEW c \in Issuer!Issue, Issuer!Begin(c) PROVE ClaimInv'
  BY <1>1 DEF Issuer!Begin
<1>2. ASSUME NEW c \in Issuer!Issue, Issuer!Headers(c) \/ Issuer!ReadBody(c) \/ Issuer!StatusExpires(c)
      PROVE  ClaimInv'
  BY <1>2 DEF Issuer!Headers, Issuer!ReadBody, Issuer!StatusExpires, Issuer!Body, Issuer!Timed
<1>3. ASSUME NEW c \in Issuer!Issue, Issuer!SignReal(c) \/ Issuer!SignSynthetic(c) PROVE ClaimInv'
  BY <1>3 DEF Issuer!SignReal, Issuer!SignSynthetic, Issuer!Issued, Issuer!SignerUnavailable
<1>4. CASE Issuer!WorldChanges
  BY <1>4 DEF Issuer!WorldChanges
<1>5. CASE UNCHANGED issuerVars
  BY <1>5 DEF issuerVars
<1> QED BY <1>1, <1>2, <1>3, <1>4, <1>5 DEF Issuer!Next, Issuer!Proceeds

----------------------------------------------------------------------------
(***************************************************************************)
(* The advisor, for any tiers and any number of changes of the model.      *)
(***************************************************************************)
\* What a call may be told, and of which tier.
AnswerSet ==
  [by : {"nobody", "model", "stub", "invalid_tier", "unsafe_model_endpoint"},
   about : Tier \cup {Advice!Unknown}]

\* A call that is out is about a tier, has seen the model as it is, and nobody
\* has answered it yet; an answer is about that tier, and the table's has its
\* cause among what the call has seen.
AdviceInv ==
  \A a \in Asker :
    /\ advising[a] # "settled" => advice[a].by = "nobody"
    /\ advising[a] \in {"asked", "reading"} => tier[a] \in Tier /\ model \in met[a]
    /\ advice[a].by \in {"model", "stub"} => tier[a] \in Tier /\ advice[a].about = tier[a]
    /\ advice[a].by = "stub" => \E m \in met[a] : m # tier[a]

LEMMA AdviceInitially == Advice!Init => Advice!TypeOK /\ AdviceInv
  BY ServicesAssumption
     DEF Advice!Init, Advice!TypeOK, AdviceInv, Advice!Answer,
         Advice!AdvisorAssumption, Advice!Unknown

LEMMA AdviceTypes == Advice!TypeOK /\ [Advice!Next]_adviceVars => Advice!TypeOK'
<1> SUFFICES ASSUME Advice!TypeOK, [Advice!Next]_adviceVars PROVE Advice!TypeOK'
  OBVIOUS
<1> USE ServicesAssumption DEF Advice!TypeOK, Advice!AdvisorAssumption
<1>0. ASSUME NEW a \in Asker, NEW result \in AnswerSet,
             Advice!Settle(a, result), UNCHANGED <<loopback, model, swaps, tier, met>>
      PROVE  Advice!TypeOK'
  BY <1>0 DEF Advice!Settle, AnswerSet
<1>1. ASSUME NEW a \in Asker, Advice!Stub(a) PROVE Advice!TypeOK'
  BY <1>0, <1>1 DEF Advice!Stub, Advice!Answer, AnswerSet
<1>2. ASSUME NEW a \in Asker, Advice!Begin(a) PROVE Advice!TypeOK'
  <2>1. Advice!OnUnsafe(a) \in AnswerSet
    BY DEF Advice!OnUnsafe, Advice!Answer, AnswerSet
  <2>2. Advice!Answer("invalid_tier", Advice!Unknown) \in AnswerSet
    BY DEF Advice!Answer, AnswerSet
  <2>3. ASSUME advising' = [advising EXCEPT ![a] = "asked"], met' = [met EXCEPT ![a] = {model}],
               UNCHANGED <<advice, loopback, model, swaps, tier>>
        PROVE  Advice!TypeOK'
    BY <2>3
  <2> QED BY <1>0, <1>2, <2>1, <2>2, <2>3 DEF Advice!Begin
<1>3. ASSUME NEW a \in Asker, Advice!Headers(a) PROVE Advice!TypeOK'
  BY <1>1, <1>3 DEF Advice!Headers
<1>4. ASSUME NEW a \in Asker, Advice!Body(a) PROVE Advice!TypeOK'
  <2>1. CASE Advice!Trusted(a)
    <3>1. Advice!Answer("model", model) \in AnswerSet
      BY <2>1 DEF Advice!Trusted, Advice!Answer, AnswerSet
    <3> QED BY <1>0, <1>4, <2>1, <3>1 DEF Advice!Body
  <2> QED BY <1>1, <1>4, <2>1 DEF Advice!Body
<1>5. ASSUME NEW a \in Asker, Advice!Expires(a) PROVE Advice!TypeOK'
  BY <1>1, <1>5 DEF Advice!Expires
<1>6. CASE Advice!ModelChanges
  BY <1>6 DEF Advice!ModelChanges
<1>7. CASE UNCHANGED adviceVars
  BY <1>7 DEF adviceVars
<1> QED BY <1>2, <1>3, <1>4, <1>5, <1>6, <1>7 DEF Advice!Next, Advice!Proceeds

LEMMA AdviceStep ==
  ASSUME Advice!TypeOK, AdviceInv, [Advice!Next]_adviceVars
  PROVE  AdviceInv'
<1> USE ServicesAssumption
    DEF Advice!TypeOK, AdviceInv, Advice!AdvisorAssumption, Advice!Unknown,
        Advice!Answer
<1>1. ASSUME NEW a \in Asker, Advice!Stub(a), advising[a] \in {"asked", "reading"}, model # tier[a]
      PROVE  AdviceInv'
  BY <1>1 DEF Advice!Stub, Advice!Settle
<1>2. ASSUME NEW a \in Asker, Advice!Begin(a) PROVE AdviceInv'
  <2>1. ASSUME NEW why \in {"invalid_tier", "unsafe_model_endpoint"},
               Advice!Settle(a, Advice!Answer(why, Advice!Unknown)),
               UNCHANGED <<loopback, model, swaps, tier, met>>
        PROVE  AdviceInv'
    BY <2>1 DEF Advice!Settle
  <2>2. CASE tier[a] \in Tier /\ loopback
    BY <1>2, <2>2 DEF Advice!Begin
  <2> QED BY <1>2, <2>1, <2>2 DEF Advice!Begin, Advice!OnUnsafe
<1>3. ASSUME NEW a \in Asker, Advice!Headers(a) PROVE AdviceInv'
  <2>1. CASE model \in {"refusing", "erring"}
    BY <1>1, <1>3, <2>1 DEF Advice!Headers
  <2>2. CASE model \notin {"refusing", "erring"}
    BY <1>3, <2>2 DEF Advice!Headers
  <2> QED BY <2>1, <2>2
<1>4. ASSUME NEW a \in Asker, Advice!Body(a) PROVE AdviceInv'
  <2>1. CASE Advice!Trusted(a)
    BY <1>4, <2>1 DEF Advice!Body, Advice!Trusted, Advice!Settle
  <2>2. CASE ~Advice!Trusted(a)
    BY <1>1, <1>4, <2>2 DEF Advice!Body, Advice!Trusted
  <2> QED BY <2>1, <2>2
<1>5. ASSUME NEW a \in Asker, Advice!Expires(a) PROVE AdviceInv'
  BY <1>1, <1>5 DEF Advice!Expires, Advice!Timed
<1>6. CASE Advice!ModelChanges
  BY <1>6 DEF Advice!ModelChanges
<1>7. CASE UNCHANGED adviceVars
  BY <1>7 DEF adviceVars
<1> QED BY <1>2, <1>3, <1>4, <1>5, <1>6, <1>7 DEF Advice!Next, Advice!Proceeds

----------------------------------------------------------------------------
(***************************************************************************)
(* Arithmetic.  The lemmas on remainders that the signature needs.         *)
(***************************************************************************)
\* A multiple of m is at least m.
LEMMA Times == ASSUME NEW m \in Nat, NEW d \in Nat, d >= 1 PROVE m * d >= m
  OBVIOUS

\* What \div and % are: quotient and remainder.
LEMMA DivMod ==
  ASSUME NEW a \in Nat, NEW m \in Nat \ {0}
  PROVE  /\ a \div m \in Nat /\ a % m \in 0 .. m - 1
         /\ a = m * (a \div m) + (a % m)
<1>1. a % m \in 0 .. m - 1
  OBVIOUS
<1>2. a = m * (a \div m) + (a % m)
  OBVIOUS
<1>3. a \div m \in Nat
  OBVIOUS
<1> QED BY <1>1, <1>2, <1>3

\* There is one quotient and one remainder.
LEMMA Once ==
  ASSUME NEW m \in Nat \ {0}, NEW p \in Int, NEW q \in Int, NEW r \in 0 .. m - 1, NEW s \in 0 .. m - 1,
         m * p + r = m * q + s
  PROVE  p = q /\ r = s
<1>1. m * (p - q) = s - r
  OBVIOUS
<1>2. ~ (p - q >= 1)
  <2> SUFFICES ASSUME p - q >= 1 PROVE FALSE
    OBVIOUS
  <2>1. p - q \in Nat /\ m * (p - q) >= m
    OBVIOUS
  <2> QED BY <1>1, <2>1
<1>3. ~ (q - p >= 1)
  <2> SUFFICES ASSUME q - p >= 1 PROVE FALSE
    OBVIOUS
  <2>1. m * (q - p) >= m
    OBVIOUS
  <2>2. m * (q - p) = r - s
    BY <1>1
  <2> QED BY <2>1, <2>2
<1> QED BY <1>2, <1>3

\* ... so whatever has their form is them.
LEMMA Rest ==
  ASSUME NEW m \in Nat \ {0}, NEW a \in Nat, NEW q \in Int, NEW r \in 0 .. m - 1, a = m * q + r
  PROVE  a % m = r /\ a \div m = q
  BY DivMod, Once

\* Reducing a summand first changes nothing.
LEMMA ModPlus ==
  ASSUME NEW m \in Nat \ {0}, NEW a \in Nat, NEW b \in Nat
  PROVE  (a + (b % m)) % m = (a + b) % m
<1> DEFINE q == b \div m  r == b % m  p == (a + r) \div m  s == (a + r) % m
<1>1. q \in Nat /\ r \in 0 .. m - 1 /\ b = m * q + r
  BY DivMod
<1>2. a + r \in Nat
  BY <1>1
<1>3. p \in Nat /\ s \in 0 .. m - 1 /\ a + r = m * p + s
  BY <1>2, DivMod
<1>4. a + b = m * (q + p) + s
  <2> HIDE DEF q, r, p, s
  <2> QED BY <1>1, <1>3
<1>5. a + b \in Nat /\ q + p \in Int
  BY <1>1, <1>3
<1>6. (a + b) % m = s
  <2> HIDE DEF q, r, p, s
  <2>1. \A x \in Nat, y \in Int : x = m * y + s => x % m = s
    BY <1>3, Rest
  <2> QED BY <1>4, <1>5, <2>1
<1> QED BY <1>6

\* Division keeps the order.
LEMMA DivUp ==
  ASSUME NEW m \in Nat \ {0}, NEW a \in Nat, NEW b \in Nat, a <= b
  PROVE  a \div m <= b \div m
<1> DEFINE p == a \div m  q == b \div m
<1>1. /\ p \in Nat /\ a % m \in 0 .. m - 1 /\ a = m * p + (a % m)
      /\ q \in Nat /\ b % m \in 0 .. m - 1 /\ b = m * q + (b % m)
  BY DivMod
<1> HIDE DEF p, q
<1>2. ASSUME p > q PROVE FALSE
  <2>1. m * (p - q) >= m
    BY <1>1, <1>2, Times
  <2> QED BY <1>1, <2>1
<1>3. p <= q
  BY <1>1, <1>2
<1> QED BY <1>3 DEF p, q

----------------------------------------------------------------------------
(***************************************************************************)
(* The signature, for any order of the group, modulus and field in the     *)
(* code's order, and any hashes.                                           *)
(***************************************************************************)
Own == <<signed, announcement, Signing!publicKey>>
Presented == <<shown.payload, announcement, shown.key>>

\* The signature is the one equation, over the one challenge there is for it.
SignatureInv ==
  /\ \A x \in DOMAIN challenge : challenge[x] \in Signing!Field
  /\ stage \in {"keyed", "announced"} => DOMAIN challenge = {}
  /\ stage # "keyed" => announcement = nonce
  /\ stage \in {"signed", "presented"} =>
       /\ Own \in DOMAIN challenge
       /\ response = (nonce + (challenge[Own] % Modulus) * secretKey) % Order
  /\ stage = "presented" => Presented \in DOMAIN challenge

\* The sizes in the order of the code's: the modulus below the order, the order below the field.
LEMMA SizesAre ==
  /\ Order \in Nat \ {0, 1} /\ Modulus \in Nat \ {0} /\ FieldSize \in Nat \ {0}
  /\ Modulus < Order /\ Order < FieldSize
  /\ MaxQuotient \in Nat /\ MaxQuotient = ((FieldSize - 1) \div Modulus) + 1
  BY ServicesAssumption DEF Signing!Sizes

\* A remainder is a scalar.
LEMMA Reduced == \A x \in Nat : x % Order \in Signing!Scalar
<1>1. ASSUME NEW x \in Nat PROVE x % Order \in Signing!Scalar
  BY SizesAre, DivMod DEF Signing!Scalar
<1> QED BY <1>1

\* What the signer draws and keeps is a scalar that is not 0.
LEMMA NonZero ==
  ASSUME NEW x \in Nat
  PROVE  Signing!toNonZeroScalar(x) \in Signing!Scalar \ {0}
  BY SizesAre, Reduced DEF Signing!toNonZeroScalar, Signing!Scalar

\* Below the order nothing is reduced.
LEMMA Small == \A x \in Signing!Scalar : x % Order = x
<1>1. ASSUME NEW x \in Signing!Scalar PROVE x % Order = x
  <2>1. x \in Nat /\ x \in 0 .. Order - 1 /\ x = Order * 0 + x
    BY SizesAre DEF Signing!Scalar
  <2> QED BY <2>1, SizesAre, Rest
<1> QED BY <1>1

\* A hash that was given a value keeps it.
LEMMA ChallengeIs ==
  ASSUME SignatureInv, NEW p, NEW point, NEW k, NEW full \in Signing!Field,
         Signing!Challenge(p, point, k, full)
  PROVE  /\ \A x \in DOMAIN challenge' : challenge'[x] \in Signing!Field
         /\ \A x \in DOMAIN challenge : x \in DOMAIN challenge' /\ challenge'[x] = challenge[x]
         /\ <<p, point, k>> \in DOMAIN challenge'
  BY DEF SignatureInv, Signing!Challenge

LEMMA SigningInitially == Signing!Init => Signing!TypeOK /\ SignatureInv
<1> SUFFICES ASSUME Signing!Init PROVE Signing!TypeOK /\ SignatureInv
  OBVIOUS
<1>1. secretKey \in Signing!Scalar \ {0}
  BY NonZero DEF Signing!Init, Signing!Field
<1>2. shown \in [payload : Payload, key : Signing!Point, response : Signing!Field]
  <2>1. 0 \in Signing!Point /\ 0 \in Signing!Field
    BY SizesAre DEF Signing!Point, Signing!Scalar, Signing!Field
  <2>2. (CHOOSE p \in Payload : TRUE) \in Payload
    BY DEF Signing!Init
  <2> QED BY <2>1, <2>2 DEF Signing!Init, Signing!NotShown
<1>3. 0 \in Signing!Scalar
  BY SizesAre DEF Signing!Scalar
<1>4. Signing!TypeOK
  BY <1>1, <1>2, <1>3 DEF Signing!Init, Signing!TypeOK, Signing!Point
<1>5. DOMAIN challenge = {}
  BY DEF Signing!Init
<1> QED BY <1>4, <1>5 DEF SignatureInv, Signing!Init

LEMMA SigningStep ==
  ASSUME Signing!TypeOK, SignatureInv, [Signing!Next]_signingVars
  PROVE  Signing!TypeOK' /\ SignatureInv'
<1> USE DEF Signing!TypeOK, Signing!Point
<1>1. CASE Signing!DeriveNonce
  <2>1. nonce' \in Signing!Scalar \ {0} /\ announcement' = nonce'
    BY <1>1, NonZero, Small DEF Signing!DeriveNonce, Signing!Field, Signing!ecMulGenerator
  <2> QED BY <1>1, <2>1 DEF Signing!DeriveNonce, SignatureInv
<1>2. CASE Signing!Sign
  <2>1. PICK full \in Signing!Field :
          /\ Signing!Challenge(signed, announcement, Signing!publicKey, full)
          /\ response' = (nonce + Signing!truncateChallenge(full) * secretKey) % Order
    BY <1>2 DEF Signing!Sign
  <2>2. Own' = Own /\ UNCHANGED <<secretKey, nonce, announcement, signed, shown>> /\ stage = "announced" /\ stage' = "signed"
    BY <1>2 DEF Signing!Sign, Own, Signing!publicKey
  <2>3. challenge'[Own] = full
    BY <2>1, <2>2 DEF SignatureInv, Signing!Challenge, Own
  <2>4. response' \in Signing!Scalar
    <3>1. full % Modulus \in Nat /\ nonce \in Nat /\ secretKey \in Nat
      BY SizesAre, DivMod DEF Signing!Field, Signing!Scalar
    <3>2. (full % Modulus) * secretKey \in Nat
      BY <3>1
    <3> QED BY <2>1, <3>1, <3>2, Reduced DEF Signing!truncateChallenge
  <2>5. Signing!TypeOK'
    BY <2>2, <2>4
  <2>6. SignatureInv'
    BY <2>1, <2>2, <2>3, ChallengeIs DEF SignatureInv, Own, Signing!truncateChallenge
  <2> QED BY <2>5, <2>6
<1>3. CASE Signing!Present
  <2>1. PICK p \in Payload, k \in Signing!Point \ {0}, s \in Signing!Field, full \in Signing!Field :
          /\ Signing!Challenge(p, announcement, k, full)
          /\ shown' = [payload |-> p, key |-> k, response |-> s]
    BY <1>3 DEF Signing!Present
  <2>2. /\ Own' = Own /\ stage = "signed" /\ stage' = "presented"
        /\ UNCHANGED <<secretKey, nonce, announcement, response, signed>>
    BY <1>3 DEF Signing!Present, Own, Signing!publicKey
  <2>3. Presented' = <<p, announcement, k>>
    BY <2>1, <2>2 DEF Presented
  <2>4. Signing!TypeOK'
    BY <2>1, <2>2
  <2>5. SignatureInv'
    BY <2>1, <2>2, <2>3, ChallengeIs DEF SignatureInv
  <2> QED BY <2>4, <2>5
<1>4. CASE UNCHANGED signingVars
  BY <1>4 DEF signingVars, SignatureInv, Own, Presented, Signing!publicKey
<1> QED BY <1>1, <1>2, <1>3, <1>4 DEF Signing!Next

\* The equation the signer solves is the one both verifiers check.
LEMMA OwnVerifies ==
  ASSUME Signing!TypeOK, SignatureInv, Signing!VerifiersAgree
  PROVE  Signing!SignedVerifies
<1> SUFFICES ASSUME stage = "presented",
                    shown = [payload |-> signed, key |-> Signing!publicKey, response |-> response]
             PROVE  Signing!verifyAttestationSignature /\ Signing!schnorrVerify
  BY DEF Signing!SignedVerifies
<1> DEFINE t == challenge[Own] % Modulus
<1>1. t \in Nat /\ nonce \in Signing!Scalar /\ secretKey \in Signing!Scalar /\ response \in Signing!Scalar
  <2>1. challenge[Own] \in Nat
    BY SizesAre DEF SignatureInv, Signing!Field
  <2>2. t \in Nat
    BY <2>1, SizesAre, DivMod
  <2> QED BY <2>2 DEF Signing!TypeOK
<1>2. Signing!publicKey = secretKey /\ announcement = nonce
  BY Small DEF Signing!publicKey, Signing!ecMulGenerator, Signing!TypeOK, SignatureInv
<1>3. Signing!truncateChallenge(Signing!fullChallenge) = t
  BY DEF Signing!truncateChallenge, Signing!fullChallenge, Own
<1>4. response = (nonce + t * secretKey) % Order
  BY DEF SignatureInv
<1>5. secretKey * t \in Nat /\ t * secretKey = secretKey * t /\ nonce \in Nat
  BY <1>1 DEF Signing!Scalar
<1>6. (nonce + ((secretKey * t) % Order)) % Order = response
  <2> HIDE DEF t
  <2> QED BY <1>4, <1>5, SizesAre, ModPlus
<1>7. shown.response = response /\ response % Order = response /\ response < Order /\ shown.key = secretKey
  BY <1>1, <1>2, Small, SizesAre DEF Signing!Scalar
<1>8. Signing!verifyAttestationSignature
  BY <1>2, <1>3, <1>6, <1>7
     DEF Signing!verifyAttestationSignature, Signing!ecMulGenerator, Signing!ecAdd, Signing!ecMul
<1> QED BY <1>8 DEF Signing!VerifiersAgree

\* The reduction the circuit is handed passes its asserts, and its remainder is
\* the signer's truncation.
LEMMA Agreement ==
  ASSUME Signing!TypeOK, SignatureInv
  PROVE  Signing!VerifiersAgree
<1> SUFFICES ASSUME stage = "presented"
             PROVE  /\ Signing!verifyAttestationSignature => Signing!schnorrVerify
                    /\ Signing!schnorrVerify /\ shown.response < Order => Signing!verifyAttestationSignature
  BY DEF Signing!VerifiersAgree
<1> DEFINE full == Signing!fullChallenge  q == full \div Modulus  r == full % Modulus
<1>1. full \in Signing!Field
  BY DEF SignatureInv, Presented, Signing!fullChallenge
<1>2. Signing!schnorrReduction(full)[1] = q /\ Signing!schnorrReduction(full)[2] = r
  BY DEF Signing!schnorrReduction
<1>3. Signing!truncateChallenge(full) = r
  BY DEF Signing!truncateChallenge
<1>4. full \in Nat /\ full <= FieldSize - 1 /\ FieldSize - 1 \in Nat
  BY <1>1, SizesAre DEF Signing!Field
<1>5. q \in Nat /\ r \in 0 .. Modulus - 1 /\ q * Modulus + r = full
  <2>1. full = Modulus * q + r /\ q \in Nat /\ r \in 0 .. Modulus - 1
    BY <1>4, SizesAre, DivMod
  <2> HIDE DEF q, r, full
  <2> QED BY <2>1, SizesAre
<1>6. q < MaxQuotient
  BY <1>4, <1>5, SizesAre, DivUp
<1>7. full % FieldSize = full
  <2>1. full = FieldSize * 0 + full /\ full \in 0 .. FieldSize - 1
    BY <1>4, SizesAre
  <2> HIDE DEF full
  <2> QED BY <1>4, <2>1, SizesAre, Rest
<1>8. Signing!ReductionHolds
  <2>1. r < Modulus
    BY <1>5, SizesAre
  <2> QED BY <1>2, <1>5, <1>6, <1>7, <2>1 DEF Signing!ReductionHolds
<1> QED
  BY <1>2, <1>3, <1>8 DEF Signing!verifyAttestationSignature, Signing!schnorrVerify

----------------------------------------------------------------------------
(***************************************************************************)
(* The composition.                                                        *)
(***************************************************************************)
LEMMA ServicesInitially ==
  ServicesInit => Init /\ Issuer!Init /\ Signing!Init /\ Advice!Init
  BY DEF ServicesInit

LEMMA ServicesStep ==
  [ServicesNext]_serviceVars =>
    [Next]_vars /\ [Issuer!Next]_issuerVars /\ [Signing!Next]_signingVars /\ [Advice!Next]_adviceVars
<1>1. CASE Bridges
  BY <1>1 DEF Bridges
<1>2. CASE Issues
  BY <1>2 DEF Issues
<1>3. CASE Signs
  BY <1>3 DEF Signs
<1>4. CASE Advises
  BY <1>4 DEF Advises
<1>5. CASE UNCHANGED serviceVars
  BY <1>5 DEF serviceVars
<1> QED BY <1>1, <1>2, <1>3, <1>4, <1>5 DEF ServicesNext

\* Seen through its own variables, the bridge behaves in Services as its module
\* says: what is proved of it alone holds there.
THEOREM BridgeBehavesAsAlone == ServicesSafety => Safety
  BY ServicesInitially, ServicesStep, PTL DEF ServicesSafety, Safety

LEMMA ClaimsBehave == ServicesSafety => [](Issuer!TypeOK /\ ClaimInv)
<1>1. Issuer!TypeOK /\ ClaimInv /\ [ServicesNext]_serviceVars => Issuer!TypeOK' /\ ClaimInv'
  BY ServicesStep, ClaimTypes, ClaimStep
<1> QED BY <1>1, ServicesInitially, ClaimsInitially, PTL DEF ServicesSafety

LEMMA AdviceBehaves == ServicesSafety => [](Advice!TypeOK /\ AdviceInv)
<1>1. Advice!TypeOK /\ AdviceInv /\ [ServicesNext]_serviceVars => Advice!TypeOK' /\ AdviceInv'
  BY ServicesStep, AdviceTypes, AdviceStep
<1> QED BY <1>1, ServicesInitially, AdviceInitially, PTL DEF ServicesSafety

LEMMA SigningBehaves == ServicesSafety => [](Signing!TypeOK /\ SignatureInv)
<1>1. Signing!TypeOK /\ SignatureInv /\ [ServicesNext]_serviceVars => Signing!TypeOK' /\ SignatureInv'
  BY ServicesStep, SigningStep
<1> QED BY <1>1, ServicesInitially, SigningInitially, PTL DEF ServicesSafety

\* The variables of the four services keep their types; of the signer's, that no
\* scalar that must not be zero is zero (signing.ts, toNonZeroScalar).
THEOREM ServicesTypeCorrect == ServicesSafety => []ServicesTypeOK
<1>1. TypeOK /\ Issuer!TypeOK /\ Signing!TypeOK /\ Advice!TypeOK => ServicesTypeOK
  BY DEF ServicesTypeOK
<1> QED
  BY <1>1, BridgeBehavesAsAlone, BridgeTypeCorrect, ClaimsBehave, SigningBehaves, AdviceBehaves, PTL

\* Whenever Creva's services change, an attestation tagged as Creva's carries
\* Creva's signature (crevaAwareBackingIssuer.ts); and whenever the model does,
\* advice is about the tier that was asked about (localModelPredictor.ts).
THEOREM HonestAnswers == ServicesSafety => []AnswersAreHonest
<1>1. ClaimInv /\ AdviceInv => AnswersAreHonest
  BY DEF ClaimInv, AdviceInv, AnswersAreHonest, Issuer!OriginIsHonest, Advice!AdviceIsOwn
<1> QED BY <1>1, ClaimsBehave, AdviceBehaves, PTL

\* The synthetic issuer signs a backing claim only if Creva was not well at some
\* moment of its status check (crevaStatus.ts), and the table answers for the
\* model only if it was of no use at some moment of the request.
THEOREM FallbacksHaveCauses == ServicesSafety => []FallbackHasCause
<1>1. ClaimInv /\ AdviceInv /\ Issuer!TypeOK => FallbackHasCause
  BY DEF ClaimInv, AdviceInv, Issuer!TypeOK, Issuer!Issue, FallbackHasCause, Issuer!FallbackHasCause,
         Advice!StubHasCause
<1> QED BY <1>1, ClaimsBehave, AdviceBehaves, PTL

\* For every order of the group, modulus and field in the order of the code's,
\* and whatever the hashes are: what the signer signs verifies off the circuit
\* and in it (signing.ts), and whatever is presented passes the one verifier if
\* it passes the other, a response out of range apart (schnorr.compact).
THEOREM SignaturesVerify == ServicesSafety => []VerifiersAgree
<1>1. Signing!TypeOK /\ SignatureInv => VerifiersAgree
  BY Agreement, OwnVerifies DEF VerifiersAgree
<1> QED BY <1>1, SigningBehaves, PTL
============================================================================
