-------------------------- MODULE LacePort_proof ---------------------------
(***************************************************************************)
(* Proofs about LacePort, for all sets of calls, networks and faults and   *)
(* any number of changes of the world: the reason of a degraded call is    *)
(* the first fault of it, overlapping calls report their own answers, and  *)
(* the ports keep the contract of a proof port.                            *)
(***************************************************************************)
EXTENDS LacePort, TLAPS

\* The checks a call has behind it when it stands at a stage.
Behind(stage) ==
  CASE stage = "connect"                         -> Before("link")
    [] stage = "status"                          -> Before("network")
    [] stage \in {"configuration", "connected"}  -> Before("fetch")
    [] stage = "probe"                           -> Before("server")
    [] stage = "addresses"                       -> Before("page")
    [] stage = "stacked"                         -> Before("address")
    [] stage = "loading"                         -> Before("module")
    [] stage = "joining"                         -> Before("contract")
    [] stage \in {"joined", "proving", "landing", "ok"} -> Before("call")
    [] OTHER                                     -> {}

\* They were in order at some moment of the call.
PassedInv == \A c \in Call : Behind(pc[c]) \subseteq fine[c]

\* A degraded call has a reason of that kind.
ReasonInv ==
  \A c \in Call : pc[c] = "degraded" =>
    \E k \in Checks : ReasonOf[k] = reason[c] /\ k \in had[c] /\ Before(k) \subseteq fine[c]

\* A call whose circuit has run holds what it decided.
LocalInv ==
  \A c \in Call :
    /\ pc[c] \in {"proving", "landing"} => local[c] = (c \in Holds)
    /\ pc[c] = "ok" => answer[c] = (c \in Holds)

LaceInv == TypeOK /\ PassedInv /\ ReasonInv /\ LocalInv

----------------------------------------------------------------------------
\* The order of the checks, one set at a time.
LEMMA Order ==
  /\ Checks = {"site", "wallet", "link", "network", "fetch", "server", "sdk", "page",
               "address", "argument", "module", "contract", "call"}
  /\ Before("site") = {}
  /\ Before("wallet") = {"site"}
  /\ Before("link") = Before("wallet") \cup {"wallet"}
  /\ Before("network") = Before("link") \cup {"link"}
  /\ Before("fetch") = Before("network") \cup {"network"}
  /\ Before("server") = Before("fetch") \cup {"fetch"}
  /\ Before("sdk") = Before("server") \cup {"server"}
  /\ Before("page") = Before("sdk") \cup {"sdk"}
  /\ Before("address") = Before("page") \cup {"page"}
  /\ Before("argument") = Before("address") \cup {"address"}
  /\ Before("module") = Before("argument") \cup {"argument"}
  /\ Before("contract") = Before("module") \cup {"module"}
  /\ Before("call") = Before("contract") \cup {"contract"}
<1>1. Checks = {"site", "wallet", "link", "network", "fetch", "server", "sdk", "page",
               "address", "argument", "module", "contract", "call"}
  BY DEF Checks, Rank
<1>2. \A k \in Checks : Before(k) = {j \in Checks : Rank[j] < Rank[k]}
  BY DEF Before
<1>3. /\ Rank["site"] = 1 /\ Rank["wallet"] = 2 /\ Rank["link"] = 3 /\ Rank["network"] = 4
      /\ Rank["fetch"] = 5 /\ Rank["server"] = 6 /\ Rank["sdk"] = 7 /\ Rank["page"] = 8
      /\ Rank["address"] = 9 /\ Rank["argument"] = 10 /\ Rank["module"] = 11
      /\ Rank["contract"] = 12 /\ Rank["call"] = 13
  BY DEF Rank
<1> HIDE DEF Checks, Rank, Before
<1>4. /\ Before("site") = {}
      /\ Before("wallet") = {"site"}
      /\ Before("link") = Before("wallet") \cup {"wallet"}
      /\ Before("network") = Before("link") \cup {"link"}
  BY <1>1, <1>2, <1>3
<1>5. /\ Before("fetch") = Before("network") \cup {"network"}
      /\ Before("server") = Before("fetch") \cup {"fetch"}
      /\ Before("sdk") = Before("server") \cup {"server"}
      /\ Before("page") = Before("sdk") \cup {"sdk"}
  BY <1>1, <1>2, <1>3
<1>6. /\ Before("address") = Before("page") \cup {"page"}
      /\ Before("argument") = Before("address") \cup {"address"}
      /\ Before("module") = Before("argument") \cup {"argument"}
      /\ Before("contract") = Before("module") \cup {"module"}
      /\ Before("call") = Before("contract") \cup {"contract"}
  BY <1>1, <1>2, <1>3
<1> QED BY <1>1, <1>4, <1>5, <1>6

\* The reason of every check is one a call can have.
LEMMA Reasons ==
  {"environment_unavailable", "wallet_absent", "wallet_locked", "wallet_wrong_network",
   "proof_server_unreachable", "contract_not_found", "call_failed", "contract_not_compiled"}
    \subseteq {ReasonOf[k] : k \in Checks}
BY Order DEF ReasonOf

\* What holds of the world while a call runs is noted by the step.
LEMMA Noted ==
  ASSUME TypeOK, Observe, UNCHANGED <<lacks, world>>, NEW c \in Call, Running(c),
         NEW k \in Checks
  PROVE  (Fails(c, k) => k \in had'[c]) /\ (~Fails(c, k) => k \in fine'[c])
<1>1. Failing(c)' = Failing(c)
  BY DEF Failing, Fails, Unaddressed, Malformed, Joinable, CallRefused
<1> QED BY <1>1 DEF Observe, Failing

\* Nothing that was noted is forgotten.
LEMMA NotedStays ==
  ASSUME TypeOK, Observe, NEW c \in Call
  PROVE  had[c] \subseteq had'[c] /\ fine[c] \subseteq fine'[c]
BY DEF Observe, TypeOK

----------------------------------------------------------------------------
\* A step of c that degrades it with the reason of a check that fails, with
\* the checks before it behind.
FaultOf(c, why) ==
  /\ pc' = [pc EXCEPT ![c] = "degraded"]
  /\ reason' = [reason EXCEPT ![c] = why]
  /\ \E k \in Checks : ReasonOf[k] = why /\ k \in had'[c] /\ Before(k) \subseteq fine'[c]

\* A step of c that takes it to a stage, with the checks of it behind.
MovesTo(c, stage) ==
  /\ pc' = [pc EXCEPT ![c] = stage] /\ UNCHANGED reason
  /\ Behind(stage) \subseteq fine'[c]

LEMMA MovesKeep ==
  ASSUME LaceInv, Observe, NEW c \in Call,
         \/ \E why : FaultOf(c, why)
         \/ \E stage : stage # "degraded" /\ MovesTo(c, stage)
         \/ UNCHANGED <<pc, reason>>
  PROVE  PassedInv' /\ ReasonInv'
<1>1. ASSUME NEW d \in Call, d # c \/ UNCHANGED <<pc, reason>>
      PROVE  /\ Behind(pc'[d]) \subseteq fine'[d]
             /\ pc'[d] = "degraded" =>
                 \E k \in Checks : ReasonOf[k] = reason'[d] /\ k \in had'[d] /\ Before(k) \subseteq fine'[d]
  <2>1. pc'[d] = pc[d] /\ reason'[d] = reason[d]
    BY <1>1 DEF FaultOf, MovesTo, LaceInv, TypeOK
  <2>2. had[d] \subseteq had'[d] /\ fine[d] \subseteq fine'[d]
    BY NotedStays DEF LaceInv
  <2> QED BY <2>1, <2>2 DEF LaceInv, PassedInv, ReasonInv
<1>2. CASE \E why : FaultOf(c, why)
  <2>1. pc'[c] = "degraded" /\ \E k \in Checks : ReasonOf[k] = reason'[c] /\ k \in had'[c] /\ Before(k) \subseteq fine'[c]
    BY <1>2 DEF FaultOf, LaceInv, TypeOK
  <2>2. Behind("degraded") = {}
    BY DEF Behind
  <2> QED BY <1>1, <2>1, <2>2 DEF PassedInv, ReasonInv
<1>3. CASE \E stage : stage # "degraded" /\ MovesTo(c, stage)
  <2>1. PICK stage : stage # "degraded" /\ MovesTo(c, stage)
    BY <1>3
  <2>2. pc'[c] = stage /\ Behind(stage) \subseteq fine'[c]
    BY <2>1 DEF MovesTo, LaceInv, TypeOK
  <2> QED BY <1>1, <2>1, <2>2 DEF PassedInv, ReasonInv
<1>4. CASE UNCHANGED <<pc, reason>>
  BY <1>1, <1>4 DEF PassedInv, ReasonInv
<1> QED BY <1>2, <1>3, <1>4

----------------------------------------------------------------------------
LEMMA LaceInitially == Init => LaceInv
<1> SUFFICES ASSUME Init PROVE LaceInv
  OBVIOUS
<1>1. TypeOK
  BY StackAssumption DEF Init, StackInit, TypeOK
<1>2. Behind("idle") = {}
  BY DEF Behind
<1> QED BY <1>1, <1>2 DEF Init, StackInit, LaceInv, PassedInv, ReasonInv, LocalInv

LEMMA LaceTypes ==
  ASSUME TypeOK, [Next]_vars
  PROVE  TypeOK'
<1> USE StackAssumption, PortAssumption
<1> DEFINE Stages == {"idle", "called", "connect", "status", "configuration", "connected",
                      "probe", "addresses", "stacked", "loading", "joining", "joined",
                      "proving", "landing", "ok", "degraded"}
<1> DEFINE Why == {"none"} \cup {ReasonOf[k] : k \in Checks}
<1> DEFINE Moved == pc' \in [Call -> Stages] /\ reason' \in [Call -> Why]
<1>g. ASSUME NEW c \in Call, NEW stage \in Stages, Goto(c, stage) PROVE Moved
  BY <1>g DEF Goto, TypeOK
<1>d. ASSUME NEW c \in Call, NEW why \in Why, Degrade(c, why) PROVE Moved
  BY <1>d DEF Degrade, TypeOK
<1>1. ASSUME Observe PROVE had' \in [Call -> SUBSET Checks] /\ fine' \in [Call -> SUBSET Checks]
  BY <1>1 DEF Observe, Failing, TypeOK
<1>2. ASSUME NEW c \in Call, Check(c) \/ LoadChunk(c) \/ Preflight(c) PROVE Moved /\ UNCHANGED portVars
  BY <1>2, <1>g, <1>d, Reasons
     DEF Check, LoadChunk, Preflight, StackProceeds, SelectWallet, Connect, ConnectionStatus,
         Configuration, QueryNetwork, Connected, Probe, Addresses
<1>3. ASSUME NEW c \in Call, Stacked(c) \/ LoadContract(c) \/ Join(c) PROVE Moved /\ UNCHANGED portVars
  BY <1>3, <1>g, <1>d, Reasons DEF Stacked, LoadContract, Join
<1>4. ASSUME NEW c \in Call, RunCircuit(c)
      PROVE  Moved /\ local' \in [Call -> BOOLEAN] /\ UNCHANGED <<chain, answer>>
  <2> DEFINE Decided == c \in Holds
  <2>1. local' = [local EXCEPT ![c] = Decided] \/ local' = local
    BY <1>4 DEF RunCircuit
  <2>b. Decided \in BOOLEAN
    OBVIOUS
  <2> HIDE DEF Decided
  <2>2. local' \in [Call -> BOOLEAN]
    BY <2>1, <2>b DEF TypeOK
  <2> QED BY <1>4, <1>g, <1>d, <2>2, Reasons DEF RunCircuit
<1>5. ASSUME NEW c \in Call, Submit(c)
      PROVE  Moved /\ chain' \in [Contract -> [cleared : BOOLEAN, answered : Nat]] /\ UNCHANGED <<local, answer>>
  <2>1. ContractOf(c) \in Contract
    BY DEF ContractOf, Contract
  <2>2. local[c] \in BOOLEAN /\ chain[ContractOf(c)].answered + 1 \in Nat
    BY <2>1 DEF TypeOK
  <2>3. chain' \in [Contract -> [cleared : BOOLEAN, answered : Nat]]
    BY <1>5, <2>1, <2>2 DEF Submit, TypeOK
  <2> QED BY <1>5, <1>g, <1>d, <2>3, Reasons DEF Submit
<1>6. ASSUME NEW c \in Call, Finalized(c)
      PROVE  Moved /\ answer' \in [Call -> BOOLEAN] /\ UNCHANGED <<local, chain>>
  BY <1>6, <1>g, <1>d, Reasons DEF Finalized, Answered, TypeOK
<1>7. CASE (\E c \in Call : Check(c) \/ CallProceeds(c)) /\ UNCHANGED <<lacks, world, changes>> /\ Observe
  <2>1. Moved /\ local' \in [Call -> BOOLEAN] /\ answer' \in [Call -> BOOLEAN]
        /\ chain' \in [Contract -> [cleared : BOOLEAN, answered : Nat]]
    BY <1>2, <1>3, <1>4, <1>5, <1>6, <1>7 DEF CallProceeds, portVars, TypeOK
  <2> QED BY <1>1, <1>7, <2>1 DEF TypeOK
<1>8. CASE WorldChanges /\ UNCHANGED portVars /\ Observe
  <2>1. changes' \in 0..MaxChanges /\ world' \in World /\ UNCHANGED <<lacks, pc, reason>>
    BY <1>8 DEF WorldChanges, TypeOK
  <2> QED BY <1>1, <1>8, <2>1 DEF portVars, TypeOK
<1>9. CASE UNCHANGED vars
  BY <1>9 DEF vars, stackVars, portVars, TypeOK
<1> QED BY <1>7, <1>8, <1>9 DEF Next

\* Each step of a call either degrades it by its first fault or has what the
\* next stage asks for behind it.
LEMMA StepOfCall ==
  ASSUME LaceInv, Observe, UNCHANGED <<lacks, world>>, NEW c \in Call, Check(c) \/ CallProceeds(c)
  PROVE  \/ \E why : FaultOf(c, why)
         \/ \E stage : stage # "degraded" /\ MovesTo(c, stage)
<1> DEFINE Good == \/ \E why : FaultOf(c, why)
                  \/ \E stage : stage # "degraded" /\ MovesTo(c, stage)
<1> DEFINE Past == Behind(pc[c]) \subseteq fine'[c]
<1>p. Past
  BY NotedStays DEF LaceInv, PassedInv
<1>n. Running(c) => \A k \in Checks : (Fails(c, k) => k \in had'[c]) /\ (~Fails(c, k) => k \in fine'[c])
  BY Noted DEF LaceInv
<1>f. ASSUME NEW k \in Checks, Fails(c, k), Running(c), Degrade(c, ReasonOf[k]), Before(k) \subseteq fine'[c]
      PROVE  Good
  <2>1. FaultOf(c, ReasonOf[k])
    BY <1>f, <1>n DEF FaultOf, Degrade
  <2> QED BY <2>1
<1>m. ASSUME NEW stage, stage # "degraded", Goto(c, stage), Behind(stage) \subseteq fine'[c]
      PROVE  Good
  BY <1>m DEF MovesTo, Goto
<1>w. world \in World
  BY DEF LaceInv, TypeOK
<1> HIDE DEF Good
<1>1. ASSUME Check(c) PROVE Good
  <2>1. Goto(c, "called") /\ Behind("called") = {}
    BY <1>1 DEF Check, Behind
  <2> QED BY <2>1, <1>m
<1>2. ASSUME LoadChunk(c) PROVE Good
  <2>0. Running(c)
    BY <1>2 DEF LoadChunk, Running
  <2>1. CASE "lace" \in lacks \/ world.site # "ready"
    <3>1. Fails(c, "site") /\ Degrade(c, ReasonOf["site"])
      BY <1>2, <2>1 DEF LoadChunk, Fails, ReasonOf
    <3> QED BY <2>0, <3>1, <1>f, Order
  <2>2. CASE "lace" \notin lacks /\ world.site = "ready"
    <3>1. ~Fails(c, "site") /\ SelectWallet(c)
      BY <1>2, <2>2 DEF LoadChunk, Fails
    <3>2. "site" \in fine'[c]
      BY <2>0, <3>1, <1>n, Order
    <3>3. CASE world.wallet = "absent"
      <4>1. Fails(c, "wallet") /\ Degrade(c, ReasonOf["wallet"])
        BY <3>1, <3>3 DEF SelectWallet, Fails, ReasonOf
      <4> QED BY <2>0, <3>2, <4>1, <1>f, Order
    <3>4. CASE world.wallet # "absent"
      <4>1. ~Fails(c, "wallet") /\ Goto(c, "connect")
        BY <3>1, <3>4 DEF SelectWallet, Fails
      <4>2. Behind("connect") \subseteq fine'[c]
        BY <2>0, <3>2, <4>1, <1>n, Order DEF Behind
      <4> QED BY <4>1, <4>2, <1>m
    <3> QED BY <3>3, <3>4
  <2> QED BY <2>1, <2>2
<1>3. ASSUME Connect(c) PROVE Good
  <2>0. Running(c) /\ Before("link") \subseteq fine'[c]
    BY <1>3, <1>p DEF Connect, Running, Behind
  <2>1. CASE world.wallet = "ready"
    <3>1. ~Fails(c, "link") /\ Goto(c, "status")
      BY <1>3, <2>1 DEF Connect, Fails
    <3>2. Behind("status") \subseteq fine'[c]
      BY <2>0, <3>1, <1>n, Order DEF Behind
    <3> QED BY <3>1, <3>2, <1>m
  <2>2. CASE world.wallet # "ready"
    <3>1. Fails(c, "link") /\ Degrade(c, ReasonOf["link"])
      BY <1>3, <2>2 DEF Connect, Fails, ReasonOf
    <3> QED BY <2>0, <3>1, <1>f, Order
  <2> QED BY <2>1, <2>2
<1>4. ASSUME NEW stage, NEW next, QueryNetwork(c, stage, next), next # "degraded",
             Running(c), Before("network") \subseteq Behind(stage), pc[c] = stage,
             Behind(next) \subseteq Before("fetch")
      PROVE  Good
  <2>0. Before("network") \subseteq fine'[c]
    BY <1>4, <1>p
  <2>1. CASE world.wallet # "ready"
    <3>1. Fails(c, "link") /\ Degrade(c, ReasonOf["link"])
      BY <1>4, <2>1 DEF QueryNetwork, Fails, ReasonOf
    <3>2. Before("link") \subseteq fine'[c]
      BY <2>0, Order
    <3> QED BY <1>4, <3>1, <3>2, <1>f, Order
  <2>2. CASE world.wallet = "ready" /\ world.network # Expected
    <3>1. Fails(c, "network") /\ Degrade(c, ReasonOf["network"])
      BY <1>4, <2>2 DEF QueryNetwork, Fails, ReasonOf
    <3> QED BY <1>4, <2>0, <3>1, <1>f, Order
  <2>3. CASE world.wallet = "ready" /\ world.network = Expected
    <3>1. ~Fails(c, "network") /\ Goto(c, next)
      BY <1>4, <2>3 DEF QueryNetwork, Fails
    <3>2. Before("fetch") \subseteq fine'[c]
      BY <1>4, <2>0, <3>1, <1>n, Order
    <3> QED BY <1>4, <3>1, <3>2, <1>m
  <2> QED BY <2>1, <2>2, <2>3
<1>5. ASSUME ConnectionStatus(c) \/ Configuration(c) PROVE Good
  <2>1. Before("network") \subseteq Behind("status") /\ Before("network") \subseteq Behind("configuration")
        /\ Behind("configuration") = Before("fetch") /\ Behind("connected") = Before("fetch")
    BY Order DEF Behind
  <2> QED BY <1>4, <1>5, <2>1 DEF ConnectionStatus, Configuration, QueryNetwork, Running
<1>6. ASSUME Connected(c) PROVE Good
  <2>0. Running(c) /\ Before("fetch") \subseteq fine'[c]
    BY <1>6, <1>p DEF Connected, Running, Behind
  <2>1. CASE "fetch" \in lacks
    <3>1. Fails(c, "fetch") /\ Degrade(c, ReasonOf["fetch"])
      BY <1>6, <2>1 DEF Connected, Fails, ReasonOf
    <3> QED BY <2>0, <3>1, <1>f, Order
  <2>2. CASE "fetch" \notin lacks
    <3>1. ~Fails(c, "fetch") /\ Goto(c, "probe")
      BY <1>6, <2>2 DEF Connected, Fails
    <3>2. Behind("probe") \subseteq fine'[c]
      BY <2>0, <3>1, <1>n, Order DEF Behind
    <3> QED BY <3>1, <3>2, <1>m
  <2> QED BY <2>1, <2>2
<1>7. ASSUME Probe(c) PROVE Good
  <2>0. Running(c) /\ Before("server") \subseteq fine'[c]
    BY <1>7, <1>p DEF Probe, Running, Behind
  <2>1. CASE world.server # "ready"
    <3>1. Fails(c, "server") /\ Degrade(c, ReasonOf["server"])
      BY <1>7, <2>1 DEF Probe, Fails, ReasonOf
    <3> QED BY <2>0, <3>1, <1>f, Order
  <2>2. CASE world.server = "ready"
    <3>1. ~Fails(c, "server") /\ Before("sdk") \subseteq fine'[c]
      BY <2>0, <2>2, <1>n, Order DEF Fails
    <3>2. CASE "sdk" \in lacks
      <4>1. Fails(c, "sdk") /\ Degrade(c, ReasonOf["sdk"])
        BY <1>7, <2>2, <3>2 DEF Probe, Fails, ReasonOf
      <4> QED BY <2>0, <3>1, <4>1, <1>f, Order
    <3>3. CASE "sdk" \notin lacks
      <4>1. ~Fails(c, "sdk") /\ Goto(c, "addresses")
        BY <1>7, <2>2, <3>3 DEF Probe, Fails
      <4>2. Behind("addresses") \subseteq fine'[c]
        BY <2>0, <3>1, <4>1, <1>n, Order DEF Behind
      <4> QED BY <4>1, <4>2, <1>m
    <3> QED BY <3>2, <3>3
  <2> QED BY <2>1, <2>2
<1>8. ASSUME Addresses(c) PROVE Good
  <2>0. Running(c) /\ Before("page") \subseteq fine'[c]
    BY <1>8, <1>p DEF Addresses, Running, Behind
  <2>1. CASE world.wallet # "ready"
    <3>1. Fails(c, "link") /\ Degrade(c, ReasonOf["link"])
      BY <1>8, <2>1 DEF Addresses, Fails, ReasonOf
    <3>2. Before("link") \subseteq fine'[c]
      BY <2>0, Order
    <3> QED BY <2>0, <3>1, <3>2, <1>f, Order
  <2>2. CASE world.wallet = "ready" /\ "page" \in lacks
    <3>1. Fails(c, "page") /\ Degrade(c, ReasonOf["page"])
      BY <1>8, <2>2 DEF Addresses, Fails, ReasonOf
    <3> QED BY <2>0, <3>1, <1>f, Order
  <2>3. CASE world.wallet = "ready" /\ "page" \notin lacks
    <3>1. ~Fails(c, "page") /\ Goto(c, "stacked")
      BY <1>8, <2>3 DEF Addresses, Fails
    <3>2. Behind("stacked") \subseteq fine'[c]
      BY <2>0, <3>1, <1>n, Order DEF Behind
    <3> QED BY <3>1, <3>2, <1>m
  <2> QED BY <2>1, <2>2, <2>3
<1>9. ASSUME Stacked(c) PROVE Good
  <2>0. Running(c) /\ Before("address") \subseteq fine'[c]
    BY <1>9, <1>p DEF Stacked, Running, Behind
  <2>1. CASE Unaddressed(c)
    <3>1. Fails(c, "address") /\ Degrade(c, ReasonOf["address"])
      BY <1>9, <2>1 DEF Stacked, Fails, ReasonOf
    <3> QED BY <2>0, <3>1, <1>f, Order
  <2>2. CASE ~Unaddressed(c)
    <3>1. Before("argument") \subseteq fine'[c]
      BY <2>0, <2>2, <1>n, Order DEF Fails
    <3>2. CASE Malformed(c)
      <4>1. Fails(c, "argument") /\ Degrade(c, ReasonOf["argument"])
        BY <1>9, <2>2, <3>2 DEF Stacked, Fails, ReasonOf
      <4> QED BY <2>0, <3>1, <4>1, <1>f, Order
    <3>3. CASE ~Malformed(c)
      <4>1. ~Fails(c, "argument") /\ Goto(c, "loading")
        BY <1>9, <2>2, <3>3 DEF Stacked, Fails
      <4>2. Behind("loading") \subseteq fine'[c]
        BY <2>0, <3>1, <4>1, <1>n, Order DEF Behind
      <4> QED BY <4>1, <4>2, <1>m
    <3> QED BY <3>2, <3>3
  <2> QED BY <2>1, <2>2
<1>10. ASSUME LoadContract(c) PROVE Good
  <2>0. Running(c) /\ Before("module") \subseteq fine'[c]
    BY <1>10, <1>p DEF LoadContract, Running, Behind
  <2>1. CASE "circuit" \in lacks
    <3>1. Fails(c, "module") /\ Degrade(c, ReasonOf["module"])
      BY <1>10, <2>1 DEF LoadContract, Fails, ReasonOf
    <3> QED BY <2>0, <3>1, <1>f, Order
  <2>2. CASE "circuit" \notin lacks
    <3>1. ~Fails(c, "module") /\ Goto(c, "joining")
      BY <1>10, <2>2 DEF LoadContract, Fails
    <3>2. Behind("joining") \subseteq fine'[c]
      BY <2>0, <3>1, <1>n, Order DEF Behind
    <3> QED BY <3>1, <3>2, <1>m
  <2> QED BY <2>1, <2>2
<1>11. ASSUME Join(c) PROVE Good
  <2>0. Running(c) /\ Before("contract") \subseteq fine'[c]
    BY <1>11, <1>p DEF Join, Running, Behind
  <2>1. CASE ~Joinable(c)
    <3>1. Fails(c, "contract") /\ Degrade(c, ReasonOf["contract"])
      BY <1>11, <2>1 DEF Join, Fails, ReasonOf
    <3> QED BY <2>0, <3>1, <1>f, Order
  <2>2. CASE Joinable(c)
    <3>1. ~Fails(c, "contract") /\ Goto(c, "joined")
      BY <1>11, <2>2 DEF Join, Fails
    <3>2. Behind("joined") \subseteq fine'[c]
      BY <2>0, <3>1, <1>n, Order DEF Behind
    <3> QED BY <3>1, <3>2, <1>m
  <2> QED BY <2>1, <2>2
<1>12. ASSUME RunCircuit(c) \/ Submit(c) \/ Finalized(c) PROVE Good
  <2>0. Running(c) /\ Before("call") \subseteq fine'[c]
        /\ Behind("proving") = Before("call") /\ Behind("landing") = Before("call") /\ Behind("ok") = Before("call")
    BY <1>12, <1>p DEF RunCircuit, Submit, Finalized, Running, Behind
  <2>1. \/ Goto(c, "proving") \/ Goto(c, "landing") \/ Goto(c, "ok")
        \/ Degrade(c, "call_failed") /\ CallRefused(c)
    BY <1>12, <1>w DEF RunCircuit, Submit, Finalized, Ready, CallRefused, World, Peer
  <2>2. CASE Degrade(c, "call_failed") /\ CallRefused(c)
    <3>1. Fails(c, "call") /\ Degrade(c, ReasonOf["call"])
      BY <2>2 DEF Fails, ReasonOf
    <3> QED BY <2>0, <3>1, <1>f, Order
  <2> QED BY <2>0, <2>1, <2>2, <1>m
<1>13. Good
  BY <1>1, <1>2, <1>3, <1>5, <1>6, <1>7, <1>8, <1>9, <1>10, <1>11, <1>12
     DEF CallProceeds, Preflight, StackProceeds
<1> QED BY <1>13 DEF Good

LEMMA FaultStep ==
  ASSUME LaceInv, [Next]_vars
  PROVE  PassedInv' /\ ReasonInv'
<1>1. ASSUME NEW c \in Call, Check(c) \/ CallProceeds(c), UNCHANGED <<lacks, world, changes>>, Observe
      PROVE  PassedInv' /\ ReasonInv'
  BY <1>1, StepOfCall, MovesKeep
<1>2. CASE Call # {} /\ WorldChanges /\ Observe
  BY <1>2, MovesKeep DEF WorldChanges
<1>3. CASE Call = {}
  BY <1>3 DEF PassedInv, ReasonInv
<1>4. CASE UNCHANGED vars
  BY <1>4 DEF vars, stackVars, LaceInv, PassedInv, ReasonInv
<1> QED BY <1>1, <1>2, <1>3, <1>4 DEF Next

LEMMA LocalStep ==
  ASSUME LaceInv, [Next]_vars
  PROVE  LocalInv'
<1>t. /\ pc \in [Call -> {"idle", "called", "connect", "status", "configuration", "connected",
                          "probe", "addresses", "stacked", "loading", "joining", "joined",
                          "proving", "landing", "ok", "degraded"}]
      /\ local \in [Call -> BOOLEAN] /\ answer \in [Call -> BOOLEAN] /\ LocalInv
  BY DEF LaceInv, TypeOK
<1>m. ASSUME NEW c \in Call, NEW stage, stage \notin {"proving", "landing", "ok"},
             pc' = [pc EXCEPT ![c] = stage], UNCHANGED <<local, answer>>
      PROVE  LocalInv'
  BY <1>t, <1>m DEF LocalInv
<1>1. ASSUME NEW c \in Call, Check(c) \/ LoadChunk(c) \/ Preflight(c) PROVE LocalInv'
  BY <1>1, <1>m DEF Check, LoadChunk, Preflight, StackProceeds, SelectWallet, Connect,
       ConnectionStatus, Configuration, QueryNetwork, Connected, Probe, Addresses, Goto, Degrade, portVars
<1>2. ASSUME NEW c \in Call, Stacked(c) \/ LoadContract(c) \/ Join(c) PROVE LocalInv'
  BY <1>2, <1>m DEF Stacked, LoadContract, Join, Goto, Degrade, portVars
<1>3. ASSUME NEW c \in Call, RunCircuit(c) PROVE LocalInv'
  <2>1. CASE Degrade(c, "call_failed") /\ UNCHANGED local
    BY <1>3, <1>m, <2>1 DEF RunCircuit, Degrade
  <2>2. CASE Goto(c, "proving") /\ local' = [local EXCEPT ![c] = c \in Holds]
    <3>1. pc' = [pc EXCEPT ![c] = "proving"] /\ answer' = answer
      BY <1>3, <2>2 DEF RunCircuit, Goto
    <3> QED BY <1>t, <2>2, <3>1 DEF LocalInv
  <2> QED BY <1>3, <2>1, <2>2 DEF RunCircuit
<1>4. ASSUME NEW c \in Call, Submit(c) PROVE LocalInv'
  <2>1. pc[c] = "proving" /\ UNCHANGED <<local, answer>>
        /\ (pc' = [pc EXCEPT ![c] = "landing"] \/ pc' = [pc EXCEPT ![c] = "degraded"])
    BY <1>4 DEF Submit, Goto, Degrade
  <2> QED BY <1>t, <2>1 DEF LocalInv
<1>5. ASSUME NEW c \in Call, Finalized(c) PROVE LocalInv'
  <2>1. CASE Goto(c, "ok") /\ answer' = [answer EXCEPT ![c] = local[c]]
    <3>1. pc[c] = "landing" /\ pc' = [pc EXCEPT ![c] = "ok"] /\ local' = local
      BY <1>5, <2>1 DEF Finalized, Goto
    <3> QED BY <1>t, <2>1, <3>1 DEF LocalInv
  <2>2. CASE Degrade(c, "call_failed") /\ UNCHANGED answer
    BY <1>5, <1>m, <2>2 DEF Finalized, Degrade
  <2> QED BY <1>5, <2>1, <2>2 DEF Finalized, Answered
<1>6. CASE UNCHANGED <<pc, local, answer>>
  BY <1>6, <1>t DEF LocalInv
<1> QED BY <1>1, <1>2, <1>3, <1>4, <1>5, <1>6
        DEF Next, CallProceeds, WorldChanges, portVars, vars, stackVars

\* Every reachable state of the ports has the strengthened invariant.
THEOREM LaceInvariant == Safety => []LaceInv
<1>1. LaceInv /\ [Next]_vars => LaceInv'
  BY LaceTypes, FaultStep, LocalStep DEF LaceInv
<1> QED BY <1>1, LaceInitially, PTL DEF Safety

\* Type correctness of LacePort.
THEOREM LaceTypeCorrect == Safety => []TypeOK
  BY LaceInvariant, PTL DEF LaceInv

\* The reason prepareLaceStack and the calls behind it come back with was a
\* real fault of that call, and the first one the header ranks.
THEOREM LaceReason == Safety => []ReasonIsFirstFault
<1>1. LaceInv => ReasonIsFirstFault
  <2>1. Behind("ok") = Before("call")
    BY DEF Behind
  <2> QED BY <2>1 DEF LaceInv, PassedInv, ReasonInv, ReasonIsFirstFault
<1> QED BY <1>1, LaceInvariant, PTL

\* callProveBacking and callProveIdentity answer a caller from its own call,
\* whatever other calls on the contract do.
THEOREM LaceAnswers == Safety => []AnswerIsOwn
<1>1. LaceInv => AnswerIsOwn
  BY DEF LaceInv, LocalInv, AnswerIsOwn
<1> QED BY <1>1, LaceInvariant, PTL

LEMMA LaceRefines ==
  ASSUME TypeOK, [Next]_vars
  PROVE  [Port!Next]_(Port!vars)
<1> DEFINE Under(d) == pc[d] \notin {"idle", "ok", "degraded"}
<1> DEFINE Moves(c, stage) == pc' = [pc EXCEPT ![c] = stage]
<1>t. pc \in [Call -> {"idle", "called", "connect", "status", "configuration", "connected",
                       "probe", "addresses", "stacked", "loading", "joining", "joined",
                       "proving", "landing", "ok", "degraded"}]
  BY DEF TypeOK
<1>1. ASSUME NEW c \in Call, Check(c) PROVE Port!Ask(c)
  <2>1. pc[c] = "idle" /\ pc' = [pc EXCEPT ![c] = "called"]
    BY <1>1 DEF Check, Goto
  <2>2. PortOutcome[c] = "unasked" /\ PortOutcome' = [PortOutcome EXCEPT ![c] = "asked"]
    BY <1>t, <2>1 DEF PortOutcome
  <2> QED BY <2>2 DEF Port!Ask
<1>2. ASSUME NEW c \in Call, Under(c), Moves(c, "degraded") PROVE Port!Degrade(c)
  <2>1. PortOutcome[c] = "asked" /\ PortOutcome' = [PortOutcome EXCEPT ![c] = "degraded"]
    BY <1>t, <1>2 DEF PortOutcome
  <2> QED BY <2>1 DEF Port!Degrade
<1>3. ASSUME NEW c \in Call, Under(c), Moves(c, "ok") PROVE Port!Decide(c)
  <2>1. PortOutcome[c] = "asked" /\ PortOutcome' = [PortOutcome EXCEPT ![c] = "decided"]
    BY <1>t, <1>3 DEF PortOutcome
  <2> QED BY <2>1 DEF Port!Decide
<1>4. ASSUME NEW c \in Call, Under(c), NEW stage, stage \notin {"idle", "ok", "degraded"}, Moves(c, stage)
      PROVE  PortOutcome' = PortOutcome
  BY <1>t, <1>4 DEF PortOutcome
<1>5. ASSUME NEW c \in Call, CallProceeds(c)
      PROVE  Under(c) /\ \E stage : stage # "idle" /\ Moves(c, stage)
  <2>1. ASSUME LoadChunk(c) \/ Preflight(c) PROVE Under(c) /\ \E stage : stage # "idle" /\ Moves(c, stage)
    BY <2>1 DEF LoadChunk, Preflight, StackProceeds, SelectWallet, Connect,
         ConnectionStatus, Configuration, QueryNetwork, Connected, Probe, Addresses, Goto, Degrade
  <2>2. ASSUME Stacked(c) \/ LoadContract(c) \/ Join(c) PROVE Under(c) /\ \E stage : stage # "idle" /\ Moves(c, stage)
    BY <2>2 DEF Stacked, LoadContract, Join, Goto, Degrade
  <2>3. ASSUME RunCircuit(c) \/ Submit(c) \/ Finalized(c) PROVE Under(c) /\ \E stage : stage # "idle" /\ Moves(c, stage)
    BY <2>3 DEF RunCircuit, Submit, Finalized, Goto, Degrade
  <2> QED BY <1>5, <2>1, <2>2, <2>3 DEF CallProceeds
<1>6. CASE UNCHANGED pc
  BY <1>6 DEF PortOutcome, Port!vars
<1>7. ASSUME NEW c \in Call, CallProceeds(c) PROVE [Port!Next]_(Port!vars)
  BY <1>2, <1>3, <1>4, <1>5, <1>7 DEF Port!Next, Port!Answer, Port!vars
<1> QED BY <1>1, <1>6, <1>7 DEF Next, WorldChanges, vars, stackVars, Port!Next

\* Seen from a screen, the browser-direct ports are proof ports: each call
\* gets one answer, and never an exception (the safety half of proofPort.ts).
THEOREM LaceIsAPort == Safety => ImplementsProofPort
<1>1. Init => Port!Init
  BY DEF Init, StackInit, Port!Init, PortOutcome
<1>2. LaceInv /\ [Next]_vars => [Port!Next]_(Port!vars)
  BY LaceRefines DEF LaceInv
<1> QED BY <1>1, <1>2, LaceInvariant, PTL DEF Safety, ImplementsProofPort, Port!Safety
=============================================================================
