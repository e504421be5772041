--------------------------- MODULE Operator_proof --------------------------
(***************************************************************************)
(* Proofs about what an operator runs: the deployment tool of the page     *)
(* (DeployTool), the copy of the keys (ZkArtifacts), the unattended demo   *)
(* (DemoRun) and the latency measurement (LatencyRun); and that in         *)
(* Operator each of them behaves as it does alone.                         *)
(***************************************************************************)
EXTENDS Operator, TLAPS

(***************************************************************************)
(* The deployment tool, for all sets of attempts, networks and faults and  *)
(* any number of changes of the world: one deployment is awaited at a      *)
(* time, what the screen names belongs together, what may still land is    *)
(* warned of, and a retry keeps its target.                                *)
(***************************************************************************)
\* A deployment is under way only once its contract was loaded; an attempt that
\* ended well has landed, and one that may land although it failed says so.
WorkInv ==
  \A c \in Call :
    /\ work[c] # "none" => pc[c] \in {"deploying", "ok", "degraded", "gone"}
    /\ pc[c] = "ok" => work[c] = "landed"
    /\ pc[c] = "degraded" /\ MayLand(c) => reason[c] = "deploy_failed"

\* The controller waits for the attempt it names and for no other.
RunInv ==
  /\ \A c \in Call : Awaited(c) => phase = "running" /\ current = c
  /\ phase \in {"running", "degraded"} => current \in Call /\ targetOf[current] = target

ToolInv == TypeOK /\ WorkInv /\ RunInv /\ DoneNamesWhatLanded

----------------------------------------------------------------------------
LEMMA ToolInitially == Init => ToolInv
<1> SUFFICES ASSUME Init PROVE ToolInv
  OBVIOUS
<1>1. /\ lacks \in Lacking /\ world \in World /\ changes \in 0..MaxChanges
      /\ pc = [c \in Call |-> "idle"] /\ reason = [c \in Call |-> "none"]
  BY StackAssumption DEF Init, StackInit
<1>2. TypeOK
  BY <1>1 DEF Init, TypeOK, Target, Reload
<1> QED BY <1>2 DEF Init, StackInit, ToolInv, WorkInv, RunInv, DoneNamesWhatLanded, Awaited

\* A step of the stack moves one attempt along, or ends it degraded.
Along(c) ==
  /\ Awaited(c)
  /\ \/ UNCHANGED reason /\ \E stage : stage \in {"connect", "status", "configuration", "connected",
           "probe", "addresses", "stacked", "loading"} /\ pc' = [pc EXCEPT ![c] = stage]
     \/ pc' = [pc EXCEPT ![c] = "degraded"] /\ \E why \in Reason : reason' = [reason EXCEPT ![c] = why]
  /\ pc[c] # "deploying"

LEMMA StackSteps ==
  ASSUME NEW c \in Call, LoadChunk(c) \/ Preflight(c) \/ Stacked(c)
  PROVE  Along(c) /\ UNCHANGED toolVars
<1>g. ASSUME NEW stage \in {"connect", "status", "configuration", "connected",
                            "probe", "addresses", "stacked", "loading"},
             Goto(c, stage), Awaited(c), pc[c] # "deploying"
      PROVE  Along(c)
  BY <1>g DEF Goto, Along
<1>d. ASSUME NEW why \in Reason, Degrade(c, why), Awaited(c), pc[c] # "deploying" PROVE Along(c)
  BY <1>d DEF Degrade, Along
<1>1. CASE LoadChunk(c)
  BY <1>1, <1>g, <1>d DEF LoadChunk, SelectWallet, Awaited, Reason
<1>2. CASE Connect(c) /\ UNCHANGED toolVars
  BY <1>2, <1>g, <1>d DEF Connect, Awaited, Reason
<1>3. CASE ConnectionStatus(c) /\ UNCHANGED toolVars
  BY <1>3, <1>g, <1>d DEF ConnectionStatus, QueryNetwork, Awaited, Reason
<1>4. CASE Configuration(c) /\ UNCHANGED toolVars
  BY <1>4, <1>g, <1>d DEF Configuration, QueryNetwork, Awaited, Reason
<1>5. CASE Connected(c) /\ UNCHANGED toolVars
  BY <1>5, <1>g, <1>d DEF Connected, Awaited, Reason
<1>6. CASE Probe(c) /\ UNCHANGED toolVars
  BY <1>6, <1>g, <1>d DEF Probe, Awaited, Reason
<1>7. CASE Addresses(c) /\ UNCHANGED toolVars
  BY <1>7, <1>g, <1>d DEF Addresses, Awaited, Reason
<1>8. CASE Stacked(c)
  BY <1>8, <1>g DEF Stacked, Awaited
<1> QED BY <1>1, <1>2, <1>3, <1>4, <1>5, <1>6, <1>7, <1>8 DEF Preflight, StackProceeds

\* So it disturbs nothing: the attempt had no deployment yet.
LEMMA AlongKeeps ==
  ASSUME ToolInv, NEW c \in Call, Along(c), UNCHANGED toolVars, UNCHANGED <<lacks, world, changes>>
  PROVE  ToolInv'
<1>1. /\ pc' \in [Call -> {"idle", "called", "connect", "status", "configuration", "connected",
                          "probe", "addresses", "stacked", "loading", "issuing", "deploying",
                          "ok", "degraded", "gone"}]
      /\ reason' \in [Call -> Reason \cup {"none"}]
  BY DEF Along, ToolInv, TypeOK
<1>2. TypeOK'
  BY <1>1 DEF toolVars, screenVars, ToolInv, TypeOK
<1>3. work[c] = "none"
  BY DEF Along, Awaited, ToolInv, WorkInv, TypeOK
<1>4. WorkInv'
  BY <1>3 DEF Along, toolVars, ToolInv, WorkInv, MayLand, TypeOK
<1>5. RunInv'
  BY DEF Along, Awaited, toolVars, screenVars, ToolInv, RunInv, TypeOK
<1>6. DoneNamesWhatLanded'
  BY DEF toolVars, screenVars, ToolInv, DoneNamesWhatLanded
<1> QED BY <1>2, <1>4, <1>5, <1>6 DEF ToolInv

----------------------------------------------------------------------------
\* The steps that change the tool's own variables, one lemma each.
LEMMA PressKeeps ==
  ASSUME ToolInv, NEW c \in Call, NEW t \in Target, Press(c, t), UNCHANGED <<lacks, world, changes>>
  PROVE  ToolInv'
<1>1. /\ pc[c] = "idle" /\ phase # "running" /\ phase' = "running" /\ target' = t /\ current' = c
      /\ address' = None /\ key' = None /\ UNCHANGED <<reason, work, reloads>>
      /\ pc' = [pc EXCEPT ![c] = "called"] /\ targetOf' = [targetOf EXCEPT ![c] = t]
  BY DEF Press, Goto
<1>2. TypeOK'
  BY <1>1 DEF ToolInv, TypeOK
<1>3. WorkInv'
  BY <1>1 DEF ToolInv, WorkInv, MayLand, TypeOK
<1>4. RunInv'
  BY <1>1 DEF ToolInv, RunInv, Awaited, TypeOK
<1>5. DoneNamesWhatLanded'
  BY <1>1 DEF DoneNamesWhatLanded
<1> QED BY <1>2, <1>3, <1>4, <1>5 DEF ToolInv

LEMMA BeginKeeps ==
  ASSUME ToolInv, NEW c \in Call, LoadContract(c) \/ Issue(c), UNCHANGED <<lacks, world, changes>>
  PROVE  ToolInv'
<1>1. /\ Awaited(c) /\ pc[c] # "deploying" /\ UNCHANGED <<screenVars, targetOf, reloads>>
      /\ \/ pc' = [pc EXCEPT ![c] = "degraded"] /\ reason' = [reason EXCEPT ![c] = "contract_not_compiled"] /\ UNCHANGED work
         \/ pc' = [pc EXCEPT ![c] = "issuing"] /\ UNCHANGED <<reason, work>>
         \/ pc' = [pc EXCEPT ![c] = "deploying"] /\ UNCHANGED reason /\ work' = [work EXCEPT ![c] = "building"]
  BY DEF LoadContract, Issue, Goto, Degrade, Awaited
<1>2. TypeOK'
  BY <1>1 DEF ToolInv, TypeOK, screenVars, Reason
<1>3. work[c] = "none"
  BY <1>1 DEF Awaited, ToolInv, WorkInv
<1>4. WorkInv'
  BY <1>1, <1>3 DEF ToolInv, WorkInv, MayLand, TypeOK
<1>5. RunInv'
  BY <1>1 DEF ToolInv, RunInv, Awaited, TypeOK, screenVars
<1>6. DoneNamesWhatLanded'
  BY <1>1, <1>3 DEF ToolInv, DoneNamesWhatLanded, TypeOK, screenVars
<1> QED BY <1>2, <1>4, <1>5, <1>6 DEF ToolInv

LEMMA WorkKeeps ==
  ASSUME ToolInv, NEW c \in Call, Submit(c) \/ Land(c), UNCHANGED <<lacks, world, changes>>
  PROVE  ToolInv'
<1>1. /\ UNCHANGED <<pc, reason, screenVars, targetOf, reloads>>
      /\ \/ work[c] = "building" /\ work' = [work EXCEPT ![c] = "submitted"]
         \/ work[c] = "submitted" /\ work' = [work EXCEPT ![c] = "landed"]
  BY DEF Submit, Land
<1>2. TypeOK'
  BY <1>1 DEF ToolInv, TypeOK, screenVars
<1>3. WorkInv'
  BY <1>1 DEF ToolInv, WorkInv, MayLand, TypeOK
<1>4. RunInv'
  BY <1>1 DEF ToolInv, RunInv, Awaited, screenVars
<1>5. DoneNamesWhatLanded'
  BY <1>1 DEF ToolInv, DoneNamesWhatLanded, TypeOK, screenVars
<1> QED BY <1>2, <1>3, <1>4, <1>5 DEF ToolInv

LEMMA EndKeeps ==
  ASSUME ToolInv, NEW c \in Call, DeployFails(c) \/ Confirmed(c) \/ DeployExpires(c),
         UNCHANGED <<lacks, world, changes>>
  PROVE  ToolInv'
<1>1. /\ UNCHANGED <<screenVars, targetOf, reloads>>
      /\ UNCHANGED work \/ (work[c] = "building" /\ work' = [work EXCEPT ![c] = "dead"])
      /\ \/ UNCHANGED <<pc, reason>>
         \/ pc[c] = "deploying" /\ pc' = [pc EXCEPT ![c] = "degraded"] /\ reason' = [reason EXCEPT ![c] = "deploy_failed"]
         \/ pc[c] = "deploying" /\ pc' = [pc EXCEPT ![c] = "ok"] /\ work[c] = "landed" /\ UNCHANGED <<reason, work>>
  BY DEF DeployFails, Confirmed, DeployExpires, Goto, Degrade, toolVars
<1>2. TypeOK'
  BY <1>1 DEF ToolInv, TypeOK, screenVars, Reason
<1>3. WorkInv'
  BY <1>1 DEF ToolInv, WorkInv, MayLand, TypeOK
<1>4. RunInv'
  BY <1>1 DEF ToolInv, RunInv, Awaited, TypeOK, screenVars
<1>5. DoneNamesWhatLanded'
  BY <1>1 DEF ToolInv, DoneNamesWhatLanded, TypeOK, screenVars
<1> QED BY <1>2, <1>3, <1>4, <1>5 DEF ToolInv

LEMMA SettleKeeps ==
  ASSUME ToolInv, NEW c \in Call, Settle(c), UNCHANGED <<lacks, world, changes>>
  PROVE  ToolInv'
<1>1. /\ phase = "running" /\ current = c /\ UNCHANGED <<target, current, targetOf, work, reloads, pc, reason>>
      /\ \/ pc[c] = "ok" /\ phase' = "done" /\ address' = c
            /\ key' = IF targetOf[c] = "identity" THEN c ELSE None
         \/ pc[c] = "degraded" /\ phase' = "degraded" /\ address' = None /\ key' = None
  BY DEF Settle
<1>2. TypeOK'
  BY <1>1 DEF ToolInv, TypeOK
<1>3. WorkInv'
  BY <1>1 DEF ToolInv, WorkInv, MayLand
<1>4. RunInv'
  BY <1>1 DEF ToolInv, RunInv, Awaited
<1>5. DoneNamesWhatLanded'
  BY <1>1, ToolAssumption DEF ToolInv, WorkInv, RunInv, DoneNamesWhatLanded
<1> QED BY <1>2, <1>3, <1>4, <1>5 DEF ToolInv

LEMMA ReloadKeeps ==
  ASSUME ToolInv, LoadAgain, UNCHANGED <<lacks, world, changes>>
  PROVE  ToolInv'
<1>1. /\ reloads' \in Reload /\ phase' = "idle" /\ target' = "backing" /\ current' = None
      /\ address' = None /\ key' = None /\ UNCHANGED <<reason, targetOf>>
      /\ pc' = [c \in Call |-> IF pc[c] \in {"idle", "ok", "degraded"} THEN pc[c] ELSE "gone"]
      /\ work' = [c \in Call |-> IF work[c] = "building" THEN "dead" ELSE work[c]]
  BY DEF LoadAgain
<1>2. pc' \in [Call -> {"idle", "ok", "degraded", "gone"}]
      /\ work' \in [Call -> {"none", "building", "submitted", "landed", "dead"}]
  BY <1>1 DEF ToolInv, TypeOK
<1>3. TypeOK'
  <2>1. pc' \in [Call -> {"idle", "called", "connect", "status", "configuration", "connected",
                          "probe", "addresses", "stacked", "loading", "issuing", "deploying",
                          "ok", "degraded", "gone"}]
    BY <1>2
  <2> QED BY <1>1, <1>2, <2>1 DEF ToolInv, TypeOK, Target
<1>4. WorkInv'
  BY <1>1 DEF ToolInv, WorkInv, MayLand, TypeOK
<1>5. RunInv'
  BY <1>1, <1>2 DEF RunInv, Awaited
<1>6. DoneNamesWhatLanded'
  BY <1>1 DEF DoneNamesWhatLanded
<1> QED BY <1>3, <1>4, <1>5, <1>6 DEF ToolInv

\* What the outside does touches nothing of the tool.
LEMMA WorldKeeps ==
  ASSUME ToolInv, (WorldChanges /\ UNCHANGED toolVars) \/ UNCHANGED vars
  PROVE  ToolInv'
<1>1. UNCHANGED <<toolVars, lacks, pc, reason>> /\ world' \in World /\ changes' \in 0..MaxChanges
  BY StackAssumption DEF WorldChanges, vars, stackVars, ToolInv, TypeOK
<1>2. TypeOK'
  BY <1>1 DEF ToolInv, TypeOK, toolVars, screenVars
<1> QED BY <1>1, <1>2 DEF ToolInv, WorkInv, RunInv, MayLand, Awaited, DoneNamesWhatLanded, toolVars, screenVars

\* Every reachable state of the tool has the strengthened invariant.
THEOREM ToolInvariant == Safety => []ToolInv
<1>1. ToolInv /\ [Next]_vars => ToolInv'
  BY StackSteps, AlongKeeps, PressKeeps, BeginKeeps, WorkKeeps, EndKeeps, SettleKeeps, ReloadKeeps, WorldKeeps
     DEF Next, RunProceeds
<1> QED BY <1>1, ToolInitially, PTL DEF Safety

\* Type correctness of DeployTool.
THEOREM ToolTypeCorrect == Safety => []TypeOK
  BY ToolInvariant, PTL DEF ToolInv

\* The controller never waits for two deployments, however often it is pressed.
THEOREM ToolAwaitsOne == Safety => []OneDeploymentAwaited
<1>1. ToolInv => OneDeploymentAwaited
  BY DEF ToolInv, RunInv, OneDeploymentAwaited
<1> QED BY <1>1, ToolInvariant, PTL

\* The address and the key the done screen names belong together and are on
\* the chain, whatever was given up on before.
THEOREM ToolNamesWhatLanded == Safety => []DoneNamesWhatLanded
  BY ToolInvariant, PTL DEF ToolInv

\* What the wait of deployBackingWithLace or deployIdentityWithLace gave up on
\* while it may still land is reported as deploy_failed.
THEOREM ToolWarns == Safety => []MayLandIsWarnedOf
<1>1. ToolInv => MayLandIsWarnedOf
  BY DEF ToolInv, WorkInv, MayLandIsWarnedOf
<1> QED BY <1>1, ToolInvariant, PTL

\* The button of a degraded screen deploys the contract that failed.
THEOREM ToolRetries == Safety => RetryKeepsTarget
<1> DEFINE Kept == phase = "degraded" /\ phase' = "running" =>
                     target' = target /\ targetOf'[current'] = targetOf[current]
<1>1. ToolInv /\ [Next]_vars => Kept
  <2> SUFFICES ASSUME ToolInv, [Next]_vars, phase = "degraded", phase' = "running" PROVE
               target' = target /\ targetOf'[current'] = targetOf[current]
    OBVIOUS
  <2>1. PICK c \in Call, t \in Target : Press(c, t)
    BY StackSteps DEF Next, RunProceeds, LoadContract, Issue, Submit, Land, DeployFails, Confirmed, DeployExpires,
       Settle, LoadAgain, WorldChanges, vars, toolVars, screenVars
  <2>2. t = target /\ target' = t /\ current' = c /\ targetOf'[c] = t
    BY <2>1 DEF Press, Buttons, ToolInv, TypeOK
  <2> QED BY <2>2 DEF ToolInv, RunInv
<1>2. [][ToolInv /\ [Next]_vars]_vars => [][Kept]_vars
  BY <1>1, PTL
<1> QED BY <1>1, ToolInvariant, PTL DEF Safety, RetryKeepsTarget

----------------------------------------------------------------------------
(***************************************************************************)
(* The copy, for any circuits and names, compilations and runs.            *)
(***************************************************************************)
Copying == script \in {"planned", "copying"}

\* What a run that nobody raced and that has not warned has done: what is in
\* web/public/zk is what was compiled, but for what is left to copy.
CopyInv ==
  /\ MaxCompiles \in Nat /\ compiles \in 0..MaxCompiles /\ mode \in {"dev", "build"}
  /\ managed \in [Circuit -> SUBSET (Served \X (1..MaxCompiles))]
  /\ \A c \in Circuit, x, y \in Served \X (1..MaxCompiles) :
       x \in managed[c] /\ y \in managed[c] => x[2] = y[2]
  /\ Copying => ~warned
  /\ script = "exited" /\ warned => mode = "dev"
  /\ ~Copying => left = {}
  /\ script # "idle" /\ ~warned /\ ~raced =>
       /\ planned = Artifacts!Compiled /\ Artifacts!Entries # {} /\ ~Artifacts!Collides
       /\ script = "planned" => left = Artifacts!Entries
       /\ script # "planned" => public = {a \in Artifacts!Compiled : <<a[1], a[2]>> \notin left}

LEMMA CopyInitially == Artifacts!Init => CopyInv
  BY ToolsAssumption DEF Artifacts!ArtifactAssumption, Artifacts!Init, CopyInv, Copying

\* An artifact is its circuit, its name and its compilation.
LEMMA SameArtifact ==
  ASSUME CopyInv, NEW a \in Artifacts!Compiled, NEW b \in Artifacts!Compiled,
         a[1] = b[1], a[2] = b[2]
  PROVE  a = b
<1>1. /\ a \in Circuit \X Served \X (1..MaxCompiles) /\ <<a[2], a[3]>> \in managed[a[1]]
      /\ b \in Circuit \X Served \X (1..MaxCompiles) /\ <<b[2], b[3]>> \in managed[b[1]]
  BY DEF Artifacts!Compiled, Artifacts!Artifact
<1>2. a = <<a[1], a[2], a[3]>> /\ b = <<b[1], b[2], b[3]>>
  BY <1>1
<1>3. <<a[2], a[3]>> \in Served \X (1..MaxCompiles) /\ <<b[2], b[3]>> \in Served \X (1..MaxCompiles) /\ a[1] \in Circuit
  BY <1>1
<1>4. a[3] = b[3]
  BY <1>1, <1>3 DEF CopyInv
<1> QED BY <1>2, <1>4

\* While nothing is compiled, what is compiled stays.
LEMMA SameCompiled ==
  ASSUME managed' = managed
  PROVE  /\ Artifacts!Compiled' = Artifacts!Compiled /\ Artifacts!Entries' = Artifacts!Entries
         /\ Artifacts!Collides' = Artifacts!Collides
  BY DEF Artifacts!Compiled, Artifacts!Entries, Artifacts!Collides

LEMMA CopyStep == ASSUME CopyInv, [Artifacts!Next]_artifactVars PROVE CopyInv'
<1>1. ASSUME NEW c \in Circuit, Artifacts!Compile(c) PROVE CopyInv'
  <2>1. PICK names \in SUBSET Served : managed' = [managed EXCEPT ![c] = names \X {compiles'}]
    BY <1>1 DEF Artifacts!Compile
  <2>2. compiles' \in 1..MaxCompiles
    BY <1>1 DEF Artifacts!Compile, CopyInv
  <2>3. managed' \in [Circuit -> SUBSET (Served \X (1..MaxCompiles))]
    BY <2>1, <2>2 DEF CopyInv
  <2>4. \A d \in Circuit, x, y \in Served \X (1..MaxCompiles) :
          x \in managed'[d] /\ y \in managed'[d] => x[2] = y[2]
    BY <2>1, <2>2 DEF CopyInv
  <2>5. /\ UNCHANGED <<mode, script, left, warned>> /\ raced' = (script # "idle")
        /\ compiles' \in 0..MaxCompiles
    BY <1>1, <2>2 DEF Artifacts!Compile, Artifacts!script
  <2> QED BY <2>3, <2>4, <2>5 DEF CopyInv, Copying
<1>2. ASSUME NEW m \in {"dev", "build"}, Artifacts!Plan(m) PROVE CopyInv'
  BY <1>2, SameCompiled DEF Artifacts!Plan, CopyInv, Copying
<1>3. CASE Artifacts!Replace
  <2>1. Artifacts!Entries = {<<a[1], a[2]>> : a \in Artifacts!Compiled}
    BY DEF Artifacts!Entries
  <2> QED BY <1>3, <2>1, SameCompiled DEF Artifacts!Replace, Artifacts!Replaced, CopyInv, Copying
<1>4. ASSUME NEW e \in Circuit \X Served, Artifacts!CopyOne(e) PROVE CopyInv'
  <2>1. PICK a \in Artifacts!Compiled :
          <<a[1], a[2]>> = e /\ public' = {b \in public : b[2] # a[2]} \cup {a}
    BY <1>4 DEF Artifacts!CopyOne
  <2>2. /\ e \in left /\ left' = left \ {e} /\ script = "copying"
        /\ UNCHANGED <<managed, compiles, script, warned, raced, mode, planned>>
    BY <1>4 DEF Artifacts!CopyOne
  <2>3. ASSUME ~warned, ~raced
        PROVE  public' = {x \in Artifacts!Compiled : <<x[1], x[2]>> \notin left'}
    <3>1. public = {x \in Artifacts!Compiled : <<x[1], x[2]>> \notin left} /\ ~Artifacts!Collides
      BY <2>2, <2>3 DEF CopyInv
    <3>2. \A x \in Artifacts!Compiled : x[2] = a[2] => x[1] = a[1]
      <4> SUFFICES ASSUME NEW x \in Artifacts!Compiled, x[2] = a[2] PROVE x[1] = a[1]
        OBVIOUS
      <4>1. <<x[1], x[2]>> \in Artifacts!Entries /\ <<a[1], a[2]>> \in Artifacts!Entries
        BY DEF Artifacts!Entries
      <4>2. \A f, g \in Artifacts!Entries : f[2] = g[2] => f[1] = g[1]
        BY <3>1 DEF Artifacts!Collides
      <4> QED BY <4>1, <4>2
    <3>3. ASSUME NEW x \in Artifacts!Compiled PROVE <<x[1], x[2]>> = e => x = a
      BY <2>1, SameArtifact
    <3>4. ASSUME NEW x \in Artifacts!Compiled, x[2] = a[2] PROVE <<x[1], x[2]>> = e
      BY <2>1, <3>2, <3>4
    <3>5. ASSUME NEW x \in public' PROVE x \in Artifacts!Compiled /\ <<x[1], x[2]>> \notin left'
      BY <2>1, <2>2, <3>1, <3>5
    <3>6. ASSUME NEW x \in Artifacts!Compiled, <<x[1], x[2]>> \notin left' PROVE x \in public'
      <4>1. CASE <<x[1], x[2]>> = e
        BY <2>1, <3>3, <4>1
      <4>2. CASE <<x[1], x[2]>> # e
        BY <2>1, <2>2, <3>1, <3>4, <3>6, <4>2
      <4> QED BY <4>1, <4>2
    <3> QED BY <3>5, <3>6
  <2> QED BY <2>2, <2>3, SameCompiled DEF CopyInv, Copying
<1>5. CASE Artifacts!CopyFails
  BY <1>5, SameCompiled DEF Artifacts!CopyFails, Artifacts!Fatal, Artifacts!Warns, CopyInv, Copying
<1>6. CASE Artifacts!Copied
  BY <1>6, SameCompiled DEF Artifacts!Copied, CopyInv, Copying
<1>7. CASE Artifacts!StartServer \/ Artifacts!Bundle \/ Artifacts!StopScript
  BY <1>7, SameCompiled DEF Artifacts!StartServer, Artifacts!Bundle, Artifacts!StopScript, CopyInv, Copying
<1>8. CASE UNCHANGED artifactVars
  BY <1>8, SameCompiled DEF artifactVars, CopyInv, Copying
<1> QED BY <1>1, <1>2, <1>3, <1>4, <1>5, <1>6, <1>7, <1>8 DEF Artifacts!Next

LEMMA CopyEnds ==
  ASSUME CopyInv
  PROVE  /\ Artifacts!ServesWholeOrWarned
         /\ Artifacts!Bundle => raced \/ (dist' = planned /\ dist' # {})
<1>1. ASSUME script \in {"exited", "serving"}, ~warned, ~raced
      PROVE  public = planned /\ planned # {}
  <2>1. public = Artifacts!Compiled /\ planned = Artifacts!Compiled /\ Artifacts!Entries # {}
    BY <1>1 DEF CopyInv, Copying
  <2> QED BY <2>1 DEF Artifacts!Entries
<1> QED BY <1>1 DEF CopyInv, Artifacts!ServesWholeOrWarned, Artifacts!Bundle

----------------------------------------------------------------------------
(***************************************************************************)
(* The demo, for any sequence of checks and any faults.                    *)
(***************************************************************************)
Outcome == [contract : Nat, cleared : BOOLEAN]

\* Each check is answered by a contract of its own, in order, as expected.
DemoInv ==
  /\ check \in Nat /\ contracts \in Nat /\ outcomes \in Seq(Outcome)
  /\ \A i \in 1..Len(outcomes) : outcomes[i] = [contract |-> i, cleared |-> Wanted[i]]
  /\ demo = "starting" => check = 1 /\ contracts = 0 /\ outcomes = <<>>
  /\ demo = "deploying" => contracts = Len(outcomes) /\ check = contracts + 1
  /\ demo = "calling" => contracts = Len(outcomes) + 1 /\ check = contracts
  /\ demoReport = "ok" => Len(outcomes) = Len(Wanted)

\* A run that is over has its network down, and a green one has earned it.
DemoEndInv ==
  /\ demo \in {"starting", "deploying", "calling"} => demoReport = "none"
  /\ demo \in {"reporting", "gone"} =>
       /\ demoNetwork \in {"none", "stopped", "leaked"}
       /\ demoReport = "ok" => demoNetwork = "stopped"
  /\ demoExit # "none" => demo = "gone"
  /\ demoExit = "green" => demoReport = "ok"

LEMMA DemoInitially == Demo!Init => DemoInv /\ DemoEndInv
  BY DEF Demo!Init, DemoInv, DemoEndInv

LEMMA DemoStep == ASSUME DemoInv, DemoEndInv, [Demo!Next]_demoVars PROVE DemoInv' /\ DemoEndInv'
<1> USE DEF Demo!Leave
<1>1. CASE Demo!Started \/ Demo!StartFails \/ Demo!Deployed
  <2>1. DemoInv'
    BY <1>1 DEF Demo!Started, Demo!StartFails, Demo!Deployed, DemoInv, DemoEndInv
  <2>2. DemoEndInv'
    BY <1>1 DEF Demo!Started, Demo!StartFails, Demo!Deployed, DemoEndInv
  <2> QED BY <2>1, <2>2
<1>2. CASE Demo!StepFails
  <2>1. DemoInv'
    BY <1>2 DEF Demo!StepFails, DemoInv, DemoEndInv
  <2>2. DemoEndInv'
    BY <1>2 DEF Demo!StepFails, DemoEndInv
  <2> QED BY <2>1, <2>2
<1>3. CASE Demo!Called
  <2>1. PICK cleared \in BOOLEAN :
          IF Demo!Unexpected(cleared)
          THEN Demo!Leave("degraded") /\ UNCHANGED <<check, outcomes>>
          ELSE /\ outcomes' = Append(outcomes, [contract |-> contracts, cleared |-> cleared])
               /\ IF check = Len(Wanted) THEN Demo!Leave("ok") /\ UNCHANGED check
                  ELSE check' = check + 1 /\ demo' = "deploying" /\ UNCHANGED demoReport
    BY <1>3 DEF Demo!Called
  <2>2. demo = "calling" /\ UNCHANGED <<demoNetwork, contracts, demoExit>>
    BY <1>3 DEF Demo!Called
  <2>3. DemoEndInv'
    BY <2>1, <2>2 DEF DemoEndInv
  <2>4. CASE Demo!Unexpected(cleared)
    BY <2>1, <2>2, <2>3, <2>4 DEF DemoInv, DemoEndInv
  <2>5. CASE ~Demo!Unexpected(cleared)
    <3>1. [contract |-> contracts, cleared |-> cleared] \in Outcome
      BY DEF Outcome, DemoInv
    <3>2. /\ outcomes' \in Seq(Outcome) /\ Len(outcomes') = Len(outcomes) + 1
          /\ \A i \in 1..Len(outcomes) : outcomes'[i] = outcomes[i]
          /\ outcomes'[Len(outcomes) + 1] = [contract |-> contracts, cleared |-> cleared]
      BY <2>1, <2>5, <3>1 DEF DemoInv
    <3>3. cleared = Wanted[check] /\ contracts = Len(outcomes) + 1 /\ check = contracts
      BY <2>2, <2>5 DEF DemoInv, Demo!Unexpected
    <3>4. ASSUME NEW i \in 1..Len(outcomes') PROVE outcomes'[i] = [contract |-> i, cleared |-> Wanted[i]]
      <4>1. CASE i \in 1..Len(outcomes)
        BY <3>2, <4>1 DEF DemoInv
      <4>2. CASE i = Len(outcomes) + 1
        BY <3>2, <3>3, <4>2
      <4> QED BY <3>2, <3>4, <4>1, <4>2 DEF DemoInv
    <3> QED BY <2>1, <2>2, <2>3, <2>5, <3>2, <3>3, <3>4 DEF DemoInv, DemoEndInv
  <2> QED BY <2>4, <2>5
<1>4. CASE Demo!ShutsDown
  <2>1. DemoInv'
    BY <1>4 DEF Demo!ShutsDown, DemoInv
  <2>2. DemoEndInv'
    BY <1>4 DEF Demo!ShutsDown, DemoEndInv
  <2> QED BY <2>1, <2>2
<1>5. CASE Demo!Exits
  BY <1>5 DEF Demo!Exits, Demo!ExitOf, DemoInv, DemoEndInv
<1>6. CASE Demo!NetworkDies
  BY <1>6 DEF Demo!NetworkDies, DemoInv, DemoEndInv
<1>7. CASE UNCHANGED demoVars
  BY <1>7 DEF demoVars, DemoInv, DemoEndInv
<1> QED BY <1>1, <1>2, <1>3, <1>4, <1>5, <1>6, <1>7 DEF Demo!Next

----------------------------------------------------------------------------
(***************************************************************************)
(* The measurement.                                                        *)
(***************************************************************************)
\* The run's progress, as counts; and what a report and an exit stand for.
MeasureInv ==
  /\ measuring \in {"start", "build", "fund", "deploy"} => deployed = 0 /\ timed = 0
  /\ measuring = "call" => deployed = 1 /\ timed = 0
  /\ measuring = "read" => deployed = 1 /\ timed = 1
  /\ report = "ok" => deployed = 1 /\ timed = 1 /\ measuring \in {"stopping", "shutting", "reporting", "gone"}
  /\ measuring \in {"reporting", "gone"} /\ network = "up" => wallet = "stop threw"
  /\ exit # "none" => measuring = "gone"
  /\ exit = "green" => report = "ok"

LEMMA MeasureInitially == Latency!Init => MeasureInv
  BY DEF Latency!Init, MeasureInv

LEMMA MeasureStep == ASSUME MeasureInv, [Latency!Next]_latencyVars PROVE MeasureInv'
<1> USE DEF MeasureInv
<1>1. CASE Latency!NetworkStarts \/ Latency!WalletBuilt \/ Latency!WalletFunded
  BY <1>1 DEF Latency!NetworkStarts, Latency!WalletBuilt, Latency!WalletFunded
<1>2. CASE Latency!SetupFails \/ Latency!StepFails
  BY <1>2 DEF Latency!SetupFails, Latency!StepFails, Latency!Returns, Latency!Blamed
<1>3. CASE Latency!Deployed \/ Latency!Called \/ Latency!LedgerRead
  <2>1. CASE Latency!Deployed
    BY <2>1 DEF Latency!Deployed
  <2>2. CASE Latency!Called
    BY <2>2 DEF Latency!Called
  <2>3. CASE Latency!LedgerRead
    BY <2>3 DEF Latency!LedgerRead, Latency!Returns
  <2> QED BY <1>3, <2>1, <2>2, <2>3
<1>4. CASE Latency!StopsWallet \/ Latency!ShutsDown
  BY <1>4 DEF Latency!StopsWallet, Latency!ShutsDown
<1>5. CASE Latency!Exits \/ Latency!NetworkDies
  BY <1>5 DEF Latency!Exits, Latency!ExitOf, Latency!NetworkDies
<1>6. CASE UNCHANGED latencyVars
  BY <1>6 DEF latencyVars
<1> QED BY <1>1, <1>2, <1>3, <1>4, <1>5, <1>6 DEF Latency!Next

----------------------------------------------------------------------------
(***************************************************************************)
(* The composition.                                                        *)
(***************************************************************************)
LEMMA OperatorInitially ==
  OperatorInit => Init /\ Artifacts!Init /\ Demo!Init /\ Latency!Init
  BY DEF OperatorInit

LEMMA OperatorStep ==
  [OperatorNext]_operatorVars =>
    [Next]_vars /\ [Artifacts!Next]_artifactVars /\ [Demo!Next]_demoVars /\ [Latency!Next]_latencyVars
<1>1. CASE Deploys
  BY <1>1 DEF Deploys
<1>2. CASE Copies
  BY <1>2 DEF Copies
<1>3. CASE RunsDemo
  BY <1>3 DEF RunsDemo
<1>4. CASE Measures
  BY <1>4 DEF Measures
<1>5. CASE UNCHANGED operatorVars
  BY <1>5 DEF operatorVars
<1> QED BY <1>1, <1>2, <1>3, <1>4, <1>5 DEF OperatorNext

\* Seen through its own variables, the deployment tool behaves in Operator as its
\* module says: what is proved of it alone holds there.
THEOREM ToolBehavesAsAlone == OperatorSafety => Safety
  BY OperatorInitially, OperatorStep, PTL DEF OperatorSafety, Safety

LEMMA CopyBehaves == OperatorSafety => []CopyInv
<1>1. CopyInv /\ [OperatorNext]_operatorVars => CopyInv'
  BY OperatorStep, CopyStep
<1> QED BY <1>1, OperatorInitially, CopyInitially, PTL DEF OperatorSafety

LEMMA DemoBehaves == OperatorSafety => [](DemoInv /\ DemoEndInv)
<1>1. DemoInv /\ DemoEndInv /\ [OperatorNext]_operatorVars => DemoInv' /\ DemoEndInv'
  BY OperatorStep, DemoStep
<1> QED BY <1>1, OperatorInitially, DemoInitially, PTL DEF OperatorSafety

LEMMA MeasureBehaves == OperatorSafety => []MeasureInv
<1>1. MeasureInv /\ [OperatorNext]_operatorVars => MeasureInv'
  BY OperatorStep, MeasureStep
<1> QED BY <1>1, OperatorInitially, MeasureInitially, PTL DEF OperatorSafety

\* A bundle ships exactly what was compiled when its build began, for any
\* circuits and artifact names and any number of runs before it, unless somebody
\* compiled while it was being made (copy-zk-artifacts.mjs, copyZkArtifacts.mjs).
THEOREM BundlesAreWhole == OperatorSafety => ShipsWhatWasCompiled
<1>1. CopyInv /\ [OperatorNext]_operatorVars
        => [Artifacts!Bundle => raced \/ (dist' = planned /\ dist' # {})]_(Artifacts!vars)
  BY CopyEnds
<1> QED
  BY <1>1, CopyBehaves, PTL DEF OperatorSafety, ShipsWhatWasCompiled, Artifacts!ShipsWhatWasCompiled

\* However many faults a script meets, and wherever: a green demo answered every
\* check it was given as expected, each on a contract of its own, and left no
\* network (run.ts); a green measurement timed one call on one contract, and
\* whatever its end its network was stopped or could not be (latency.ts); and a
\* server without a whole set of keys was warned of (copyZkArtifacts.mjs).
THEOREM ScriptsAreHonest == OperatorSafety => []ScriptsEndWell
<1>1. CopyInv => Artifacts!ServesWholeOrWarned
  BY CopyEnds
<1>2. DemoInv /\ DemoEndInv => Demo!GreenIsEarned /\ Demo!NothingLeftBehind
  <2>1. DemoInv => DOMAIN outcomes = 1..Len(outcomes)
    BY DEF DemoInv
  <2> QED BY <2>1 DEF DemoInv, DemoEndInv, Demo!GreenIsEarned, Demo!NothingLeftBehind
<1>3. MeasureInv => Latency!GreenIsMeasured /\ Latency!NetworkIsReleased
  BY DEF MeasureInv, Latency!GreenIsMeasured, Latency!NetworkIsReleased
<1>4. CopyInv /\ DemoInv /\ DemoEndInv /\ MeasureInv => ScriptsEndWell
  BY <1>1, <1>2, <1>3 DEF ScriptsEndWell
<1> QED BY <1>4, CopyBehaves, DemoBehaves, MeasureBehaves, PTL
============================================================================
