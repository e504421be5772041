---------------------------- MODULE Journey_proof ----------------------------
(***************************************************************************)
(* Proofs about Journey, for every cadence of the moments, every set of    *)
(* tiers, every measured run and any number of starts.                     *)
(***************************************************************************)
EXTENDS Journey, TLAPS

\* What a run that is out, and the state it will settle, say of each other.
Out(g) == run[g].at \in {"calling", "settling"}
RunInv ==
  /\ \A g \in Generation : Out(g) => /\ g = generation
                                     /\ run[g].kind \in Kind
                                     /\ proof[run[g].kind].phase = "generating"
  /\ \A k \in Kind : proof[k].phase = "generating" =>
       step = k /\ Out(generation) /\ run[generation].kind = k
  /\ \A g \in Generation : g > generation \/ g = 0 => run[g].at = "unused"
  /\ \A g \in Generation : run[g].at = "settling" =>
       run[g].result \in Answers[run[g].kind] \cup {"degraded"}
  /\ tickHandle = IF Out(generation) THEN generation ELSE 0
  /\ ticking = {g \in Generation : Out(g)}

\* Only a proof that is ready carries a value, and that value holds.
ValueInv ==
  \A k \in Kind :
    IF proof[k].phase = "ready" THEN Holds(k, proof[k].value) /\ proof[k].value \in Answers[k]
    ELSE proof[k].value = NoValue

\* What is on the root is what the last render left there.
ScreenInv ==
  IF showingHelp THEN root = HelpView
  ELSE renderedKey = ViewKey /\ root.key = ViewKey /\ root.value = ShownValue

JourneyInv ==
  TypeOK /\ RunInv /\ ValueInv /\ ScreenInv /\ NoStepUnanswered /\ MomentInItsWait

----------------------------------------------------------------------------
(* Types.                                                                  *)

\* The types but those of what is drawn.
StateTypeOK ==
  /\ MomentTypeOK
  /\ step \in Step
  /\ proof \in [Kind -> [phase : ProofPhase,
                         value : Answers["identity"] \cup Tier \cup {NoValue}]]
  /\ generation \in Generation
  /\ run \in [Generation -> [kind : Kind \cup {"none"},
                             at : {"unused", "calling", "settling", "over"},
                             result : Answers["identity"] \cup Tier \cup {"degraded"}]]
  /\ tickHandle \in Generation
  /\ ticking \subseteq Generation
  /\ showingHelp \in BOOLEAN
  /\ elapsed \in 0..(Measured + 1)
  /\ begun \in Generation

LEMMA StateViewOK ==
  StateTypeOK =>
    View \in Views /\ ViewKey \in ViewKeys /\ View.key = ViewKey /\ View.value = ShownValue
<1> SUFFICES ASSUME StateTypeOK
             PROVE  View \in Views /\ ViewKey \in ViewKeys /\ View.key = ViewKey /\ View.value = ShownValue
  OBVIOUS
<1>1. ShownValue \in Answers["identity"] \cup Tier \cup {NoValue}
  BY TierAssumption DEF StateTypeOK, ShownValue, Step, Kind, Answers
<1>2. ViewKey \in ViewKeys
  BY DEF StateTypeOK, ViewKey, ViewKeys, Step, Kind, ProofPhase
<1>3. QED
  BY <1>1, <1>2, BoundsAssumption DEF StateTypeOK, View, Views

LEMMA TypesSplit == TypeOK <=> /\ StateTypeOK
                               /\ renderedKey \in ViewKeys \cup {NoKey}
                               /\ root \in Views
BY DEF TypeOK, StateTypeOK

\* Whatever it draws, a render keeps the types of what is drawn.
LEMMA RenderTypes ==
  ASSUME TypeOK, StateTypeOK', NEW key \in ViewKeys \cup {NoKey}, Render(key)
  PROVE  TypeOK'
<1>1. View' \in Views /\ ViewKey' \in ViewKeys
  <2>1. (StateTypeOK => View \in Views /\ ViewKey \in ViewKeys)'
    BY StateViewOK, PTL
  <2>2. QED
    BY <2>1
<1>2. root \in Views
  BY DEF TypeOK
<1>3. Patched \in Views
  BY <1>1, <1>2 DEF Patched, Views
<1>4. renderedKey' \in ViewKeys \cup {NoKey} /\ root' \in Views
  BY <1>1, <1>2, <1>3 DEF Render
<1>5. QED
  BY <1>4, TypesSplit DEF TypeOK, StateTypeOK

LEMMA InitTypes == Init => TypeOK
<1> SUFFICES ASSUME Init PROVE TypeOK
  OBVIOUS
<1>1. StateTypeOK
  <2>1. MomentTypeOK
    BY DEF Init, MomentInit, MomentTypeOK
  <2>2. 0 \in Generation /\ 0 \in 0..(Measured + 1)
    BY BoundsAssumption DEF Generation
  <2>3. QED
    BY <2>1, <2>2 DEF Init, StateTypeOK, Step, Kind, ProofPhase, IdleProof, NotRun
<1>2. HelpView \in Views
  BY TierAssumption, BoundsAssumption DEF HelpView, Views
<1>3. QED
  BY <1>1, <1>2, StateViewOK DEF Init, TypeOK, StateTypeOK

\* Every cue's delay is a number of ticks.
LEMMA CueDelays ==
  \A m \in Moment : MomentCues[m].after \in Nat \ {0}
BY Cadence DEF Moment, MomentCues

LEMMA RearmedTypes ==
  ASSUME MomentTypeOK, NEW cues \in SUBSET Moment
  PROVE  Rearmed(cues) \in [Timer -> Nat \cup {Off}]
BY CueDelays DEF MomentTypeOK, Rearmed, Timer

LEMMA SettledTypes ==
  ASSUME NEW k \in Kind, NEW r \in Answers["identity"] \cup Tier \cup {"degraded"}
  PROVE  ToProofState(k, r) \in [phase : ProofPhase,
                                value : Answers["identity"] \cup Tier \cup {NoValue}]
BY DEF ToProofState, ProofPhase

LEMMA MomentTypes ==
  ASSUME MomentTypeOK
  PROVE  /\ \A k \in Kind : StartWait(k) => MomentTypeOK'
         /\ \A k \in Kind, o \in {"ready", "unanswered"} : EndWait(k, o) => MomentTypeOK'
         /\ ResetMoments => MomentTypeOK'
         /\ \A m \in Moment : PlayCue(m, HasTopbar) => MomentTypeOK'
         /\ Dismiss \/ Remove \/ TimersAdvance => MomentTypeOK'
<1> DEFINE T == [Timer -> Nat \cup {Off}]
<1>1. ASSUME NEW k \in Kind, StartWait(k) PROVE MomentTypeOK'
  <2>1. timer' \in T
    BY <1>1, RearmedTypes DEF StartWait, CuesFor
  <2>2. QED
    BY <1>1, <2>1 DEF StartWait, MomentTypeOK
<1>2. ASSUME NEW k \in Kind, NEW o, EndWait(k, o) PROVE MomentTypeOK'
  <2>1. Rearmed(IF o = "ready" THEN CuesFor(k, "settled") ELSE {}) \in T
    BY RearmedTypes DEF CuesFor
  <2>2. timer' \in T
    BY <1>2, <2>1, Cadence DEF EndWait
  <2>3. QED
    BY <1>2, <2>2 DEF EndWait, MomentTypeOK
<1>3. ASSUME ResetMoments PROVE MomentTypeOK'
  BY <1>3 DEF ResetMoments, MomentTypeOK
<1>4. ASSUME NEW m \in Moment, PlayCue(m, HasTopbar) PROVE MomentTypeOK'
  BY <1>4, Cadence DEF PlayCue, MomentTypeOK
<1>5. ASSUME Dismiss \/ Remove PROVE MomentTypeOK'
  BY <1>5, Cadence DEF Dismiss, Remove, MomentTypeOK
<1>6. ASSUME TimersAdvance PROVE MomentTypeOK'
  BY <1>6 DEF TimersAdvance, Due, MomentTypeOK, Off
<1>7. QED
  BY <1>1, <1>2, <1>3, <1>4, <1>5, <1>6

LEMMA StepTypes == TypeOK /\ RunInv /\ [Next]_vars => TypeOK'
<1> SUFFICES ASSUME TypeOK, RunInv, [Next]_vars PROVE TypeOK'
  OBVIOUS
<1>0. StateTypeOK /\ renderedKey \in ViewKeys \cup {NoKey} /\ root \in Views
  BY TypesSplit
<1> DEFINE RunType == [kind : Kind \cup {"none"},
                       at : {"unused", "calling", "settling", "over"},
                       result : Answers["identity"] \cup Tier \cup {"degraded"}]
<1>00. \A g \in Generation : Out(g) => run[g].kind \in Kind
  BY DEF RunInv
<1>1. ASSUME NEW k \in Kind, PressStart(k) PROVE TypeOK'
  <2>1. StateTypeOK'
    <3>1. MomentTypeOK'
      BY <1>0, <1>1, MomentTypes DEF PressStart, StartProof, StateTypeOK
    <3>2. QED
      BY <1>0, <1>1, <3>1, BoundsAssumption
         DEF PressStart, StartProof, StateTypeOK, Generation, Stopped, Generating, ProofPhase
  <2>2. QED
    BY <1>0, <1>1, <2>1, RenderTypes DEF PressStart, StartProof
<1>2. ASSUME PressContinue PROVE TypeOK'
  <2>1. StateTypeOK'
    BY <1>0, <1>2 DEF PressContinue, StateTypeOK, MomentTypeOK, momentVars, Step, Kind
  <2>2. QED
    BY <1>0, <1>2, <2>1, RenderTypes DEF PressContinue
<1>3. ASSUME StartOver PROVE TypeOK'
  <2>1. MomentTypeOK'
    BY <1>0, <1>3, MomentTypes DEF StartOver, StateTypeOK
  <2>2. StateTypeOK'
    BY <1>0, <1>3, <2>1, BoundsAssumption
       DEF StartOver, StateTypeOK, Generation, Stopped, IdleProof, ProofPhase, Step, Kind
  <2>3. QED
    BY <1>0, <1>3, <2>2, RenderTypes DEF StartOver
<1>4. ASSUME NEW toHelp \in BOOLEAN, Route(toHelp) PROVE TypeOK'
  <2>1. StateTypeOK'
    BY <1>0, <1>4 DEF Route, StateTypeOK, MomentTypeOK, momentVars
  <2>2. HelpView \in Views
    BY TierAssumption, BoundsAssumption DEF HelpView, Views
  <2>3. CASE toHelp
    BY <1>0, <1>4, <2>1, <2>2, <2>3 DEF Route, TypeOK, StateTypeOK
  <2>4. CASE ~toHelp
    BY <1>0, <1>4, <2>1, <2>4, RenderTypes DEF Route
  <2>5. QED
    BY <2>3, <2>4
<1>5. ASSUME NEW g \in Generation, CallReturns(g) PROVE TypeOK'
  <2>1. Answers[run[g].kind] \subseteq Answers["identity"] \cup Tier
    BY <1>00, <1>5 DEF CallReturns, Out, Kind, Answers
  <2>2. PICK r \in Answers[run[g].kind] \cup {"degraded"} :
          run' = [run EXCEPT ![g].at = "settling", ![g].result = r]
    BY <1>5 DEF CallReturns
  <2>3. run[g] \in RunType
    BY <1>0 DEF StateTypeOK
  <2>4. [run[g] EXCEPT !.at = "settling", !.result = r] \in RunType
    BY <2>1, <2>3
  <2>5. run' \in [Generation -> RunType]
    BY <1>0, <2>2, <2>4 DEF StateTypeOK
  <2>6. QED
    BY <1>5, <2>5 DEF CallReturns, TypeOK, MomentTypeOK, momentVars
<1>6. ASSUME NEW g \in Generation, Settle(g) PROVE TypeOK'
  <2>00. run' \in [Generation -> RunType]
    <3>1. run' = [run EXCEPT ![g].at = "over"]
      BY <1>6 DEF Settle
    <3>2. run[g] \in RunType
      BY <1>0 DEF StateTypeOK
    <3>3. [run[g] EXCEPT !.at = "over"] \in RunType
      BY <3>2
    <3>4. QED
      BY <1>0, <3>1, <3>3 DEF StateTypeOK
  <2>0. run[g].kind \in Kind
    BY <1>00, <1>6 DEF Settle, Out
  <2>1. CASE g # generation
    BY <1>6, <2>00, <2>1 DEF Settle, TypeOK, MomentTypeOK, momentVars
  <2>2. CASE g = generation
    <3> DEFINE settled == ToProofState(run[g].kind, run[g].result)
    <3>1. MomentTypeOK'
      BY <1>0, <1>6, <2>0, <2>2, MomentTypes DEF Settle, StateTypeOK
    <3>2. settled \in [phase : ProofPhase, value : Answers["identity"] \cup Tier \cup {NoValue}]
      BY <1>0, <1>6, <2>0, SettledTypes DEF StateTypeOK
    <3>3. proof' = [proof EXCEPT ![run[g].kind] = settled] /\ Render(renderedKey)
      BY <1>6, <2>2 DEF Settle
    <3> HIDE DEF settled
    <3>4. proof' \in [Kind -> [phase : ProofPhase, value : Answers["identity"] \cup Tier \cup {NoValue}]]
      BY <1>0, <2>0, <3>2, <3>3 DEF StateTypeOK
    <3>40. tickHandle' \in Generation /\ ticking' \subseteq Generation
      BY <1>0, <1>6, <2>2, BoundsAssumption DEF Settle, StateTypeOK, Generation, Stopped
    <3>41. StateTypeOK'
      BY <1>0, <1>6, <2>00, <3>1, <3>4, <3>40 DEF Settle, StateTypeOK
    <3>5. QED
      BY <1>0, <3>3, <3>41, RenderTypes
  <2>3. QED
    BY <2>1, <2>2
<1>7. ASSUME NEW g \in Generation, Tick(g) PROVE TypeOK'
  <2>1. StateTypeOK'
    BY <1>0, <1>7 DEF Tick, StateTypeOK, MomentTypeOK, momentVars
  <2>2. QED
    BY <1>0, <1>7, <2>1, RenderTypes DEF Tick
<1>8. ASSUME NEW m \in Moment, CueComes(m) PROVE TypeOK'
  BY <1>8, MomentTypes DEF CueComes, TypeOK, journeyVars
<1>9. ASSUME MomentLeaves PROVE TypeOK'
  BY <1>9, MomentTypes DEF MomentLeaves, TypeOK, journeyVars
<1>10. ASSUME TimePasses PROVE TypeOK'
  BY <1>10, MomentTypes, BoundsAssumption DEF TimePasses, TypeOK
<1>11. ASSUME UNCHANGED vars PROVE TypeOK'
  BY <1>11 DEF vars, momentVars, journeyVars, TypeOK, MomentTypeOK
<1>12. QED
  BY <1>1, <1>2, <1>3, <1>4, <1>5, <1>6, <1>7, <1>8, <1>9, <1>10, <1>11 DEF Next

----------------------------------------------------------------------------
(* Runs, tickers and the steps of the journey.                             *)

LEMMA NothingOut ==
  ASSUME TypeOK, RunInv, \A k \in Kind : step = k => proof[k].phase # "generating"
  PROVE  /\ \A g \in Generation : ~Out(g)
         /\ \A k \in Kind : proof[k].phase # "generating"
         /\ Stopped = {} /\ tickHandle = 0
<1>1. \A k \in Kind : proof[k].phase # "generating"
  BY DEF RunInv
<1>2. \A g \in Generation : ~Out(g)
  BY <1>1 DEF RunInv
<1>3. QED
  BY <1>1, <1>2 DEF RunInv, Stopped, TypeOK

\* A start finds nothing running; it leaves one run, one ticker and one proof
\* that says "generating".
LEMMA StartKeepsRuns ==
  ASSUME TypeOK, RunInv, NEW k \in Kind, PressStart(k) PROVE RunInv'
<1> DEFINE h == generation + 1
           started == [kind |-> k, at |-> "calling", result |-> "degraded"]
<1>1. /\ \A g \in Generation : ~Out(g)
      /\ \A j \in Kind : proof[j].phase # "generating"
      /\ Stopped = {}
  BY NothingOut DEF PressStart
<1>2. h \in Generation /\ h # 0 /\ generation \in Generation
  BY BoundsAssumption DEF PressStart, StartProof, TypeOK, Generation
<1>3. /\ generation' = h /\ tickHandle' = h /\ ticking' = {h} /\ step' = k /\ step = k
      /\ run' = [run EXCEPT ![h] = started]
      /\ proof' = [proof EXCEPT ![k] = Generating]
  BY <1>1 DEF PressStart, StartProof
<1>4. run'[h] = started /\ \A g \in Generation : g # h => run'[g] = run[g]
  BY <1>2, <1>3 DEF TypeOK
<1>5. proof'[k] = Generating /\ \A j \in Kind : j # k => proof'[j] = proof[j]
  BY <1>3 DEF TypeOK
<1>6. \A g \in Generation : Out(g)' <=> g = h
  BY <1>1, <1>4 DEF Out
<1>7. \A g \in Generation : g > h \/ g = 0 => g # h /\ (g > generation \/ g = 0)
  BY <1>2 DEF Generation
<1>8. QED
  BY <1>1, <1>2, <1>3, <1>4, <1>5, <1>6, <1>7 DEF RunInv, Generating, Out

LEMMA SettleKeepsRuns ==
  ASSUME TypeOK, RunInv, NEW g \in Generation, Settle(g) PROVE RunInv'
<1>1. g = generation /\ Out(g) /\ run[g].kind \in Kind
  BY DEF Settle, RunInv, Out
<1>2. /\ run' = [run EXCEPT ![g].at = "over"]
      /\ ticking' = Stopped /\ tickHandle' = 0
      /\ generation' = generation /\ step' = step
      /\ proof' = [proof EXCEPT ![run[g].kind] = ToProofState(run[g].kind, run[g].result)]
  BY <1>1 DEF Settle
<1>3. run'[g].at = "over" /\ \A h \in Generation : h # g => run'[h] = run[h]
  BY <1>2 DEF TypeOK
<1>4. \A h \in Generation : ~Out(h)'
  BY <1>1, <1>3 DEF RunInv, Out
<1>5. \A k \in Kind : proof'[k].phase # "generating"
  <2>1. ToProofState(run[g].kind, run[g].result).phase # "generating"
    BY DEF ToProofState
  <2>2. \A k \in Kind : k # run[g].kind => proof[k].phase # "generating"
    BY <1>1 DEF RunInv
  <2>3. QED
    BY <1>1, <1>2, <2>1, <2>2 DEF TypeOK
<1>6. Stopped = {}
  BY <1>1 DEF RunInv, Stopped
<1>7. \A h \in Generation : h > generation \/ h = 0 => run'[h].at = "unused"
  BY <1>1, <1>3 DEF RunInv, Out
<1>8. generation \in Generation
  BY DEF TypeOK
<1>9. \A h \in Generation : run'[h].at # "settling"
  BY <1>4 DEF Out
<1>10. QED
  BY <1>2, <1>4, <1>5, <1>6, <1>7, <1>8, <1>9 DEF RunInv

LEMMA CallKeepsRuns ==
  ASSUME TypeOK, RunInv, NEW g \in Generation, CallReturns(g) PROVE RunInv'
<1>1. PICK r \in Answers[run[g].kind] \cup {"degraded"} :
        run' = [run EXCEPT ![g].at = "settling", ![g].result = r]
  BY DEF CallReturns
<1>2. /\ run'[g].at = "settling" /\ run'[g].kind = run[g].kind /\ run'[g].result = r
      /\ \A h \in Generation : h # g => run'[h] = run[h]
  BY <1>1 DEF TypeOK
<1>3. Out(g) /\ Out(g)' /\ \A h \in Generation : h # g => (Out(h)' <=> Out(h))
  BY <1>2 DEF CallReturns, Out
<1>4. UNCHANGED <<step, proof, generation, tickHandle, ticking>> /\ generation \in Generation
  BY DEF CallReturns, TypeOK
<1>5. \A h \in Generation : Out(h)' <=> Out(h)
  BY <1>3
<1>6. \A h \in Generation : run'[h].kind = run[h].kind
  BY <1>2
<1>7. \A h \in Generation : h > generation \/ h = 0 => run'[h].at = "unused"
  BY <1>2, <1>3 DEF RunInv, Out
<1>8. \A h \in Generation : run'[h].at = "settling" =>
        run'[h].result \in Answers[run'[h].kind] \cup {"degraded"}
  BY <1>1, <1>2 DEF RunInv
<1>9. QED
  BY <1>4, <1>5, <1>6, <1>7, <1>8 DEF RunInv

LEMMA StartOverKeepsRuns == ASSUME TypeOK, RunInv, StartOver PROVE RunInv'
<1>1. /\ \A g \in Generation : ~Out(g)
      /\ Stopped = {}
  BY NothingOut DEF StartOver, Kind
<1>2. generation + 1 \in Generation /\ generation \in Generation
  BY BoundsAssumption DEF StartOver, TypeOK, Generation
<1>3. /\ \A k \in Kind : proof'[k].phase # "generating"
      /\ run' = run /\ ticking' = {} /\ tickHandle' = 0 /\ generation' = generation + 1
  BY <1>1 DEF StartOver, IdleProof
<1>4. \A g \in Generation : Out(g)' <=> Out(g)
  BY <1>3 DEF Out
<1>5. \A g \in Generation : g > generation + 1 => g > generation
  BY <1>2 DEF Generation
<1>6. QED
  BY <1>1, <1>2, <1>3, <1>4, <1>5 DEF RunInv

LEMMA RunStep == TypeOK /\ RunInv /\ [Next]_vars => RunInv'
<1> SUFFICES ASSUME TypeOK, RunInv, [Next]_vars PROVE RunInv'
  OBVIOUS
<1>1. ASSUME UNCHANGED <<step, proof, generation, run, tickHandle, ticking>> PROVE RunInv'
  BY <1>1 DEF RunInv, Out
<1>2. ASSUME PressContinue PROVE RunInv'
  <2>1. \A g \in Generation : ~Out(g)
    BY <1>2, NothingOut DEF PressContinue, Kind
  <2>2. \A k \in Kind : proof[k].phase # "generating"
    BY <1>2, NothingOut DEF PressContinue, Kind
  <2>3. UNCHANGED <<proof, generation, run, tickHandle, ticking>>
    BY <1>2 DEF PressContinue
  <2>4. QED
    BY <2>1, <2>2, <2>3 DEF RunInv, Out
<1>3. CASE \E k \in Kind : PressStart(k)
  BY <1>3, StartKeepsRuns
<1>4. CASE StartOver
  BY <1>4, StartOverKeepsRuns
<1>5. CASE \E g \in Generation : CallReturns(g) \/ Settle(g)
  BY <1>5, CallKeepsRuns, SettleKeepsRuns
<1>6. QED
  BY <1>1, <1>2, <1>3, <1>4, <1>5
     DEF Next, Route, Tick, CueComes, MomentLeaves, TimePasses, vars, journeyVars

----------------------------------------------------------------------------
(* Values and steps.                                                       *)

\* What settles carries a value exactly when it is an answer that holds.
LEMMA SettledValues ==
  ASSUME NEW k \in Kind, NEW r \in Answers[k] \cup {"degraded"}
  PROVE  LET p == ToProofState(k, r) IN
           IF p.phase = "ready" THEN Holds(k, p.value) /\ p.value \in Answers[k]
           ELSE p.value = NoValue
BY DEF ToProofState

LEMMA ValueStep == TypeOK /\ RunInv /\ ValueInv /\ [Next]_vars => ValueInv'
<1> SUFFICES ASSUME TypeOK, RunInv, ValueInv, [Next]_vars PROVE ValueInv'
  OBVIOUS
<1>1. ASSUME UNCHANGED proof PROVE ValueInv'
  BY <1>1 DEF ValueInv
<1>2. ASSUME NEW k \in Kind, PressStart(k) PROVE ValueInv'
  BY <1>2 DEF PressStart, StartProof, ValueInv, Generating, TypeOK
<1>3. ASSUME StartOver PROVE ValueInv'
  BY <1>3 DEF StartOver, ValueInv, IdleProof
<1>4. ASSUME NEW g \in Generation, Settle(g) PROVE ValueInv'
  <2>1. run[g].kind \in Kind /\ run[g].result \in Answers[run[g].kind] \cup {"degraded"}
    BY <1>4 DEF Settle, RunInv, Out
  <2> DEFINE settled == ToProofState(run[g].kind, run[g].result)
  <2>2. proof' = proof \/ proof' = [proof EXCEPT ![run[g].kind] = settled]
    BY <1>4 DEF Settle
  <2>3. IF settled.phase = "ready"
          THEN Holds(run[g].kind, settled.value) /\ settled.value \in Answers[run[g].kind]
          ELSE settled.value = NoValue
    BY <2>1, SettledValues
  <2> HIDE DEF settled
  <2>4. QED
    BY <2>1, <2>2, <2>3 DEF ValueInv, TypeOK
<1>5. QED
  BY <1>1, <1>2, <1>3, <1>4
     DEF Next, PressContinue, Route, CallReturns, Tick, CueComes, MomentLeaves, TimePasses,
         vars, journeyVars

\* A proof that is ready stays as it is until the journey starts over: the
\* only action on its screen moves on.
LEMMA ReadyIsKept ==
  ASSUME TypeOK, RunInv, NEW k \in Kind, proof[k].phase = "ready", [Next]_vars, ~StartOver
  PROVE  proof'[k] = proof[k]
<1>1. ASSUME NEW j \in Kind, PressStart(j) PROVE proof'[k] = proof[k]
  BY <1>1 DEF PressStart, StartProof, TypeOK
<1>2. ASSUME NEW g \in Generation, Settle(g) PROVE proof'[k] = proof[k]
  <2>1. proof[run[g].kind].phase = "generating"
    BY <1>2 DEF Settle, RunInv, Out
  <2>2. QED
    BY <1>2, <2>1 DEF Settle, TypeOK
<1>3. QED
  BY <1>1, <1>2 DEF Next, PressContinue, Route, CallReturns, Tick, CueComes, MomentLeaves,
                    TimePasses, vars, journeyVars

LEMMA AnsweredStep ==
  TypeOK /\ RunInv /\ ValueInv /\ NoStepUnanswered /\ [Next]_vars => NoStepUnanswered'
<1> SUFFICES ASSUME TypeOK, RunInv, ValueInv, NoStepUnanswered, [Next]_vars
             PROVE  NoStepUnanswered'
  OBVIOUS
<1>1. CASE StartOver
  BY <1>1 DEF StartOver, NoStepUnanswered
<1>2. CASE PressContinue
  <2>1. proof' = proof
    BY <1>2 DEF PressContinue
  <2>2. \A k \in Kind : proof[k].phase = "ready" => Holds(k, proof[k].value)
    BY DEF ValueInv
  <2>3. QED
    BY <1>2, <2>1, <2>2 DEF PressContinue, NoStepUnanswered, Kind, Holds
<1>3. CASE ~StartOver /\ ~PressContinue
  <2>1. step' = step
    BY <1>3 DEF Next, PressStart, StartProof, Route, CallReturns, Settle, Tick, CueComes,
                MomentLeaves, TimePasses, vars, journeyVars
  <2>2. \A k \in Kind : proof[k].phase = "ready" => proof'[k] = proof[k]
    BY <1>3, ReadyIsKept
  <2>3. QED
    BY <2>1, <2>2 DEF NoStepUnanswered, Kind
<1>4. QED
  BY <1>1, <1>2, <1>3

----------------------------------------------------------------------------
(* The screen.                                                             *)

\* A render from the key of the last one leaves the state on the root: where
\* it only patches, the wait is already there.
LEMMA RenderShows ==
  ASSUME ScreenInv, ValueInv, ValueInv', step \in Step, step' \in Step, UNCHANGED showingHelp,
         Render(renderedKey)
  PROVE  ScreenInv'
<1>1. CASE showingHelp
  BY <1>1 DEF ScreenInv, Render
<1>2. CASE ~showingHelp /\ ~(renderedKey = ViewKey' /\ IsWait(ViewKey'))
  BY <1>2 DEF ScreenInv, Render, View
<1>3. CASE ~showingHelp /\ renderedKey = ViewKey' /\ IsWait(ViewKey')
  <2>1. root.key = ViewKey' /\ ViewKey = ViewKey' /\ root.value = ShownValue
    BY <1>3 DEF ScreenInv
  <2>2. root' = [root EXCEPT !.wait = View'.wait] /\ renderedKey' = ViewKey'
    BY <1>3, <2>1 DEF Render, Patched
  <2>3. step \in Kind /\ step' = step
    BY <1>3, <2>1 DEF ViewKey, IsWait
  <2>4. proof[step].phase = "generating" /\ proof'[step].phase = "generating"
    BY <1>3, <2>1, <2>3 DEF ViewKey, IsWait
  <2>5. ShownValue = NoValue /\ ShownValue' = NoValue
    BY <2>3, <2>4 DEF ShownValue, ValueInv, Kind
  <2>6. QED
    BY <1>3, <2>1, <2>2, <2>5 DEF ScreenInv
<1>4. QED
  BY <1>1, <1>2, <1>3

LEMMA ScreenStep ==
  TypeOK /\ TypeOK' /\ ValueInv /\ ValueInv' /\ ScreenInv /\ [Next]_vars => ScreenInv'
<1> SUFFICES ASSUME TypeOK, TypeOK', ValueInv, ValueInv', ScreenInv, [Next]_vars PROVE ScreenInv'
  OBVIOUS
<1>1. step \in Step /\ step' \in Step
  BY DEF TypeOK
<1>2. ASSUME UNCHANGED <<step, proof, renderedKey, showingHelp, root>> PROVE ScreenInv'
  BY <1>2 DEF ScreenInv, ViewKey, ShownValue
<1>3. ASSUME UNCHANGED showingHelp, Render(renderedKey) PROVE ScreenInv'
  BY <1>1, <1>3, RenderShows
<1>4. ASSUME NEW toHelp \in BOOLEAN, Route(toHelp) PROVE ScreenInv'
  <2>1. CASE toHelp
    <3>1. showingHelp' = TRUE /\ root' = HelpView
      BY <1>4, <2>1 DEF Route
    <3>2. HelpView' = HelpView
      BY DEF HelpView
    <3>3. QED
      BY <3>1, <3>2 DEF ScreenInv
  <2>2. CASE ~toHelp /\ ~showingHelp
    <3>1. showingHelp' = FALSE /\ showingHelp = FALSE
      BY <1>4, <2>2 DEF Route, TypeOK
    <3>2. Render(renderedKey)
      BY <1>4, <2>2 DEF Route
    <3>3. QED
      BY <1>3, <3>1, <3>2
  <2>3. CASE ~toHelp /\ showingHelp
    <3>1. ~showingHelp' /\ Render(NoKey)
      BY <1>4, <2>3 DEF Route
    <3>2. ViewKey' # NoKey
      BY <1>1 DEF ViewKey, NoKey, Step, Kind
    <3>3. QED
      BY <3>1, <3>2 DEF Render, ScreenInv, View
  <2>4. QED
    BY <2>1, <2>2, <2>3
<1>5. ASSUME NEW g \in Generation, Settle(g) PROVE ScreenInv'
  <2>1. CASE g # generation
    <3>1. UNCHANGED <<step, proof, renderedKey, showingHelp, root>>
      BY <1>5, <2>1 DEF Settle
    <3>2. QED
      BY <1>2, <3>1
  <2>2. CASE g = generation
    BY <1>3, <1>5, <2>2 DEF Settle
  <2>3. QED
    BY <2>1, <2>2
<1>6. QED
  BY <1>2, <1>3, <1>4, <1>5
     DEF Next, PressStart, StartProof, PressContinue, StartOver, CallReturns, Tick, CueComes,
         MomentLeaves, TimePasses, vars, journeyVars

----------------------------------------------------------------------------
(* The moments.                                                            *)

LEMMA MomentStep ==
  TypeOK /\ RunInv /\ MomentInItsWait /\ [Next]_vars => MomentInItsWait'
<1> SUFFICES ASSUME TypeOK, RunInv, MomentInItsWait, [Next]_vars PROVE MomentInItsWait'
  OBVIOUS
<1>0. /\ \A m \in Moment : MomentCues[m].wait \in Kind /\ MomentCues[m].phase \in {"processing", "settled"}
      /\ Moment \subseteq Timer /\ NoMoment \notin Moment
      /\ "visible" \notin Moment /\ "remove" \notin Moment
  BY DEF Moment, MomentCues, Kind, Timer, NoMoment
<1>1. ASSUME UNCHANGED <<proof, timer, popover, leaving>> PROVE MomentInItsWait'
  BY <1>1 DEF MomentInItsWait, InItsWait
<1>2. ASSUME NEW k \in Kind, PressStart(k) PROVE MomentInItsWait'
  <2>1. proof[k].phase \notin {"ready", "generating"} /\ proof' = [proof EXCEPT ![k] = Generating]
        /\ UNCHANGED <<popover, leaving>> /\ timer' = Rearmed(CuesFor(k, "processing"))
    BY <1>2 DEF PressStart, StartProof, StartWait
  <2>2. proof'[k].phase = "generating" /\ \A j \in Kind : j # k => proof'[j] = proof[j]
    BY <2>1 DEF TypeOK, Generating
  <2>3. \A m \in Moment : InItsWait(m) => InItsWait(m)'
    BY <1>0, <2>1, <2>2 DEF InItsWait
  <2>4. \A m \in Moment : timer'[m] # Off => m \in CuesFor(k, "processing")
    BY <1>0, <2>1 DEF Rearmed
  <2>5. \A m \in CuesFor(k, "processing") : InItsWait(m)'
    BY <2>2 DEF InItsWait, CuesFor
  <2>6. QED
    BY <2>1, <2>3, <2>4, <2>5 DEF MomentInItsWait, TypeOK, MomentTypeOK
<1>3. ASSUME NEW g \in Generation, Settle(g) PROVE MomentInItsWait'
  <2> DEFINE k == run[g].kind
             settled == ToProofState(k, run[g].result)
             outcome == IF settled.phase = "ready" THEN "ready" ELSE "unanswered"
             cues == IF outcome = "ready" THEN CuesFor(k, "settled") ELSE {}
  <2>1. g = generation /\ k \in Kind
    BY <1>3 DEF Settle, RunInv, Out
  <2>2. proof' = [proof EXCEPT ![k] = settled] /\ EndWait(k, outcome)
    BY <1>3, <2>1 DEF Settle
  <2>3. proof'[k] = settled
    BY <2>1, <2>2 DEF TypeOK
  <2> HIDE DEF settled
  <2>4. cues \subseteq Moment /\ \A m \in cues : InItsWait(m)'
    BY <2>3 DEF CuesFor, InItsWait
  <2> HIDE DEF cues, outcome, k
  <2>5. timer' = [Rearmed(cues) EXCEPT !["visible"] = Off,
                                       !["remove"] = IF popover = NoMoment THEN Off ELSE LeaveFor]
        /\ leaving' = (popover # NoMoment) /\ popover' = popover
    BY <2>2 DEF EndWait, cues
  <2>6. \A m \in Moment : timer'[m] # Off => m \in cues
    BY <1>0, <2>4, <2>5 DEF Rearmed
  <2>7. popover' # NoMoment => leaving'
    BY <2>5
  <2>8. QED
    BY <2>4, <2>6, <2>7 DEF MomentInItsWait
<1>4. ASSUME StartOver PROVE MomentInItsWait'
  BY <1>0, <1>4 DEF StartOver, ResetMoments, MomentInItsWait
<1>5. ASSUME NEW m \in Moment, CueComes(m) PROVE MomentInItsWait'
  <2>1. InItsWait(m) /\ proof' = proof
    BY <1>5 DEF CueComes, PlayCue, Due, Off, MomentInItsWait, journeyVars
  <2>2. \A n \in Moment : timer'[n] # Off => timer[n] # Off
    BY <1>0, <1>5 DEF CueComes, PlayCue, TypeOK, MomentTypeOK
  <2>3. popover' # NoMoment /\ ~leaving' =>
          popover' = m \/ (popover' = popover /\ ~leaving)
    BY <1>5 DEF CueComes, PlayCue, TypeOK, MomentTypeOK
  <2>4. QED
    BY <2>1, <2>2, <2>3 DEF MomentInItsWait, InItsWait
<1>6. ASSUME MomentLeaves PROVE MomentInItsWait'
  <2>1. \A m \in Moment : timer'[m] = timer[m]
    BY <1>0, <1>6 DEF MomentLeaves, Dismiss, Remove, TypeOK, MomentTypeOK
  <2>2. popover' = NoMoment \/ leaving'
    BY <1>6 DEF MomentLeaves, Dismiss, Remove
  <2>3. QED
    BY <1>6, <2>1, <2>2 DEF MomentLeaves, MomentInItsWait, InItsWait, journeyVars
<1>7. ASSUME TimePasses PROVE MomentInItsWait'
  BY <1>0, <1>7 DEF TimePasses, TimersAdvance, MomentInItsWait, InItsWait
<1>8. QED
  BY <1>1, <1>2, <1>3, <1>4, <1>5, <1>6, <1>7
     DEF Next, PressContinue, Route, CallReturns, Tick, vars, momentVars, journeyVars

----------------------------------------------------------------------------
LEMMA JourneyInvariant == Safety => []JourneyInv
<1>1. Init => JourneyInv
  <2> SUFFICES ASSUME Init PROVE JourneyInv
    OBVIOUS
  <2>1. TypeOK
    BY InitTypes
  <2>2. RunInv
    BY BoundsAssumption DEF Init, RunInv, Out, NotRun, IdleProof, Generation
  <2>3. ValueInv
    BY DEF Init, ValueInv, IdleProof
  <2>4. ScreenInv
    BY DEF Init, ScreenInv, View
  <2>5. NoStepUnanswered
    BY DEF Init, NoStepUnanswered
  <2>6. MomentInItsWait
    BY DEF Init, MomentInit, MomentInItsWait, Moment, Timer
  <2>7. QED
    BY <2>1, <2>2, <2>3, <2>4, <2>5, <2>6 DEF JourneyInv
<1>2. JourneyInv /\ [Next]_vars => JourneyInv'
  BY StepTypes, RunStep, ValueStep, AnsweredStep, ScreenStep, MomentStep DEF JourneyInv
<1>3. QED
  BY <1>1, <1>2, PTL DEF Safety

\* The journey's variables keep their types.
THEOREM JourneyTypes == Safety => []TypeOK
<1>1. JourneyInv => TypeOK
  BY DEF JourneyInv
<1>2. QED
  BY <1>1, JourneyInvariant, PTL

\* No screen is reached past a check that nobody answered, or answered "no"
\* (the CTA handler, app.ts 234-260).
THEOREM StepsAreAnswered == Safety => []NoStepUnanswered
<1>1. JourneyInv => NoStepUnanswered
  BY DEF JourneyInv
<1>2. QED
  BY <1>1, JourneyInvariant, PTL

\* At most one proof is out, its screen says so, and one interval draws it
\* (startProof and stopTicking in app.ts).
THEOREM RunsAndTickersAgree == Safety => []OneRunOneTicker
<1>1. JourneyInv => OneRunOneTicker
  BY DEF JourneyInv, RunInv, Out, OneRunOneTicker
<1>2. QED
  BY <1>1, JourneyInvariant, PTL

\* Whatever she opens and whenever the answer lands, the root shows the state
\* (render and route in app.ts).
THEOREM TheScreenIsTrue == Safety => []ScreenShowsState
<1>1. JourneyInv => ScreenShowsState
  BY DEF JourneyInv, ScreenInv, ScreenShowsState
<1>2. QED
  BY <1>1, JourneyInvariant, PTL

\* For any cadence, a moment on screen or armed belongs to the wait it speaks
\* of (momentView.ts).
THEOREM MomentsKeepToTheirWait == Safety => []MomentInItsWait
<1>1. JourneyInv => MomentInItsWait
  BY DEF JourneyInv
<1>2. QED
  BY <1>1, JourneyInvariant, PTL

----------------------------------------------------------------------------
(* Each proof implements ProofLife.                                        *)

LEMMA LifeInit ==
  Init => Identity!Init /\ Backing!Init
BY DEF Init, Identity!Init, Backing!Init, IdleProof, NoValue, Identity!NoValue, Backing!NoValue, Kind

\* What a step does to one proof: it starts it, settles it, forgets it with
\* the journey, or leaves it alone.
LEMMA LifeOfOneProof ==
  ASSUME JourneyInv, ValueInv', [Next]_vars, NEW k \in Kind
  PROVE  \/ /\ proof[k].phase \in {"idle", "failed", "degraded"}
            /\ proof'[k] = Generating
         \/ /\ proof[k].phase = "generating"
            /\ \/ proof'[k].phase = "ready" /\ proof'[k].value \in {v \in Answers[k] : Holds(k, v)}
               \/ proof'[k].phase \in {"failed", "degraded"} /\ proof'[k].value = NoValue
         \/ proof[k].phase = "ready" /\ proof'[k] = IdleProof
         \/ proof'[k] = proof[k]
<1> USE DEF JourneyInv
<1>1. CASE PressStart(k)
  BY <1>1 DEF PressStart, StartProof, TypeOK, ProofPhase
<1>2. ASSUME NEW j \in Kind, j # k, PressStart(j) PROVE proof'[k] = proof[k]
  BY <1>2 DEF PressStart, StartProof, TypeOK
<1>3. CASE StartOver
  BY <1>3 DEF StartOver, NoStepUnanswered, Kind
<1>4. ASSUME NEW g \in Generation, Settle(g)
      PROVE  \/ /\ proof[k].phase = "generating"
                /\ proof'[k].phase \in {"ready", "failed", "degraded"}
             \/ proof'[k] = proof[k]
  <2>1. proof[run[g].kind].phase = "generating" /\ run[g].kind \in Kind
    BY <1>4 DEF Settle, RunInv, Out
  <2>2. ToProofState(run[g].kind, run[g].result).phase \in {"ready", "failed", "degraded"}
    BY DEF ToProofState
  <2>3. \/ proof' = proof
        \/ proof' = [proof EXCEPT ![run[g].kind] = ToProofState(run[g].kind, run[g].result)]
    BY <1>4 DEF Settle
  <2>4. QED
    BY <2>1, <2>2, <2>3 DEF TypeOK
<1>5. /\ proof'[k].phase = "ready" =>
           proof'[k].value \in {v \in Answers[k] : Holds(k, v)}
      /\ proof'[k].phase # "ready" => proof'[k].value = NoValue
  BY DEF ValueInv
<1>6. QED
  BY <1>1, <1>2, <1>3, <1>4, <1>5
     DEF Next, PressContinue, Route, CallReturns, Tick, CueComes, MomentLeaves, TimePasses,
         vars, journeyVars

\* Each proof's screen lives as ProofLife says: what was asked settles, and
\* only an answer that holds is ever shown as one (proofRun.ts, proofState.ts).
THEOREM JourneyImplementsProofLife == Safety => Identity!Safety /\ Backing!Safety
<1>1. JourneyInv /\ ValueInv' /\ [Next]_vars =>
        [Identity!Next]_<<proof["identity"].phase, proof["identity"].value>>
  BY LifeOfOneProof
     DEF Kind, Generating, IdleProof, NoValue, Holds, Identity!Next, Identity!Start,
         Identity!Settle, Identity!StartOver, Identity!NoValue
<1>2. JourneyInv /\ ValueInv' /\ [Next]_vars =>
        [Backing!Next]_<<proof["backing"].phase, proof["backing"].value>>
  BY LifeOfOneProof
     DEF Kind, Generating, IdleProof, NoValue, Holds, Backing!Next, Backing!Start,
         Backing!Settle, Backing!StartOver, Backing!NoValue
<1>3. JourneyInv => ValueInv
  BY DEF JourneyInv
<1>4. QED
  BY <1>1, <1>2, <1>3, LifeInit, JourneyInvariant, PTL DEF Safety, Identity!Safety, Backing!Safety

----------------------------------------------------------------------------
(* Whose answer a settled proof shows.                                     *)

\* The runs of a journey come after its beginning, the one that is out too.
OwnInv ==
  /\ begun <= generation
  /\ \A k \in Kind : proof[k].phase = "generating" => begun < generation
  /\ AnswerIsOwn

\* A settled proof keeps its answer while its runs and the answer of the last
\* of them are the same.
LEMMA OwnIsKept ==
  ASSUME TypeOK, TypeOK', OwnInv, NEW k \in Kind, begun' = begun, generation' >= generation,
         proof'[k] = proof[k], proof[k].phase \in {"ready", "failed", "degraded"},
         \A g \in (begun + 1)..generation :
            run'[g].kind = run[g].kind /\ (run[g].at = "over" => run'[g] = run[g]),
         \A g \in (generation + 1)..generation' : run'[g].kind # k
  PROVE  \E g \in RunsOf(k)' :
           /\ \A h \in RunsOf(k)' : h <= g
           /\ run'[g].at = "over"
           /\ proof'[k] = ToProofState(k, run'[g].result)
<1>1. PICK g \in RunsOf(k) :
        (\A h \in RunsOf(k) : h <= g) /\ run[g].at = "over" /\ proof[k] = ToProofState(k, run[g].result)
  BY DEF OwnInv, AnswerIsOwn
<1>2. begun \in Nat /\ generation \in Nat /\ generation' \in Nat
  BY BoundsAssumption DEF TypeOK, Generation
<1>3. RunsOf(k)' = RunsOf(k)
  BY <1>2 DEF RunsOf
<1>4. run'[g] = run[g]
  BY <1>1 DEF RunsOf
<1> QED BY <1>1, <1>3, <1>4

LEMMA OwnStep == JourneyInv /\ TypeOK' /\ OwnInv /\ [Next]_vars => OwnInv'
<1> SUFFICES ASSUME JourneyInv, TypeOK', OwnInv, [Next]_vars PROVE OwnInv'
  OBVIOUS
<1> DEFINE Shown(k) == proof'[k].phase \in {"ready", "failed", "degraded"} =>
                        \E g \in RunsOf(k)' :
                          /\ \A h \in RunsOf(k)' : h <= g
                          /\ run'[g].at = "over"
                          /\ proof'[k] = ToProofState(k, run'[g].result)
<1>t. /\ TypeOK /\ RunInv
      /\ begun \in Nat /\ generation \in Nat /\ begun' \in Nat /\ generation' \in Nat
      /\ generation \in Generation /\ generation' \in Generation
  BY BoundsAssumption DEF JourneyInv, TypeOK, Generation
<1>g. \A g \in (begun + 1)..generation : g \in Generation
  BY <1>t, BoundsAssumption DEF Generation
<1>1. ASSUME NEW kind \in Kind, PressStart(kind) PROVE OwnInv'
  <2>1. /\ generation' = generation + 1 /\ begun' = begun
        /\ proof' = [proof EXCEPT ![kind] = Generating]
        /\ run' = [run EXCEPT ![generation + 1] = [kind |-> kind, at |-> "calling", result |-> "degraded"]]
    BY <1>1 DEF PressStart, StartProof
  <2>2. begun' <= generation' /\ begun' < generation'
    BY <1>t, <2>1 DEF OwnInv
  <2>3. ASSUME NEW k \in Kind PROVE Shown(k)
    <3>1. CASE k = kind
      <4>1. proof'[k].phase = "generating"
        BY <1>t, <2>1, <3>1 DEF TypeOK, Generating
      <4> QED BY <4>1
    <3>2. CASE k # kind
      <4>1. proof'[k] = proof[k]
        BY <1>t, <2>1, <3>2 DEF TypeOK
      <4>2. \A g \in (begun + 1)..generation : run'[g] = run[g]
        BY <1>t, <1>g, <2>1 DEF TypeOK
      <4>3. \A g \in (generation + 1)..generation' : g = generation + 1 /\ run'[g].kind # k
        BY <1>t, <2>1, <3>2 DEF TypeOK
      <4> QED BY <1>t, <2>1, <4>1, <4>2, <4>3, OwnIsKept
    <3> QED BY <3>1, <3>2
  <2> QED BY <2>2, <2>3 DEF OwnInv, AnswerIsOwn
<1>2. ASSUME StartOver PROVE OwnInv'
  BY <1>2, <1>t DEF StartOver, OwnInv, AnswerIsOwn, IdleProof
<1>3. ASSUME NEW g \in Generation, CallReturns(g) PROVE OwnInv'
  <2>1. /\ UNCHANGED <<proof, generation, begun>> /\ run[g].at = "calling"
        /\ \E r : run' = [run EXCEPT ![g].at = "settling", ![g].result = r]
    BY <1>3 DEF CallReturns
  <2>2. \A h \in (begun + 1)..generation : run'[h].kind = run[h].kind /\ (run[h].at = "over" => run'[h] = run[h])
    BY <1>t, <1>g, <2>1 DEF TypeOK
  <2>3. \A h \in (generation + 1)..generation' : FALSE
    BY <1>t, <2>1
  <2>4. ASSUME NEW k \in Kind PROVE Shown(k)
    <3>1. proof'[k] = proof[k] /\ begun' = begun /\ generation' = generation
      BY <2>1
    <3> QED BY <1>t, <2>2, <2>3, <3>1, OwnIsKept
  <2> QED BY <1>t, <2>1, <2>4 DEF OwnInv, AnswerIsOwn
<1>4. ASSUME NEW g \in Generation, Settle(g) PROVE OwnInv'
  <2>1. /\ run[g].at = "settling" /\ g = generation /\ run[g].kind \in Kind
        /\ proof[run[g].kind].phase = "generating" /\ begun < generation
    BY <1>t, <1>4 DEF Settle, RunInv, Out, OwnInv
  <2>2. /\ UNCHANGED <<generation, begun>> /\ run' = [run EXCEPT ![g].at = "over"]
        /\ proof' = [proof EXCEPT ![run[g].kind] = ToProofState(run[g].kind, run[g].result)]
    BY <1>4, <2>1 DEF Settle
  <2>3. /\ run'[g].at = "over" /\ run'[g].kind = run[g].kind /\ run'[g].result = run[g].result
        /\ \A h \in Generation : h # g => run'[h] = run[h]
    BY <1>t, <2>2 DEF TypeOK
  <2>4. ASSUME NEW k \in Kind PROVE Shown(k)
    <3>1. CASE k = run[g].kind
      <4>1. g \in RunsOf(k)' /\ \A h \in RunsOf(k)' : h <= g
        BY <1>t, <2>1, <2>2, <2>3, <3>1 DEF RunsOf
      <4>2. proof'[k] = ToProofState(k, run'[g].result)
        BY <1>t, <2>2, <2>3, <3>1 DEF TypeOK
      <4> QED BY <2>3, <4>1, <4>2
    <3>2. CASE k # run[g].kind
      <4>1. proof'[k] = proof[k]
        BY <1>t, <2>1, <2>2, <3>2 DEF TypeOK
      <4>2. \A h \in (begun + 1)..generation :
              run'[h].kind = run[h].kind /\ (run[h].at = "over" => run'[h] = run[h])
        BY <1>g, <2>1, <2>3
      <4>3. \A h \in (generation + 1)..generation' : FALSE
        BY <1>t, <2>2
      <4> QED BY <1>t, <2>2, <4>1, <4>2, <4>3, OwnIsKept
    <3> QED BY <3>1, <3>2
  <2> QED BY <1>t, <2>1, <2>2, <2>4 DEF OwnInv, AnswerIsOwn
<1>5. CASE UNCHANGED <<proof, generation, run, begun>>
  BY <1>5 DEF OwnInv, AnswerIsOwn, RunsOf
<1> QED
  BY <1>1, <1>2, <1>3, <1>4, <1>5
     DEF Next, PressContinue, Route, Tick, CueComes, MomentLeaves, TimePasses, vars, journeyVars

\* The outcome a settled screen shows is that of the last run this journey
\* made for it, whatever was started, retried or started over before: the
\* guard on the generation in startProof.
THEOREM AnswersAreOwn == Safety => []AnswerIsOwn
<1>1. Init => OwnInv
  BY BoundsAssumption DEF Init, OwnInv, AnswerIsOwn, IdleProof, Generation
<1>2. JourneyInv /\ JourneyInv' /\ OwnInv /\ [Next]_vars => OwnInv'
  BY OwnStep DEF JourneyInv
<1>3. OwnInv => AnswerIsOwn
  BY DEF OwnInv
<1> QED BY <1>1, <1>2, <1>3, JourneyInvariant, PTL DEF Safety
=============================================================================
