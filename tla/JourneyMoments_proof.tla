------------------------ MODULE JourneyMoments_proof ------------------------
(***************************************************************************)
(* Why two moments never share the screen: the cadence leaves each one the *)
(* time to go before the next may come, whatever she does and whenever the *)
(* answers land.                                                           *)
(***************************************************************************)
EXTENDS Journey_proof

\* How long the moment on screen still takes to go.
TimeToGo == IF leaving THEN timer["remove"] ELSE timer["visible"] + LeaveFor

LifeInv ==
  IF popover = NoMoment
    THEN ~leaving /\ timer["visible"] = Off /\ timer["remove"] = Off
    ELSE IF leaving THEN timer["remove"] \in 0..LeaveFor /\ timer["visible"] = Off
                    ELSE timer["visible"] \in 0..VisibleFor /\ timer["remove"] = Off

\* A cue that may still play comes after the moment on screen has gone.
GapInv ==
  \A m \in Moment \ played :
    timer[m] # Off /\ popover # NoMoment => TimeToGo < timer[m]

\* The two cues of the identity wait were armed together.
PaceInv ==
  timer["discovery"] # Off /\ timer["encouragement"] # Off =>
    timer["encouragement"] = timer["discovery"] + (SecondCue - FirstCue)

\* Nothing of the backing step is known before it.
FreshInv == step = "identity" => proof["backing"] = IdleProof

CadenceInv == LifeInv /\ GapInv /\ PaceInv /\ FreshInv

LEMMA Distinct ==
  /\ Moment \subseteq Timer /\ {"visible", "remove"} \subseteq Timer
  /\ "visible" \notin Moment /\ "remove" \notin Moment /\ NoMoment \notin Moment
BY DEF Moment, Timer, NoMoment

LEMMA Delays ==
  /\ FirstCue \in Nat /\ SecondCue \in Nat /\ ClosingCue \in Nat
  /\ VisibleFor \in Nat /\ LeaveFor \in Nat
BY Cadence

\* A proof that runs is that of the step she is on, so cues of two waits are
\* never armed together.
LEMMA OneWaitArmed ==
  ASSUME JourneyInv, FreshInv, NEW m \in Moment, NEW n \in Moment, m # n,
         timer[m] # Off, timer[n] # Off
  PROVE  {m, n} = {"discovery", "encouragement"}
<1>1. InItsWait(m) /\ InItsWait(n)
  BY DEF JourneyInv, MomentInItsWait
<1>2. \A k \in Kind : proof[k].phase = "generating" => step = k
  BY DEF JourneyInv, RunInv
<1>3. QED
  BY <1>1, <1>2 DEF InItsWait, MomentCues, Moment, Kind, FreshInv, IdleProof

\* A moment that is still wanted when a wait begins would belong to it.
LEMMA NoMomentBeforeItsWait ==
  ASSUME JourneyInv, FreshInv, NEW k \in Kind, PressStart(k), popover # NoMoment
  PROVE  leaving
<1> SUFFICES ASSUME ~leaving PROVE FALSE
  OBVIOUS
<1>1. InItsWait(popover) /\ popover \in Moment
  BY DEF JourneyInv, MomentInItsWait, TypeOK, MomentTypeOK
<1>2. step = k /\ proof[k].phase \notin {"ready", "generating"}
  BY DEF PressStart
<1>3. \A j \in Kind : proof[j].phase = "generating" => step = j
  BY DEF JourneyInv, RunInv
<1>4. QED
  BY <1>1, <1>2, <1>3 DEF InItsWait, MomentCues, Moment, Kind, FreshInv, IdleProof

LEMMA StartKeepsCadence ==
  ASSUME JourneyInv, CadenceInv, NEW k \in Kind, PressStart(k) PROVE CadenceInv'
<1>1. /\ UNCHANGED <<popover, leaving, played, step>> /\ step = k
      /\ timer' = Rearmed(CuesFor(k, "processing"))
      /\ proof' = [proof EXCEPT ![k] = Generating]
  BY DEF PressStart, StartProof, StartWait
<1>2. /\ timer'["visible"] = timer["visible"] /\ timer'["remove"] = timer["remove"]
      /\ \A m \in Moment : timer'[m] =
           IF m \in CuesFor(k, "processing") THEN MomentCues[m].after ELSE Off
  BY <1>1, Distinct DEF Rearmed, CuesFor
<1>3. LifeInv'
  BY <1>1, <1>2 DEF CadenceInv, LifeInv
<1>4. GapInv'
  <2> SUFFICES ASSUME NEW m \in Moment, timer'[m] # Off, popover # NoMoment
               PROVE  TimeToGo' < timer'[m]
    BY <1>1 DEF GapInv
  <2>1. leaving
    BY NoMomentBeforeItsWait DEF CadenceInv
  <2>2. TimeToGo' \in 0..LeaveFor
    BY <1>1, <1>2, <2>1 DEF CadenceInv, LifeInv, TimeToGo
  <2>3. timer'[m] \in {FirstCue, SecondCue}
    BY <1>2 DEF CuesFor, MomentCues, Moment
  <2>4. QED
    BY <2>2, <2>3, Cadence, Delays
<1>5. PaceInv'
  BY <1>2, Delays DEF PaceInv, CuesFor, MomentCues, Moment
<1>6. FreshInv'
  BY <1>1 DEF CadenceInv, FreshInv, JourneyInv, TypeOK, Kind
<1>7. QED
  BY <1>3, <1>4, <1>5, <1>6 DEF CadenceInv

LEMMA SettleKeepsCadence ==
  ASSUME JourneyInv, CadenceInv, NEW g \in Generation, Settle(g) PROVE CadenceInv'
<1> DEFINE k == run[g].kind
           settled == ToProofState(k, run[g].result)
           cues == IF settled.phase = "ready" THEN CuesFor(k, "settled") ELSE {}
<1>1. g = generation /\ k \in Kind /\ proof[k].phase = "generating" /\ step = k
  BY DEF Settle, JourneyInv, RunInv, Out
<1>2. /\ proof' = [proof EXCEPT ![k] = settled] /\ step' = step
      /\ EndWait(k, IF settled.phase = "ready" THEN "ready" ELSE "unanswered")
  BY <1>1 DEF Settle
<1> HIDE DEF settled, k
<1>3. /\ timer' = [Rearmed(cues) EXCEPT !["visible"] = Off,
                                        !["remove"] = IF popover = NoMoment THEN Off ELSE LeaveFor]
      /\ leaving' = (popover # NoMoment) /\ UNCHANGED <<popover, played>>
  BY <1>2 DEF EndWait
<1>4. cues \subseteq {"celebration"}
  BY DEF CuesFor, MomentCues, Moment
<1> HIDE DEF cues
<1>5. /\ timer'["visible"] = Off
      /\ timer'["remove"] = IF popover = NoMoment THEN Off ELSE LeaveFor
      /\ \A m \in Moment : timer'[m] = IF m \in cues THEN MomentCues[m].after ELSE Off
  BY <1>3, <1>4, Distinct DEF Rearmed
<1>6. popover' = popover /\ (popover = NoMoment => ~leaving') /\ (popover # NoMoment => leaving')
  BY <1>3
<1>7. LifeInv'
  BY <1>5, <1>6, Delays DEF LifeInv
<1>8. GapInv'
  <2> SUFFICES ASSUME NEW m \in Moment, timer'[m] # Off, popover # NoMoment
               PROVE  TimeToGo' < timer'[m]
    BY <1>6 DEF GapInv
  <2>1. TimeToGo' = LeaveFor
    BY <1>5, <1>6 DEF TimeToGo
  <2>2. timer'[m] = ClosingCue
    BY <1>4, <1>5 DEF MomentCues
  <2>3. QED
    BY <2>1, <2>2, Cadence
<1>9. PaceInv'
  BY <1>4, <1>5 DEF PaceInv, Moment
<1>10. FreshInv'
  BY <1>1, <1>2 DEF CadenceInv, FreshInv, JourneyInv, TypeOK, Kind
<1>11. QED
  BY <1>7, <1>8, <1>9, <1>10 DEF CadenceInv

LEMMA StripAlways == JourneyInv => HasTopbar
<1> SUFFICES ASSUME JourneyInv PROVE root.key # NoKey
  BY DEF HasTopbar, BlankView
<1>1. CASE showingHelp
  BY <1>1 DEF JourneyInv, ScreenInv, HelpView, NoKey
<1>2. CASE ~showingHelp
  BY <1>2 DEF JourneyInv, ScreenInv, ViewKey, NoKey, TypeOK, Step, Kind
<1>3. QED
  BY <1>1, <1>2

\* When a cue that may play is due, the screen is free.
LEMMA ScreenIsFree ==
  ASSUME JourneyInv, CadenceInv, NEW m \in Moment \ played, Due(m) PROVE popover = NoMoment
<1> SUFFICES ASSUME popover # NoMoment PROVE FALSE
  OBVIOUS
<1>1. TimeToGo < 0
  BY DEF CadenceInv, GapInv, Due, Off
<1>2. TimeToGo \in Nat
  BY Delays DEF CadenceInv, LifeInv, TimeToGo
<1>3. QED
  BY <1>1, <1>2

LEMMA CueKeepsCadence ==
  ASSUME JourneyInv, CadenceInv, NEW m \in Moment, CueComes(m) PROVE CadenceInv'
<1>1. PlayCue(m, TRUE) /\ UNCHANGED <<step, proof>> /\ timer \in [Timer -> Nat \cup {Off}]
  BY StripAlways DEF CueComes, PlayCue, journeyVars, JourneyInv, TypeOK, MomentTypeOK
<1>2. timer'[m] = Off /\ timer[m] = 0
  BY <1>1, Distinct DEF PlayCue, Due
<1>3. PaceInv'
  <2>1. \A n \in Moment : n # m => timer'[n] = timer[n]
    BY <1>1, Distinct DEF PlayCue
  <2>2. QED
    BY <1>2, <2>1 DEF CadenceInv, PaceInv, Moment
<1>4. FreshInv'
  BY <1>1 DEF CadenceInv, FreshInv
<1>5. CASE m \in played
  <2>1. /\ timer' = [timer EXCEPT ![m] = Off]
        /\ UNCHANGED <<popover, leaving, played>>
    BY <1>1, <1>5 DEF PlayCue
  <2>2. timer'["visible"] = timer["visible"] /\ timer'["remove"] = timer["remove"]
    BY <2>1, <1>1, Distinct
  <2>3. LifeInv' /\ TimeToGo' = TimeToGo
    BY <2>1, <2>2 DEF CadenceInv, LifeInv, TimeToGo
  <2>4. \A n \in Moment : timer'[n] # Off => timer'[n] = timer[n]
    BY <2>1, <1>1, Distinct
  <2>5. GapInv'
    BY <2>1, <2>3, <2>4 DEF CadenceInv, GapInv
  <2>6. QED
    BY <1>3, <1>4, <2>3, <2>5 DEF CadenceInv
<1>6. CASE m \notin played
  <2>1. popover = NoMoment
    BY <1>1, <1>6, ScreenIsFree DEF PlayCue
  <2>2. /\ played' = played \cup {m} /\ popover' = m /\ ~leaving'
        /\ timer' = [timer EXCEPT ![m] = Off, !["remove"] = Off, !["visible"] = VisibleFor]
    BY <1>1, <1>6 DEF PlayCue
  <2>3. timer'["visible"] = VisibleFor /\ timer'["remove"] = Off
        /\ \A n \in Moment : n # m => timer'[n] = timer[n]
    BY <1>1, <2>2, Distinct
  <2>4. LifeInv'
    BY <2>2, <2>3, Delays, Distinct DEF LifeInv
  <2>5. GapInv'
    <3> SUFFICES ASSUME NEW n \in Moment, n # m, timer[n] # Off
                 PROVE  VisibleFor + LeaveFor < timer[n]
      BY <1>2, <2>2, <2>3 DEF GapInv, TimeToGo
    <3>1. {m, n} = {"discovery", "encouragement"}
      BY <1>2, OneWaitArmed DEF CadenceInv, Off
    <3>2. timer["encouragement"] = timer["discovery"] + (SecondCue - FirstCue)
      BY <1>2, <3>1 DEF CadenceInv, PaceInv, Off
    <3>3. timer["discovery"] \in Nat /\ timer["encouragement"] \in Nat
      BY <1>1, <1>2, <3>1, Distinct DEF Off
    <3>4. SecondCue - FirstCue > VisibleFor + LeaveFor
      BY Cadence, Delays
    <3>5. m = "discovery" /\ n = "encouragement"
      <4>1. timer["encouragement"] # 0
        BY <3>2, <3>3, <3>4, Delays
      <4>2. m # "encouragement"
        BY <1>2, <4>1
      <4>3. QED
        BY <3>1, <4>2
    <3>6. QED
      BY <1>2, <3>2, <3>4, <3>5, Delays
  <2>6. QED
    BY <1>3, <1>4, <2>4, <2>5 DEF CadenceInv
<1>7. QED
  BY <1>5, <1>6

LEMMA LeavingKeepsCadence == ASSUME JourneyInv, CadenceInv, MomentLeaves PROVE CadenceInv'
<1>1. timer \in [Timer -> Nat \cup {Off}] /\ UNCHANGED <<step, proof, played>>
  BY DEF MomentLeaves, Dismiss, Remove, journeyVars, JourneyInv, TypeOK, MomentTypeOK
<1>2. \A m \in Moment : timer'[m] = timer[m]
  BY <1>1, Distinct DEF MomentLeaves, Dismiss, Remove
<1>3. PaceInv' /\ FreshInv'
  BY <1>1, <1>2 DEF CadenceInv, PaceInv, FreshInv, Moment
<1>4. CASE Dismiss
  <2>1. popover # NoMoment /\ ~leaving /\ timer["visible"] = 0
    BY <1>4 DEF Dismiss, Due, CadenceInv, LifeInv, Off
  <2>2. /\ popover' = popover /\ leaving'
        /\ timer'["visible"] = Off /\ timer'["remove"] = LeaveFor
    BY <1>1, <1>4, Distinct DEF Dismiss
  <2>3. LifeInv' /\ TimeToGo' = TimeToGo
    BY <2>1, <2>2, Delays DEF LifeInv, TimeToGo
  <2>4. GapInv'
    BY <1>1, <1>2, <2>1, <2>3 DEF CadenceInv, GapInv
  <2>5. QED
    BY <1>3, <2>3, <2>4 DEF CadenceInv
<1>5. CASE Remove
  <2>1. timer["remove"] # Off /\ popover' = NoMoment /\ ~leaving' /\ timer'["remove"] = Off
    BY <1>1, <1>5, Distinct DEF Remove, Due, Off
  <2>2. timer'["visible"] = Off
    BY <1>1, <1>5, <2>1, Distinct DEF Remove, CadenceInv, LifeInv
  <2>3. LifeInv' /\ GapInv'
    BY <2>1, <2>2 DEF LifeInv, GapInv
  <2>4. QED
    BY <1>3, <2>3 DEF CadenceInv
<1>6. QED
  BY <1>4, <1>5 DEF MomentLeaves

LEMMA TimeKeepsCadence == ASSUME JourneyInv, CadenceInv, TimePasses PROVE CadenceInv'
<1>1. /\ timer \in [Timer -> Nat \cup {Off}] /\ \A t \in Timer : timer[t] # 0
      /\ timer' = [t \in Timer |-> IF timer[t] = Off THEN Off ELSE timer[t] - 1]
      /\ UNCHANGED <<popover, leaving, played, step, proof>>
  BY DEF TimePasses, TimersAdvance, Due, JourneyInv, TypeOK, MomentTypeOK
<1>2. \A t \in Timer : \/ timer[t] = Off /\ timer'[t] = Off
                       \/ timer[t] \in Nat \ {0} /\ timer'[t] = timer[t] - 1 /\ timer'[t] # Off
  BY <1>1 DEF Off
<1>3. LifeInv'
  BY <1>1, <1>2, Distinct, Delays DEF CadenceInv, LifeInv, Off
<1>4. GapInv'
  <2> SUFFICES ASSUME NEW m \in Moment \ played, timer'[m] # Off, popover # NoMoment
               PROVE  TimeToGo' < timer'[m]
    BY <1>1 DEF GapInv
  <2>1. TimeToGo < timer[m] /\ timer[m] \in Nat /\ timer'[m] = timer[m] - 1
    BY <1>1, <1>2, Distinct DEF CadenceInv, GapInv
  <2>2. TimeToGo \in Nat /\ TimeToGo' = TimeToGo - 1
    BY <1>1, <1>2, Distinct, Delays DEF CadenceInv, LifeInv, TimeToGo, Off
  <2>3. QED
    BY <2>1, <2>2
<1>5. PaceInv'
  <2>1. timer'["discovery"] # Off /\ timer'["encouragement"] # Off =>
          /\ timer["discovery"] \in Nat /\ timer["encouragement"] \in Nat
          /\ timer["discovery"] # Off /\ timer["encouragement"] # Off
          /\ timer'["discovery"] = timer["discovery"] - 1
          /\ timer'["encouragement"] = timer["encouragement"] - 1
    BY <1>2, Distinct DEF Moment, Off
  <2>2. QED
    BY <2>1, Delays DEF CadenceInv, PaceInv
<1>6. FreshInv'
  BY <1>1 DEF CadenceInv, FreshInv
<1>7. QED
  BY <1>3, <1>4, <1>5, <1>6 DEF CadenceInv

LEMMA CadenceStep == JourneyInv /\ CadenceInv /\ [Next]_vars => CadenceInv'
<1> SUFFICES ASSUME JourneyInv, CadenceInv, [Next]_vars PROVE CadenceInv'
  OBVIOUS
<1>1. ASSUME UNCHANGED <<timer, popover, leaving, played, step, proof>> PROVE CadenceInv'
  BY <1>1 DEF CadenceInv, LifeInv, GapInv, TimeToGo, PaceInv, FreshInv
<1>2. ASSUME PressContinue PROVE CadenceInv'
  <2>1. UNCHANGED <<timer, popover, leaving, played, proof>> /\ step' # "identity"
    BY <1>2 DEF PressContinue, momentVars
  <2>2. QED
    BY <2>1 DEF CadenceInv, LifeInv, GapInv, TimeToGo, PaceInv, FreshInv
<1>3. ASSUME StartOver PROVE CadenceInv'
  <2>1. \A t \in Timer : timer'[t] = Off
    BY <1>3 DEF StartOver, ResetMoments
  <2>2. popover' = NoMoment /\ ~leaving' /\ proof'["backing"] = IdleProof
    BY <1>3 DEF StartOver, ResetMoments, Kind
  <2>3. QED
    BY <2>1, <2>2, Distinct DEF CadenceInv, LifeInv, GapInv, PaceInv, FreshInv, Moment
<1>4. QED
  BY <1>1, <1>2, <1>3, StartKeepsCadence, SettleKeepsCadence, CueKeepsCadence,
     LeavingKeepsCadence, TimeKeepsCadence
     DEF Next, Route, CallReturns, Tick, vars, momentVars, journeyVars

LEMMA CadenceInvariant == Safety => [](JourneyInv /\ CadenceInv)
<1>1. Init => CadenceInv
  BY Distinct DEF Init, MomentInit, CadenceInv, LifeInv, GapInv, PaceInv, FreshInv, Moment, Kind
<1>2. QED
  BY <1>1, CadenceStep, JourneyInvariant, PTL DEF Safety

\* Whatever the lengths, as long as they keep the order of Cadence, a moment
\* never comes out over another (waitingMoments.ts 123-124).
THEOREM MomentsComeOneAtATime == Safety => OneMomentAtATime
<1>1. JourneyInv /\ CadenceInv /\ [Next]_vars =>
        [popover' # popover /\ popover' # NoMoment => popover = NoMoment]_vars
  <2> SUFFICES ASSUME JourneyInv, CadenceInv, [Next]_vars, popover' # popover, popover' # NoMoment
               PROVE  popover = NoMoment
    OBVIOUS
  <2>1. PICK m \in Moment : CueComes(m)
    BY DEF Next, PressStart, StartProof, StartWait, PressContinue, StartOver, ResetMoments, Route,
           CallReturns, Settle, EndWait, Tick, MomentLeaves, Dismiss, Remove, TimePasses,
           TimersAdvance, vars, momentVars
  <2>2. m \notin played /\ Due(m)
    BY <2>1 DEF CueComes, PlayCue
  <2>3. QED
    BY <2>2, ScreenIsFree
<1>2. QED
  BY <1>1, CadenceInvariant, PTL DEF Safety, OneMomentAtATime
=============================================================================
