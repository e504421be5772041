------------------------------- MODULE Journey -------------------------------
(***************************************************************************)
(* The journey of web/src/app.ts: four screens, two of which run a proof   *)
(* through web/src/proofRun.ts, and a help centre drawn over them while    *)
(* the proof goes on.  Answers are those of some port.                     *)
(***************************************************************************)
EXTENDS Moments

CONSTANTS
  Tier,          \* the backing outcomes, "none" among them
  Measured,      \* the length of the measured run, in ticks
  MaxGeneration  \* bound: starts and restarts in a behaviour

ASSUME TierAssumption == "none" \in Tier /\ "undefined" \notin Tier
ASSUME BoundsAssumption == Measured \in Nat /\ MaxGeneration \in Nat

VARIABLES
  step,         \* state.step
  proof,        \* state.identity and state.backing
  generation,   \* bumped by every start and every start over
  run,          \* what has become of the runProof of each generation
  tickHandle,   \* the interval the journey can still clear
  ticking,      \* the intervals that are live
  renderedKey,  \* the key of the last view drawn
  showingHelp,  \* the help centre is over the journey
  root,         \* what the root element holds
  elapsed,      \* ticks since startedAt of the proof that runs
  begun         \* auxiliary: the generation this journey began at

journeyVars == <<step, proof, generation, run, tickHandle, ticking,
                 renderedKey, showingHelp, root, elapsed, begun>>
vars == <<momentVars, journeyVars>>

Kind == {"identity", "backing"}
Step == Kind \cup {"compare", "offers"}
ProofPhase == {"idle", "generating", "ready", "failed", "degraded"}
Generation == 0..MaxGeneration

\* The outcomes each port discloses, and the ones that mean the predicate holds.
Answers == [identity |-> {"verified", "unverified"}, backing |-> Tier]
IdentityHolds(v) == v = "verified"
BackingHolds(v) == v # "none"
Holds(kind, v) == IF kind = "identity" THEN IdentityHolds(v) ELSE BackingHolds(v)

NoValue == "undefined"
IdleProof == [phase |-> "idle", value |-> NoValue]
Generating == [phase |-> "generating", value |-> NoValue]

\* Mutation: every ok result holds, the default of toProofState.
AnyAnswerHolds(kind, result) ==
  [phase |-> IF result = "degraded" THEN "degraded" ELSE "ready",
   value |-> IF result = "degraded" THEN NoValue ELSE result]

\* Mutation: a degraded result shows its reason as its phase.
ReasonAsPhase(kind, result) ==
  IF result = "degraded" THEN [phase |-> "call_failed", value |-> NoValue]
  ELSE [phase |-> IF Holds(kind, result) THEN "ready" ELSE "failed",
        value |-> IF Holds(kind, result) THEN result ELSE NoValue]

\* A port's result as a screen state: a degraded result, or a call that threw,
\* is no answer; an answer holds or it does not.
ToProofState(kind, result) ==
  IF result = "degraded" THEN [phase |-> "degraded", value |-> NoValue]
  ELSE IF Holds(kind, result) THEN [phase |-> "ready", value |-> result]
  ELSE [phase |-> "failed", value |-> NoValue]

NotRun == [kind |-> "none", at |-> "unused", result |-> "degraded"]

\* What buildView draws of the state: the key, the outcome shown, the wait.
NoKey == <<"undefined", "undefined">>
ViewKey == <<step, IF step \in Kind THEN proof[step].phase ELSE "shown">>
ShownValue ==
  CASE step \in Kind      -> proof[step].value
    [] step = "compare"   -> NoValue
    [] step = "offers"    -> IF proof["backing"].value = NoValue THEN "none"
                             ELSE proof["backing"].value
IsWait(key) == key[2] = "generating"
View == [key |-> ViewKey, value |-> ShownValue, wait |-> IF IsWait(ViewKey) THEN elapsed ELSE 0]
HelpView == [key |-> <<"help", "shown">>, value |-> NoValue, wait |-> 0]
BlankView == [key |-> NoKey, value |-> NoValue, wait |-> 0]

\* Every screen is drawn with the navigation strip, the help centre's too.
HasTopbar == root # BlankView

ViewKeys == (Kind \X ProofPhase) \cup {<<"compare", "shown">>, <<"offers", "shown">>}
Views == [key : ViewKeys \cup {<<"help", "shown">>, NoKey},
          value : Answers["identity"] \cup Tier \cup {NoValue}, wait : 0..(Measured + 1)]

TypeOK ==
  /\ MomentTypeOK
  /\ step \in Step
  /\ proof \in [Kind -> [phase : ProofPhase,
                         value : Answers["identity"] \cup Tier \cup {NoValue}]]
  /\ generation \in Generation
  /\ run \in [Generation -> [kind : Kind \cup {"none"},
                             at : {"unused", "calling", "settling", "over"},
                             result : Answers["identity"] \cup Tier \cup {"degraded"}]]
  /\ tickHandle \in Generation
  /\ ticking \subseteq Generation
  /\ renderedKey \in ViewKeys \cup {NoKey}
  /\ showingHelp \in BOOLEAN
  /\ root \in Views
  /\ elapsed \in 0..(Measured + 1)
  /\ begun \in Generation

\* mountApp routes once before anything else: the address may name an article.
Init ==
  /\ MomentInit
  /\ step = "identity"
  /\ proof = [k \in Kind |-> IdleProof]
  /\ generation = 0
  /\ run = [g \in Generation |-> NotRun]
  /\ tickHandle = 0
  /\ ticking = {}
  /\ elapsed = 0
  /\ begun = 0
  /\ \/ showingHelp = TRUE /\ root = HelpView /\ renderedKey = NoKey
     \/ showingHelp = FALSE /\ root = View /\ renderedKey = ViewKey

----------------------------------------------------------------------------
(* Drawing.  The state is already the new one; key is the renderedKey that *)
(* render() finds.                                                         *)

\* Same screen, still waiting: only the wait region is patched, if it is there.
Patched == IF IsWait(root.key) THEN [root EXCEPT !.wait = View'.wait] ELSE root

Render(key) ==
  IF showingHelp'
    THEN renderedKey' = key /\ root' = root
    ELSE /\ renderedKey' = ViewKey'
         /\ root' = IF key = ViewKey' /\ IsWait(ViewKey') THEN Patched ELSE View'

\* Mutation: the handle is forgotten and the interval goes on.
ForgetInterval == ticking

\* clearInterval on the handle the journey holds; 0 stands for no handle.
Stopped == ticking \ {tickHandle}

----------------------------------------------------------------------------
(* What she does.                                                          *)

\* The action of the screen is in the markup unless a proof runs on it.
CtaOnScreen == ~showingHelp /\ ~IsWait(root.key)

\* Mutation: nothing draws the wait.
StartUnticked(kind) ==
  /\ generation < MaxGeneration
  /\ generation' = generation + 1
  /\ ticking' = Stopped
  /\ tickHandle' = generation + 1
  /\ run' = [run EXCEPT ![generation + 1] = [kind |-> kind, at |-> "calling", result |-> "degraded"]]
  /\ proof' = [proof EXCEPT ![kind] = Generating]
  /\ elapsed' = 0
  /\ StartWait(kind)
  /\ UNCHANGED <<step, showingHelp, begun>>
  /\ Render(renderedKey)

\* startProof, up to the point where runProof awaits the call: "generating" is
\* emitted, armed and drawn before the port is called.
StartProof(kind) ==
  /\ generation < MaxGeneration
  /\ generation' = generation + 1
  /\ ticking' = Stopped \cup {generation + 1}
  /\ tickHandle' = generation + 1
  /\ run' = [run EXCEPT ![generation + 1] = [kind |-> kind, at |-> "calling", result |-> "degraded"]]
  /\ proof' = [proof EXCEPT ![kind] = Generating]
  /\ elapsed' = 0
  /\ StartWait(kind)
  /\ UNCHANGED <<step, showingHelp, begun>>
  /\ Render(renderedKey)

\* A first attempt, or a retry: anything but a way past an unanswered check.
PressStart(kind) ==
  /\ CtaOnScreen
  /\ step = kind
  /\ proof[kind].phase \notin {"ready", "generating"}
  /\ StartProof(kind)

PressContinue ==
  /\ CtaOnScreen
  /\ \/ step = "identity" /\ proof["identity"].phase = "ready" /\ step' = "backing"
     \/ step = "backing" /\ proof["backing"].phase = "ready" /\ step' = "compare"
     \/ step = "compare" /\ step' = "offers"
  /\ UNCHANGED <<proof, generation, run, tickHandle, ticking, showingHelp, elapsed, begun, momentVars>>
  /\ Render(renderedKey)

\* Mutation: only the step goes back to the beginning.
StartOverKeepingAnswers ==
  /\ CtaOnScreen
  /\ step = "offers"
  /\ generation < MaxGeneration
  /\ generation' = generation + 1
  /\ begun' = generation + 1
  /\ step' = "identity"
  /\ ResetMoments
  /\ UNCHANGED <<proof, elapsed, run, showingHelp, ticking, tickHandle>>
  /\ Render(renderedKey)

StartOver ==
  /\ CtaOnScreen
  /\ step = "offers"
  /\ generation < MaxGeneration
  /\ generation' = generation + 1
  /\ begun' = generation + 1
  /\ ticking' = Stopped
  /\ tickHandle' = 0
  /\ ResetMoments
  /\ step' = "identity"
  /\ proof' = [k \in Kind |-> IdleProof]
  /\ elapsed' = 0
  /\ UNCHANGED <<run, showingHelp>>
  /\ Render(renderedKey)

\* Mutation: the way back trusts the key of the view she left.
RouteTrustingKey(toHelp) ==
  /\ showingHelp' = toHelp
  /\ UNCHANGED <<step, proof, generation, run, tickHandle, ticking, elapsed, begun, momentVars>>
  /\ IF toHelp
       THEN root' = HelpView /\ UNCHANGED renderedKey
       ELSE Render(renderedKey)

\* The address changes: into the help centre, within it, or back.  The way
\* back does not trust the key of a view that is no longer there.
Route(toHelp) ==
  /\ showingHelp' = toHelp
  /\ UNCHANGED <<step, proof, generation, run, tickHandle, ticking, elapsed, begun, momentVars>>
  /\ IF toHelp
       THEN root' = HelpView /\ UNCHANGED renderedKey
       ELSE Render(IF showingHelp THEN NoKey ELSE renderedKey)

----------------------------------------------------------------------------
(* What the port, the event loop and the clock do.                         *)

\* The port answers, degrades or throws.  Between this and Settle a stub is
\* held for the length of a measured run.
CallReturns(g) ==
  /\ run[g].at = "calling"
  /\ \E r \in Answers[run[g].kind] \cup {"degraded"} :
       run' = [run EXCEPT ![g].at = "settling", ![g].result = r]
  /\ UNCHANGED <<step, proof, generation, tickHandle, ticking, renderedKey,
                 showingHelp, root, elapsed, begun, momentVars>>

\* Mutation: a call that brought no answer is not turned into a state.
SettleAnswersOnly(g) ==
  /\ run[g].at = "settling"
  /\ g = generation
  /\ run[g].result # "degraded"
  /\ run' = [run EXCEPT ![g].at = "over"]
  /\ proof' = [proof EXCEPT ![run[g].kind] = ToProofState(run[g].kind, run[g].result)]
  /\ ticking' = Stopped
  /\ tickHandle' = 0
  /\ EndWait(run[g].kind, "ready")
  /\ UNCHANGED <<step, generation, showingHelp, elapsed, begun>>
  /\ Render(renderedKey)

\* runProof emits the outcome; emit drops it unless its run is the last one.
Settle(g) ==
  /\ run[g].at = "settling"
  /\ run' = [run EXCEPT ![g].at = "over"]
  /\ UNCHANGED <<step, generation, showingHelp, elapsed, begun>>
  /\ IF g # generation
       THEN UNCHANGED <<proof, tickHandle, ticking, renderedKey, root, momentVars>>
       ELSE LET settled == ToProofState(run[g].kind, run[g].result) IN
            /\ proof' = [proof EXCEPT ![run[g].kind] = settled]
            /\ ticking' = Stopped
            /\ tickHandle' = 0
            /\ EndWait(run[g].kind, IF settled.phase = "ready" THEN "ready" ELSE "unanswered")
            /\ Render(renderedKey)

\* The interval of a run; one whose run is not the last draws nothing.
Tick(g) ==
  /\ g \in ticking
  /\ g = generation
  /\ UNCHANGED <<step, proof, generation, run, tickHandle, ticking, showingHelp, elapsed, begun, momentVars>>
  /\ Render(renderedKey)

CueComes(m) ==
  /\ PlayCue(m, HasTopbar)
  /\ UNCHANGED journeyVars

MomentLeaves ==
  /\ Dismiss \/ Remove
  /\ UNCHANGED journeyVars

Waiting == \E k \in Kind : proof[k].phase = "generating"

TimePasses ==
  /\ (\E t \in Timer : timer[t] # Off) \/ (Waiting /\ elapsed <= Measured)
  /\ TimersAdvance
  /\ elapsed' = IF Waiting /\ elapsed <= Measured THEN elapsed + 1 ELSE elapsed
  /\ UNCHANGED <<step, proof, generation, run, tickHandle, ticking, renderedKey,
                 showingHelp, root, begun>>

Next ==
  \/ \E k \in Kind : PressStart(k)
  \/ PressContinue
  \/ StartOver
  \/ \E toHelp \in BOOLEAN : Route(toHelp)
  \/ \E g \in Generation : CallReturns(g) \/ Settle(g) \/ Tick(g)
  \/ \E m \in Moment : CueComes(m)
  \/ MomentLeaves
  \/ TimePasses

Safety == Init /\ [][Next]_vars

\* She owes nothing.  A port answers, degrades or throws in the end; the event
\* loop runs what is ready, and time passes.
Fairness ==
  /\ \A g \in Generation : WF_vars(CallReturns(g)) /\ WF_vars(Settle(g)) /\ WF_vars(Tick(g))
  /\ \A m \in Moment : WF_vars(CueComes(m))
  /\ WF_vars(MomentLeaves)
  /\ WF_vars(TimePasses)

Spec == Safety /\ Fairness

\* A proof has no time-out: nothing but the page's own clock and its interval
\* is sure to go on while she waits.
PatientSpec ==
  /\ Safety
  /\ \A g \in Generation : WF_vars(Tick(g))
  /\ WF_vars(TimePasses)

----------------------------------------------------------------------------
(* Properties.                                                             *)

\* No screen is reached past an unanswered check: past identity the identity
\* holds, past backing a tier was proved, and the last screen names it.  (The
\* CTA handler, app.ts 234-260.)
NoStepUnanswered ==
  /\ step # "identity" => /\ proof["identity"].phase = "ready"
                          /\ IdentityHolds(proof["identity"].value)
  /\ step \in {"compare", "offers"} => /\ proof["backing"].phase = "ready"
                                       /\ BackingHolds(proof["backing"].value)

\* The runs of this journey for one kind, the last of which a settled proof
\* shows: never an answer of an earlier run or of an earlier journey.  (The
\* generation of app.ts 134-136 and the CTA's refusal while a proof runs.)
RunsOf(kind) == {g \in (begun + 1)..generation : run[g].kind = kind}
AnswerIsOwn ==
  \A k \in Kind :
    proof[k].phase \in {"ready", "failed", "degraded"} =>
      \E g \in RunsOf(k) :
        /\ \A h \in RunsOf(k) : h <= g
        /\ run[g].at = "over"
        /\ proof[k] = ToProofState(k, run[g].result)

\* Nothing runs behind a screen that does not say so, no second run starts
\* while one is out, and the interval that draws the wait lives exactly as
\* long.  (startProof, stopTicking and the CTA handler of app.ts.)
OneRunOneTicker ==
  /\ \A g \in Generation :
       run[g].at \in {"calling", "settling"} =>
         g = generation /\ proof[run[g].kind].phase = "generating"
  /\ ticking = {g \in Generation : run[g].at \in {"calling", "settling"}}

\* Out of the help centre the root shows the state: its screen, its phase, its
\* outcome; in it, the help.  (render's shortcut for a wait, app.ts 164-178,
\* against route's reset of the key, 271-280.)
ScreenShowsState ==
  IF showingHelp THEN root = HelpView
  ELSE root.key = ViewKey /\ root.value = ShownValue

\* A moment belongs to its wait: what is on screen and not leaving, or armed
\* to come, speaks of a proof that runs, and the celebration of one that
\* answered.  (momentView.ts 129-141 against app.ts 200-205 and 265.)
InItsWait(m) ==
  proof[MomentCues[m].wait].phase =
    (IF MomentCues[m].phase = "processing" THEN "generating" ELSE "ready")
MomentInItsWait ==
  /\ popover # NoMoment /\ ~leaving => InItsWait(popover)
  /\ \A m \in Moment : timer[m] # Off => InItsWait(m)

\* Two moments never share the screen: one comes out only when the other is
\* gone.  (waitingMoments.ts 123-124.)
OneMomentAtATime ==
  [][popover' # popover /\ popover' # NoMoment => popover = NoMoment]_vars

\* What comes out goes away, with nothing tapped.  (momentView.ts 97-113.)
MomentsGoAway == (popover # NoMoment) ~> (popover = NoMoment)

\* A wait that goes long says so, as long as she looks at it, even if the
\* answer never comes.  (The ticker, app.ts 185-189, and the headline of an
\* overtime wait.)
Overtime == Waiting /\ ~showingHelp /\ elapsed > Measured
OvertimeIsShown == Overtime ~> (~Overtime \/ root.wait > Measured)

\* Each proof lives the life its screen promises: it settles, only an answer
\* that holds is carried, and only a new journey forgets it.  (proofRun.ts.)
Identity == INSTANCE ProofLife WITH
  Value <- {v \in Answers["identity"] : IdentityHolds(v)},
  phase <- proof["identity"].phase, value <- proof["identity"].value
Backing == INSTANCE ProofLife WITH
  Value <- {v \in Answers["backing"] : BackingHolds(v)},
  phase <- proof["backing"].phase, value <- proof["backing"].value
EachProofLives == Identity!Spec /\ Backing!Spec

\* A moment whose cue comes while she reads the help centre is spent unseen.
\* (momentView.ts 81-85: "False means there is no strip on screen to hang
\* from - the help centre, for one".)
NoMomentOverHelp ==
  [][popover' # popover /\ popover' # NoMoment => ~showingHelp]_vars
=============================================================================
