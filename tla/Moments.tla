------------------------------- MODULE Moments -------------------------------
(***************************************************************************)
(* The micro-moments of a wait (web/src/momentView.ts), cued as            *)
(* web/src/content/waitingMoments.ts says: a popover that comes out while  *)
(* a proof runs, leaves on its own, and is taken away when the proof       *)
(* settles.  Times are counted in ticks of a clock that does not pass a    *)
(* timer that is due.                                                      *)
(***************************************************************************)
EXTENDS Integers

CONSTANTS
  FirstCue,    \* from the start of a wait to its first moment
  SecondCue,   \* to the second one of the identity wait
  ClosingCue,  \* from a backing answer to the celebration
  VisibleFor,  \* how long a moment stays
  LeaveFor     \* how long its leave animation takes

\* A moment is off the screen before the next cue of the same wait, and before
\* any cue armed after its wait ended.
ASSUME Cadence ==
  /\ {FirstCue, SecondCue, ClosingCue, VisibleFor, LeaveFor} \subseteq Nat \ {0}
  /\ LeaveFor < FirstCue
  /\ LeaveFor < ClosingCue
  /\ FirstCue + VisibleFor + LeaveFor < SecondCue

VARIABLES
  timer,    \* time left on each timer, or Off
  popover,  \* the moment in the host, or NoMoment
  leaving,  \* it plays its leave animation
  played    \* the moments spent since the journey began

momentVars == <<timer, popover, leaving, played>>

\* A cue belongs to one wait: it comes that long into the processing, or that
\* long after the answer.
MomentCues ==
  [discovery     |-> [wait |-> "identity", phase |-> "processing", after |-> FirstCue],
   encouragement |-> [wait |-> "identity", phase |-> "processing", after |-> SecondCue],
   structural    |-> [wait |-> "backing",  phase |-> "processing", after |-> FirstCue],
   celebration   |-> [wait |-> "backing",  phase |-> "settled",    after |-> ClosingCue]]

Moment == {"discovery", "encouragement", "structural", "celebration"}
NoMoment == "none"

\* One timer per cue, one for a moment's time on screen, one for its removal.
Timer == Moment \cup {"visible", "remove"}
Off == -1
Due(t) == timer[t] = 0

CuesFor(wait, phase) ==
  {m \in Moment : MomentCues[m].wait = wait /\ MomentCues[m].phase = phase}

MomentTypeOK ==
  /\ timer \in [Timer -> Nat \cup {Off}]
  /\ popover \in Moment \cup {NoMoment}
  /\ leaving \in BOOLEAN
  /\ played \subseteq Moment

MomentInit ==
  /\ timer = [t \in Timer |-> Off]
  /\ popover = NoMoment
  /\ leaving = FALSE
  /\ played = {}

----------------------------------------------------------------------------
\* disarm(), then one timer for each of these cues.
Rearmed(cues) ==
  [t \in Timer |-> IF t \in cues THEN MomentCues[t].after
                   ELSE IF t \in Moment THEN Off ELSE timer[t]]

\* Processing began: its cues are armed.
StartWait(wait) ==
  /\ timer' = Rearmed(CuesFor(wait, "processing"))
  /\ UNCHANGED <<popover, leaving, played>>

\* Mutation: the cues that the answer beat stay armed.
LeaveArmed(wait, outcome) ==
  /\ timer' = [timer EXCEPT !["visible"] = Off,
                            !["remove"] = IF popover = NoMoment THEN Off ELSE LeaveFor]
  /\ leaving' = (popover # NoMoment)
  /\ UNCHANGED <<popover, played>>

\* Mutation: the moment on screen is left to its own time.
KeepPopover(wait, outcome) ==
  /\ timer' = Rearmed(IF outcome = "ready" THEN CuesFor(wait, "settled") ELSE {})
  /\ UNCHANGED <<popover, leaving, played>>

\* Whatever is armed is dropped and whatever is on screen starts to leave;
\* only an answer earns the closing moment.
EndWait(wait, outcome) ==
  /\ timer' = [Rearmed(IF outcome = "ready" THEN CuesFor(wait, "settled") ELSE {})
                 EXCEPT !["visible"] = Off,
                        !["remove"] = IF popover = NoMoment THEN Off ELSE LeaveFor]
  /\ leaving' = (popover # NoMoment)
  /\ UNCHANGED <<popover, played>>

\* Start over: the arc can be seen again.
ResetMoments ==
  /\ timer' = [t \in Timer |-> Off]
  /\ popover' = NoMoment
  /\ leaving' = FALSE
  /\ played' = {}

\* A cue's time has come.  It is spent even where there is no navigation strip
\* to hang the popover from.
PlayCue(m, strip) ==
  /\ Due(m)
  /\ IF m \in played
       THEN /\ timer' = [timer EXCEPT ![m] = Off]
            /\ UNCHANGED <<popover, leaving, played>>
       ELSE /\ played' = played \cup {m}
            /\ timer' = [timer EXCEPT ![m] = Off, !["remove"] = Off,
                                      !["visible"] = IF strip THEN VisibleFor ELSE Off]
            /\ popover' = IF strip THEN m ELSE popover
            /\ leaving' = (leaving /\ ~strip)

\* Mutation: the fade is played and the node stays.
FadeOnly ==
  /\ Due("visible")
  /\ leaving' = TRUE
  /\ timer' = [timer EXCEPT !["visible"] = Off]
  /\ UNCHANGED <<popover, played>>

\* dismiss(), once its time on screen is over.
Dismiss ==
  /\ Due("visible")
  /\ leaving' = TRUE
  /\ timer' = [timer EXCEPT !["visible"] = Off, !["remove"] = LeaveFor]
  /\ UNCHANGED <<popover, played>>

\* The animation is over and the node goes.
Remove ==
  /\ Due("remove")
  /\ popover' = NoMoment
  /\ leaving' = FALSE
  /\ timer' = [timer EXCEPT !["remove"] = Off]
  /\ UNCHANGED played

\* A tick of the clock; a timer that is due comes first.
TimersAdvance ==
  /\ \A t \in Timer : ~Due(t)
  /\ timer' = [t \in Timer |-> IF timer[t] = Off THEN Off ELSE timer[t] - 1]
  /\ UNCHANGED <<popover, leaving, played>>
=============================================================================
