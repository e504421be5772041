----------------------------- MODULE WaitStages -----------------------------
(***************************************************************************)
(* The staged sequence of a wait and the node that shows it                *)
(* (web/src/domain/waitStages.ts, web/src/waitView.ts): one step of the    *)
(* work at a time, swapped in place by the ticker, each holding its check  *)
(* for a beat before the next one arrives.  The ticker is an interval, so  *)
(* two draws are at most Gap apart, and anything less.  Whether there is a *)
(* wait at all is module Journey.                                          *)
(***************************************************************************)
EXTENDS Integers

CONSTANTS
  Last,          \* the stages are 0..Last
  Start,         \* when each begins, of the measured run
  Measured,      \* MEASURED_PROOF_MS
  Beat,          \* CELEBRATION_MS
  Gap,           \* the longest time between two draws: TICK_MS, and how late it may be
  LeaveTimeout,  \* LEAVE_TIMEOUT_MS
  MaxElapsed     \* bound: how long the wait is followed

Stage == 0..Last
MaxPercent == 96

\* The order of the code's numbers that its comments rely on: "comfortably
\* shorter than the shortest stage, so two beats never overlap".
ASSUME Lengths ==
  /\ Last \in Nat /\ Measured \in Nat /\ Beat \in Nat /\ Gap \in Nat
  /\ LeaveTimeout \in Nat /\ MaxElapsed \in Nat
  /\ Start \in [Stage -> Nat] /\ Start[0] = 0

ASSUME Pace ==
  /\ 0 < Gap /\ Gap <= Beat /\ 0 < LeaveTimeout
  /\ \A i, j \in Stage : i < j =>
       Start[i] + Beat + Gap <= Start[j] /\ Start[i] + LeaveTimeout + Gap <= Start[j]
  /\ Start[Last] + Beat <= Measured

VARIABLES
  elapsed,   \* time since the proof was asked
  drawnAt,   \* the elapsed time last drawn
  shown,     \* the step in the slot, and the ring around it
  leaving,   \* for each step, the time its node has left to fade, or Off
  away       \* the help centre covers the screen

waitVars == <<elapsed, drawnAt, shown, leaving, away>>

Off == -1

----------------------------------------------------------------------------
(* buildWaitProgress.                                                      *)

ActiveIndex(e) ==
  CHOOSE i \in Stage : Start[i] <= e /\ \A j \in Stage : Start[j] <= e => j <= i

Celebrating(e) == ActiveIndex(e) > 0 /\ e - Start[ActiveIndex(e)] < Beat

Percent(e) ==
  LET rounded == (2 * e * MaxPercent + Measured) \div (2 * Measured)
  IN IF rounded < MaxPercent THEN rounded ELSE MaxPercent

\* Mutation: the check of a step is on its successor.
ProgressOfActive(e) ==
  [index    |-> ActiveIndex(e),
   status   |-> IF Celebrating(e) THEN "done" ELSE "active",
   percent  |-> Percent(e),
   overtime |-> e > Measured]

Progress(e) ==
  [index    |-> IF Celebrating(e) THEN ActiveIndex(e) - 1 ELSE ActiveIndex(e),
   status   |-> IF Celebrating(e) THEN "done" ELSE "active",
   percent  |-> Percent(e),
   overtime |-> e > Measured]

----------------------------------------------------------------------------
(* The screen.                                                             *)

WaitInit ==
  /\ elapsed = 0 /\ drawnAt = 0
  /\ shown = Progress(0)
  /\ leaving = [i \in Stage |-> Off]
  /\ away = FALSE

\* Mutation: a step already there keeps its old status.
AppliedOnce(e) == IF shown.index = Progress(e).index THEN shown ELSE Progress(e)

\* applyWaitProgress: every field of the region is set.
Applied(e) == Progress(e)

\* The ticker draws: the step already there takes its new status, and another
\* one is put in beside it and the old one told to leave.
Tick ==
  /\ ~away /\ drawnAt < elapsed
  /\ shown' = Applied(elapsed)
  /\ leaving' = IF shown.index = Progress(elapsed).index THEN leaving
                ELSE [leaving EXCEPT ![shown.index] = LeaveTimeout]
  /\ drawnAt' = elapsed
  /\ UNCHANGED <<elapsed, away>>

\* The end of the fade removes a step, if the browser announces it.
AnimationEnd(i) ==
  /\ leaving[i] # Off
  /\ leaving' = [leaving EXCEPT ![i] = Off]
  /\ UNCHANGED <<elapsed, drawnAt, shown, away>>

\* The fallback removes a step whose time is over.
Faded(left) == IF left = Off \/ left = 1 THEN Off ELSE left - 1

\* Time goes by no further than the next draw.
Pass ==
  /\ elapsed < MaxElapsed
  /\ away \/ elapsed - drawnAt < Gap
  /\ elapsed' = elapsed + 1
  /\ leaving' = [i \in Stage |-> Faded(leaving[i])]
  /\ UNCHANGED <<drawnAt, shown, away>>

\* The help centre replaces the markup, steps on their way out included, and
\* coming back draws the wait as it is by then.
OpenHelp ==
  /\ ~away /\ away' = TRUE
  /\ leaving' = [i \in Stage |-> Off]
  /\ UNCHANGED <<elapsed, drawnAt, shown>>

LeaveHelp ==
  /\ away /\ away' = FALSE
  /\ shown' = Progress(elapsed) /\ drawnAt' = elapsed
  /\ UNCHANGED <<elapsed, leaving>>

WaitNext ==
  \/ Pass \/ Tick \/ OpenHelp \/ LeaveHelp
  \/ \E i \in Stage : AnimationEnd(i)

WaitSafety == WaitInit /\ [][WaitNext]_waitVars

----------------------------------------------------------------------------
WaitTypeOK ==
  /\ elapsed \in 0..MaxElapsed /\ drawnAt \in 0..elapsed
  /\ shown \in [index : Stage, status : {"active", "done"}, percent : 0..MaxPercent, overtime : BOOLEAN]
  /\ leaving \in [Stage -> {Off} \cup 1..LeaveTimeout]
  /\ away \in BOOLEAN

\* The screen is behind the work by a draw at most, and never ahead of it: a
\* step wears its check only once its successor runs ("nothing is ever marked
\* done before it is"), the last one never does, and the line of a wait that
\* is long belongs to the last step, at work.
NeverAhead ==
  ~away =>
    /\ elapsed - drawnAt <= Gap
    /\ shown.status = "done" => shown.index < Last /\ Start[shown.index + 1] <= elapsed
    /\ shown.status = "active" /\ shown.index > 0 => Start[shown.index] + Beat <= elapsed
    /\ shown.status = "active" /\ shown.index < Last => elapsed < Start[shown.index + 1] + Gap
    /\ shown.overtime => shown.index = Last

\* No step vanishes unmarked: the one that takes its place in front of her is
\* its successor, and it wears its check by then.
StepsAreMarked ==
  [][~away /\ ~away' /\ shown'.index # shown.index =>
       shown.status = "done" /\ shown'.index = shown.index + 1]_waitVars

\* The slot holds the step and at most one other that fades over it, which is
\* the one before.
OneStepFades ==
  \A i \in Stage : leaving[i] # Off => ~away /\ i = shown.index - 1
=============================================================================
