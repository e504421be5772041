--------------------------- MODULE Browser_proof ---------------------------
(***************************************************************************)
(* Proofs about the parts of a page without a proof server: the drawing of *)
(* a wait (WaitStages), the store of the identity path's password          *)
(* (IdentityStore) and the service worker, and that in Browser each part   *)
(* behaves as it does alone, so that what is proved of one holds there.    *)
(* Of the ports themselves, LacePort_proof has the theorems.               *)
(***************************************************************************)
EXTENDS Browser, LacePort_proof

(***************************************************************************)
(* The wait, for every number of stages and all lengths in the code's      *)
(* order: what is drawn follows the work, and a step is never taken away   *)
(* before its check has been seen.                                         *)
(***************************************************************************)


\* Stage i is the one running at e.
Active(i, e) == i \in Stage /\ Start[i] <= e /\ \A j \in Stage : Start[j] <= e => j <= i

AtWork(e) == \E i \in Stage : Active(i, e)

\* Two draws are a Gap apart at most, and each shows the work of its moment.
DrawInv ==
  /\ AtWork(elapsed) /\ AtWork(drawnAt)
  /\ shown = Progress(drawnAt)
  /\ ~away => elapsed - drawnAt <= Gap

\* A node that fades is the step before the one on screen, and is gone before
\* the next swap.
FadeInv ==
  \A i \in Stage : leaving[i] # Off =>
    /\ ~away /\ i = shown.index - 1
    /\ elapsed + leaving[i] <= Start[i + 1] + Beat + Gap + LeaveTimeout

WaitInv == WaitTypeOK /\ DrawInv /\ FadeInv

LEMMA ActiveIs ==
  ASSUME NEW e \in Nat, NEW i \in Stage, Active(i, e)
  PROVE  ActiveIndex(e) = i
<1>1. \A k \in Stage : Active(k, e) => k = i
  BY Lengths DEF Active, Stage
<1> QED BY <1>1 DEF Active, ActiveIndex

\* A stage runs until the next one begins.
LEMMA ActiveUntil ==
  ASSUME NEW e \in Nat, NEW i \in Stage
  PROVE  Active(i, e) <=> Start[i] <= e /\ (i < Last => e < Start[i + 1])
<1>1. i < Last => i + 1 \in Stage
  BY Lengths DEF Stage
<1>2. ASSUME Start[i] <= e, i < Last => e < Start[i + 1], NEW j \in Stage, Start[j] <= e
      PROVE  j <= i
  <2>1. CASE j > i
    <3>1. i < Last /\ (j = i + 1 \/ i + 1 < j)
      BY <2>1, Lengths DEF Stage
    <3>2. i + 1 < j => Start[i + 1] <= Start[j]
      BY <1>1, <3>1, Lengths, Pace DEF Stage
    <3> QED BY <1>1, <1>2, <3>1, <3>2, Lengths DEF Stage
  <2> QED BY <2>1, Lengths DEF Stage
<1>3. ASSUME Active(i, e), i < Last PROVE e < Start[i + 1]
  BY <1>1, <1>3, Lengths DEF Active, Stage
<1> QED BY <1>2, <1>3 DEF Active

\* The work never stands between two stages.
LEMMA RunsOn ==
  ASSUME NEW e \in Nat, AtWork(e)
  PROVE  AtWork(e + 1)
<1>1. PICK i \in Stage : Active(i, e)
  BY DEF AtWork
<1>2. CASE i = Last \/ e + 1 < Start[i + 1]
  <2>1. Active(i, e + 1)
    BY <1>1, <1>2, ActiveUntil, Lengths DEF Stage
  <2> QED BY <2>1 DEF AtWork
<1>3. CASE i # Last /\ ~(e + 1 < Start[i + 1])
  <2>1. i + 1 \in Stage /\ i < Last
    BY <1>3, Lengths DEF Stage
  <2>2. Start[i + 1] = e + 1
    BY <1>1, <1>3, <2>1, ActiveUntil, Lengths DEF Stage
  <2>3. ASSUME i + 1 < Last PROVE i + 2 \in Stage /\ e + 1 < Start[i + 2]
    <3>1. i + 2 \in Stage /\ i + 1 < i + 2
      BY <2>1, <2>3, Lengths DEF Stage
    <3>2. Start[i + 1] + Beat + Gap <= Start[i + 2]
      BY <2>1, <3>1, Pace
    <3>3. 0 < Gap /\ Gap \in Nat /\ Beat \in Nat /\ Start[i + 2] \in Nat
      BY <3>1, Lengths, Pace
    <3> QED BY <2>2, <3>1, <3>2, <3>3
  <2>4. Active(i + 1, e + 1)
    BY <2>1, <2>2, <2>3, ActiveUntil, Lengths DEF Stage
  <2> QED BY <2>1, <2>4 DEF AtWork
<1> QED BY <1>2, <1>3

LEMMA PercentType ==
  ASSUME NEW e \in Nat
  PROVE  Percent(e) \in 0..MaxPercent
<1>1. Measured \in Nat /\ Measured > 0
  BY Lengths, Pace DEF Stage
<1>2. 2 * e * MaxPercent + Measured \in Nat /\ 2 * Measured \in Nat /\ 2 * Measured > 0
  BY <1>1 DEF MaxPercent
<1>3. \A a, b \in Nat : b > 0 => a \div b \in Nat
  OBVIOUS
<1> QED BY <1>2, <1>3 DEF Percent, MaxPercent

\* What is drawn at e while stage i runs.
LEMMA ProgressIs ==
  ASSUME NEW e \in Nat, NEW i \in Stage, Active(i, e)
  PROVE  /\ Progress(e) \in [index : Stage, status : {"active", "done"},
                             percent : 0..MaxPercent, overtime : BOOLEAN]
         /\ \/ /\ i > 0 /\ e < Start[i] + Beat
               /\ Progress(e).index = i - 1 /\ Progress(e).status = "done"
            \/ /\ i = 0 \/ Start[i] + Beat <= e
               /\ Progress(e).index = i /\ Progress(e).status = "active"
<1>1. ActiveIndex(e) = i
  BY ActiveIs
<1>2. Celebrating(e) <=> i > 0 /\ e < Start[i] + Beat
  BY <1>1, Lengths DEF Celebrating, Stage
<1>3. Celebrating(e) \in BOOLEAN /\ (e > Measured) \in BOOLEAN /\ Percent(e) \in 0..MaxPercent
  BY PercentType DEF Celebrating
<1>4. CASE Celebrating(e)
  BY <1>1, <1>2, <1>3, <1>4, Lengths DEF Progress, Stage
<1>5. CASE ~Celebrating(e)
  BY <1>1, <1>2, <1>3, <1>5, Lengths DEF Progress, Stage
<1> QED BY <1>4, <1>5

\* The heart of it: of two draws less than a beat apart, the second shows the
\* same step, or its successor after the check.
LEMMA DrawsFollow ==
  ASSUME NEW d \in Nat, NEW e \in Nat, d <= e, e - d <= Gap, AtWork(d), AtWork(e),
         Progress(e).index # Progress(d).index
  PROVE  /\ Progress(d).status = "done"
         /\ Progress(e).index = Progress(d).index + 1
         /\ Start[Progress(e).index] + Beat <= e
         /\ e <= Start[Progress(e).index] + Beat + Gap
<1>1. PICK i \in Stage : Active(i, d)
  BY DEF AtWork
<1>2. PICK j \in Stage : Active(j, e)
  BY DEF AtWork
<1>3. /\ Start[i] <= d /\ (i < Last => d < Start[i + 1])
      /\ Start[j] <= e /\ (j < Last => e < Start[j + 1])
  BY <1>1, <1>2, ActiveUntil
<1>4. j = i \/ j = i + 1
  <2>1. i <= j
    <3>1. Start[i] <= e
      BY <1>3, Lengths
    <3> QED BY <1>2, <3>1 DEF Active
  <2>2. CASE i + 1 < j
    <3>1. i + 1 \in Stage /\ i < Last
      BY <2>2, Lengths DEF Stage
    <3>2. Start[i + 1] + Beat + Gap <= Start[j]
      BY <2>2, <3>1, Pace DEF Stage
    <3>3. Start[i + 1] \in Nat /\ Start[j] \in Nat /\ Beat \in Nat /\ Gap \in Nat /\ 0 < Gap /\ Gap <= Beat
      BY <3>1, Lengths, Pace
    <3> QED BY <1>3, <3>1, <3>2, <3>3
  <2> QED BY <2>1, <2>2, Lengths DEF Stage
<1>5. j = i + 1 => d < Start[j] /\ Start[i] + Beat + Gap <= Start[j]
  BY <1>3, Lengths, Pace DEF Stage
<1>6. CASE j = i
  <2>1. \/ i > 0 /\ d < Start[i] + Beat /\ Progress(d).index = i - 1 /\ Progress(d).status = "done"
        \/ (i = 0 \/ Start[i] + Beat <= d) /\ Progress(d).index = i
    BY <1>1, ProgressIs
  <2>2. \/ i > 0 /\ e < Start[i] + Beat /\ Progress(e).index = i - 1
        \/ (i = 0 \/ Start[i] + Beat <= e) /\ Progress(e).index = i
    BY <1>2, <1>6, ProgressIs
  <2>3. Start[i] \in Nat /\ Beat \in Nat /\ Gap \in Nat /\ i \in Nat
    BY Lengths DEF Stage
  <2>4. /\ d < Start[i] + Beat /\ Start[i] + Beat <= e
        /\ Progress(d).index = i - 1 /\ Progress(d).status = "done" /\ Progress(e).index = i
    BY <2>1, <2>2, <2>3
  <2> QED BY <2>3, <2>4
<1>7. CASE j = i + 1
  <2>1. e < Start[j] + Beat
    BY <1>3, <1>5, <1>7, Lengths, Pace DEF Stage
  <2>2. Progress(e).index = j - 1
    BY <1>2, <1>7, <2>1, ProgressIs, Lengths DEF Stage
  <2>3. Progress(d).index = i - 1 /\ Progress(d).status = "done" /\ d < Start[i] + Beat
    BY <1>1, <1>7, <2>2, ProgressIs, Lengths DEF Stage
  <2> QED BY <1>3, <1>5, <1>7, <2>2, <2>3, Lengths, Pace DEF Stage
<1> QED BY <1>4, <1>6, <1>7

----------------------------------------------------------------------------
LEMMA WaitInitially == WaitInit => WaitInv
<1> SUFFICES ASSUME WaitInit PROVE WaitInv
  OBVIOUS
<1>1. 0 \in Stage /\ Active(0, 0)
  <2>1. 0 \in Stage /\ (0 < Last => 0 < Start[0 + 1])
    BY Lengths, Pace DEF Stage
  <2> QED BY <2>1, ActiveUntil, Lengths
<1>2. Progress(0) \in [index : Stage, status : {"active", "done"},
                       percent : 0..MaxPercent, overtime : BOOLEAN]
  BY <1>1, ProgressIs
<1>3. WaitTypeOK
  <2>1. elapsed \in 0..MaxElapsed /\ drawnAt \in 0..elapsed
    BY Lengths DEF WaitInit
  <2>2. leaving \in [Stage -> {Off} \cup 1..LeaveTimeout] /\ away \in BOOLEAN
    BY DEF WaitInit
  <2> QED BY <1>2, <2>1, <2>2 DEF WaitInit, WaitTypeOK
<1>4. DrawInv
  BY <1>1, Lengths, Pace DEF WaitInit, DrawInv, AtWork
<1>5. FadeInv
  BY DEF WaitInit, FadeInv
<1> QED BY <1>3, <1>4, <1>5 DEF WaitInv

LEMMA WaitStep == WaitInv /\ [WaitNext]_waitVars => WaitInv'
<1> SUFFICES ASSUME WaitInv, [WaitNext]_waitVars PROVE WaitInv'
  OBVIOUS
<1>t. /\ elapsed \in Nat /\ drawnAt \in Nat /\ drawnAt <= elapsed /\ elapsed <= MaxElapsed
      /\ leaving \in [Stage -> {Off} \cup 1..LeaveTimeout] /\ shown.index \in Stage
  BY Lengths DEF WaitInv, WaitTypeOK
<1>1. CASE Pass
  <2>1. WaitTypeOK'
    <3>1. \A left \in {Off} \cup 1..LeaveTimeout : Faded(left) \in {Off} \cup 1..LeaveTimeout
      BY Lengths, Pace DEF Faded, Off
    <3>2. leaving' \in [Stage -> {Off} \cup 1..LeaveTimeout]
      BY <1>1, <1>t, <3>1 DEF Pass
    <3> QED BY <1>1, <1>t, <3>2, Lengths DEF Pass, WaitInv, WaitTypeOK
  <2>2. DrawInv'
    <3>1. AtWork(elapsed')
      BY <1>1, <1>t, RunsOn DEF Pass, WaitInv, DrawInv
    <3>2. AtWork(drawnAt') /\ shown' = Progress(drawnAt')
      BY <1>1 DEF Pass, WaitInv, DrawInv
    <3>3. ~away' => elapsed' - drawnAt' <= Gap
      BY <1>1, <1>t, Lengths DEF Pass
    <3> QED BY <3>1, <3>2, <3>3 DEF DrawInv
  <2>3. FadeInv'
    <3> SUFFICES ASSUME NEW i \in Stage, leaving'[i] # Off
                 PROVE  /\ ~away' /\ i = shown'.index - 1
                        /\ elapsed' + leaving'[i] <= Start[i + 1] + Beat + Gap + LeaveTimeout
      BY DEF FadeInv
    <3>1. leaving[i] # Off /\ leaving'[i] = leaving[i] - 1
      BY <1>1, <1>t DEF Pass, Faded
    <3>2. leaving[i] \in Int
      BY <1>t, Lengths DEF Off
    <3> QED BY <1>1, <1>t, <3>1, <3>2 DEF Pass, WaitInv, FadeInv
  <2> QED BY <2>1, <2>2, <2>3 DEF WaitInv
<1>2. CASE Tick
  <2>1. shown' = Progress(elapsed) /\ drawnAt' = elapsed /\ elapsed' = elapsed /\ ~away /\ ~away'
    BY <1>2 DEF Tick, Applied
  <2>2. PICK i \in Stage : Active(i, elapsed)
    BY DEF WaitInv, DrawInv, AtWork
  <2>3. shown' \in [index : Stage, status : {"active", "done"}, percent : 0..MaxPercent, overtime : BOOLEAN]
    BY <1>t, <2>1, <2>2, ProgressIs
  <2>4. leaving' \in [Stage -> {Off} \cup 1..LeaveTimeout]
    <3>1. LeaveTimeout \in 1..LeaveTimeout
      BY Lengths, Pace
    <3> QED BY <1>2, <1>t, <3>1 DEF Tick
  <2>5. WaitTypeOK'
    <3>1. elapsed' \in 0..MaxElapsed /\ drawnAt' \in 0..elapsed'
      BY <1>t, <2>1, Lengths
    <3>2. away' \in BOOLEAN
      BY <1>2 DEF Tick, WaitInv, WaitTypeOK
    <3> QED BY <2>3, <2>4, <3>1, <3>2 DEF WaitTypeOK
  <2>6. DrawInv'
    BY <1>t, <2>1, Lengths DEF WaitInv, DrawInv
  <2>7. FadeInv'
    <3>1. CASE shown.index = Progress(elapsed).index
      BY <1>2, <2>1, <3>1 DEF Tick, WaitInv, FadeInv
    <3>2. CASE shown.index # Progress(elapsed).index
      <4> DEFINE j == shown.index
      <4>1. /\ shown'.index = j + 1
            /\ Start[j + 1] + Beat <= elapsed /\ elapsed <= Start[j + 1] + Beat + Gap
        BY <1>t, <2>1, <3>2, DrawsFollow DEF WaitInv, DrawInv
      <4>2. ASSUME NEW k \in Stage, leaving[k] # Off
            PROVE  FALSE
        <5>1. k = j - 1 /\ elapsed + leaving[k] <= Start[j] + Beat + Gap + LeaveTimeout
          <6>1. k = j - 1 /\ elapsed + leaving[k] <= Start[k + 1] + Beat + Gap + LeaveTimeout
            BY <4>2 DEF WaitInv, FadeInv
          <6>2. j \in Int
            BY <1>t, Lengths DEF Stage
          <6> QED BY <6>1, <6>2
        <5>2. j \in Stage /\ j + 1 \in Stage
          BY <1>t, <2>3, <4>1
        <5>3. Start[j] + LeaveTimeout + Gap <= Start[j + 1]
          BY <5>2, Lengths, Pace DEF Stage
        <5>4. leaving[k] \in Nat /\ leaving[k] > 0
          BY <1>t, <4>2, Lengths
        <5>5. Start[j] \in Nat /\ Start[j + 1] \in Nat /\ j \in Int /\ (j - 1) + 1 = j
          BY <5>2, Lengths DEF Stage
        <5>6. elapsed + leaving[k] <= Start[j] + Beat + Gap + LeaveTimeout
          BY <5>1, <5>5
        <5> QED BY <1>t, <4>1, <5>3, <5>4, <5>5, <5>6, Lengths
      <4>3. leaving' = [leaving EXCEPT ![j] = LeaveTimeout]
        BY <1>2, <3>2 DEF Tick
      <4> SUFFICES ASSUME NEW k \in Stage, leaving'[k] # Off
                   PROVE  /\ ~away' /\ k = shown'.index - 1
                          /\ elapsed' + leaving'[k] <= Start[k + 1] + Beat + Gap + LeaveTimeout
        BY DEF FadeInv
      <4>4. k = j /\ leaving'[k] = LeaveTimeout
        <5>1. k # j => leaving'[k] = leaving[k]
          BY <1>t, <4>3
        <5> QED BY <1>t, <4>2, <4>3, <5>1
      <4>5. Start[j + 1] \in Nat /\ j \in Nat
        BY <1>t, <2>3, <4>1, Lengths DEF Stage
      <4>6. j = shown'.index - 1
        BY <4>1, <4>5
      <4>7. elapsed' + LeaveTimeout <= Start[j + 1] + Beat + Gap + LeaveTimeout
        BY <1>t, <2>1, <4>1, <4>5, Lengths
      <4> QED BY <2>1, <4>4, <4>6, <4>7
    <3> QED BY <3>1, <3>2
  <2> QED BY <2>5, <2>6, <2>7 DEF WaitInv
<1>3. CASE OpenHelp
  BY <1>3, <1>t DEF OpenHelp, WaitInv, WaitTypeOK, DrawInv, FadeInv
<1>4. CASE LeaveHelp
  <2>1. PICK i \in Stage : Active(i, elapsed)
    BY DEF WaitInv, DrawInv, AtWork
  <2>2. Progress(elapsed) \in [index : Stage, status : {"active", "done"}, percent : 0..MaxPercent, overtime : BOOLEAN]
    BY <1>t, <2>1, ProgressIs
  <2>3. \A k \in Stage : leaving[k] = Off
    BY <1>4 DEF LeaveHelp, WaitInv, FadeInv
  <2>4. WaitTypeOK'
    <3>1. elapsed' \in 0..MaxElapsed /\ drawnAt' \in 0..elapsed'
      BY <1>4, <1>t, Lengths DEF LeaveHelp
    <3>2. away' \in BOOLEAN
      BY <1>4 DEF LeaveHelp
    <3> QED BY <1>4, <1>t, <2>2, <3>1, <3>2 DEF LeaveHelp, WaitTypeOK
  <2>5. DrawInv'
    BY <1>4, <1>t, Lengths DEF LeaveHelp, WaitInv, DrawInv
  <2>6. FadeInv'
    BY <1>4, <2>3 DEF LeaveHelp, FadeInv
  <2> QED BY <2>4, <2>5, <2>6 DEF WaitInv
<1>5. CASE \E i \in Stage : AnimationEnd(i)
  <2>1. PICK i \in Stage : AnimationEnd(i)
    BY <1>5
  <2> QED BY <2>1, <1>t DEF AnimationEnd, WaitInv, WaitTypeOK, DrawInv, FadeInv
<1>6. CASE UNCHANGED waitVars
  BY <1>6 DEF waitVars, WaitInv, WaitTypeOK, DrawInv, FadeInv
<1> QED BY <1>1, <1>2, <1>3, <1>4, <1>5, <1>6 DEF WaitNext

\* Every reachable state of a wait has the strengthened invariant.
THEOREM WaitInvariant == WaitSafety => []WaitInv
  BY WaitInitially, WaitStep, PTL DEF WaitSafety

\* Type correctness of WaitStages.
THEOREM WaitTypes == WaitSafety => []WaitTypeOK
  BY WaitInvariant, PTL DEF WaitInv

\* At most one step fades over the one on screen, and it is the one before:
\* swapStep in waitView.ts never piles nodes up.
THEOREM OneFades == WaitSafety => []OneStepFades
<1>1. WaitInv => OneStepFades
  BY DEF WaitInv, FadeInv, OneStepFades
<1> QED BY <1>1, WaitInvariant, PTL

\* What the screen says of the work is behind it by a draw at most and never
\* ahead of it.
THEOREM ScreenNeverAhead == WaitSafety => []NeverAhead
<1>1. WaitInv => NeverAhead
  <2> SUFFICES ASSUME WaitInv, ~away PROVE NeverAhead
    BY DEF NeverAhead
  <2>1. elapsed \in Nat /\ drawnAt \in Nat /\ drawnAt <= elapsed /\ elapsed - drawnAt <= Gap
    BY Lengths DEF WaitInv, WaitTypeOK, DrawInv
  <2>2. PICK i \in Stage : Active(i, drawnAt)
    BY DEF WaitInv, DrawInv, AtWork
  <2>3. \/ i > 0 /\ drawnAt < Start[i] + Beat /\ shown.index = i - 1 /\ shown.status = "done"
        \/ (i = 0 \/ Start[i] + Beat <= drawnAt) /\ shown.index = i /\ shown.status = "active"
    BY <2>1, <2>2, ProgressIs DEF WaitInv, DrawInv
  <2>4. Start[i] <= drawnAt /\ (i < Last => drawnAt < Start[i + 1])
    BY <2>1, <2>2, ActiveUntil
  <2>5. shown.overtime = (drawnAt > Measured)
    BY DEF WaitInv, DrawInv, Progress
  <2>6. drawnAt > Measured => i = Last /\ Start[i] + Beat <= drawnAt
    <3>1. ASSUME drawnAt > Measured, i < Last PROVE FALSE
      <4>1. i + 1 \in Stage /\ Last \in Stage /\ (i + 1 = Last \/ i + 1 < Last)
        BY <3>1, Lengths DEF Stage
      <4>2. Start[i + 1] <= Start[Last]
        BY <4>1, Lengths, Pace DEF Stage
      <4> QED BY <2>1, <2>4, <3>1, <4>1, <4>2, Lengths, Pace
    <3> QED BY <2>1, <3>1, Lengths, Pace DEF Stage
  <2>7. Start[i] \in Nat /\ i \in Nat /\ i <= Last /\ (i < Last => Start[i + 1] \in Nat)
    BY Lengths DEF Stage
  <2>8. CASE i > 0 /\ drawnAt < Start[i] + Beat /\ shown.index = i - 1 /\ shown.status = "done"
    <3>1. shown.index < Last /\ Start[shown.index + 1] <= elapsed /\ elapsed - drawnAt <= Gap
      BY <2>1, <2>4, <2>7, <2>8, Lengths
    <3>2. ~shown.overtime
      <4>1. ~(drawnAt > Measured)
        BY <2>1, <2>6, <2>7, <2>8, Lengths
      <4> QED BY <2>5, <4>1
    <3> QED BY <2>8, <3>1, <3>2 DEF NeverAhead
  <2>9. CASE (i = 0 \/ Start[i] + Beat <= drawnAt) /\ shown.index = i /\ shown.status = "active"
    <3>1. /\ shown.index > 0 => Start[shown.index] + Beat <= elapsed
          /\ shown.index < Last => elapsed < Start[shown.index + 1] + Gap
      BY <2>1, <2>4, <2>7, <2>9, Lengths
    <3>2. shown.overtime => shown.index = Last
      BY <2>5, <2>6, <2>9
    <3> QED BY <2>1, <2>9, <3>1, <3>2 DEF NeverAhead
  <2> QED BY <2>3, <2>8, <2>9
<1> QED BY <1>1, WaitInvariant, PTL

\* While she watches, a step gives way to its successor only, and only once it
\* wears its check: the held beat of buildWaitProgress outlasts the ticker.
THEOREM EveryStepMarked == WaitSafety => StepsAreMarked
<1>1. WaitInv /\ [WaitNext]_waitVars =>
        [~away /\ ~away' /\ shown'.index # shown.index =>
           shown.status = "done" /\ shown'.index = shown.index + 1]_waitVars
  <2> SUFFICES ASSUME WaitInv, WaitNext, ~away, ~away', shown'.index # shown.index
               PROVE  shown.status = "done" /\ shown'.index = shown.index + 1
    OBVIOUS
  <2>1. Tick
    BY DEF WaitNext, Pass, OpenHelp, LeaveHelp, AnimationEnd
  <2>2. elapsed \in Nat /\ drawnAt \in Nat /\ drawnAt <= elapsed
    BY Lengths DEF WaitInv, WaitTypeOK
  <2>3. shown' = Progress(elapsed) /\ shown = Progress(drawnAt)
    BY <2>1 DEF Tick, Applied, WaitInv, DrawInv
  <2> QED BY <2>2, <2>3, DrawsFollow DEF WaitInv, DrawInv
<1> QED BY <1>1, WaitInvariant, PTL DEF WaitSafety, StepsAreMarked

----------------------------------------------------------------------------
(***************************************************************************)
(* The password, with one tab on the app: with two, each may draw one and  *)
(* seal the attestation under its own.                                     *)
(***************************************************************************)
OneTab == \A s, t \in Tab : s = t

\* What a storage that works keeps: one password, drawn once, that sealed what
\* is sealed.
KeptInv ==
  mode = "works" =>
    /\ sealed # 0 => sealed = stored
    /\ \A t \in Tab :
         /\ tab[t] = "generated" => stored = 0 /\ drawn[t] # 0
         /\ tab[t] = "given" => given[t] = stored /\ stored # 0
         /\ given[t] \in {0, stored} /\ steady[t]
         /\ opened[t] # "unreadable"

LEMMA StoreInitially == Store!Init => Store!TypeOK /\ KeptInv
  BY PartsAssumption DEF Store!Init, KeptInv, Store!TypeOK, Store!StoreAssumption

LEMMA StoreTypes == Store!TypeOK /\ [Store!Next]_storeVars => Store!TypeOK'
<1> SUFFICES ASSUME Store!TypeOK, [Store!Next]_storeVars PROVE Store!TypeOK'
  OBVIOUS
<1> USE PartsAssumption DEF Store!StoreAssumption, Store!TypeOK
<1>1. ASSUME NEW t \in Tab, NEW why \in {"write", "read"}, Store!ReadPassword(t, why) PROVE Store!TypeOK'
  <2>1. Store!Existing \in 0..MaxDraws
    BY DEF Store!Existing
  <2>2. CASE Store!Existing # 0
    BY <1>1, <2>1, <2>2 DEF Store!ReadPassword, Store!Returns
  <2>3. CASE Store!Existing = 0
    BY <1>1, <2>3 DEF Store!ReadPassword
  <2> QED BY <2>2, <2>3
<1>2. ASSUME NEW t \in Tab, Store!KeepPassword(t) PROVE Store!TypeOK'
  BY <1>2 DEF Store!KeepPassword, Store!Returns
<1>3. ASSUME NEW t \in Tab, Store!Use(t) PROVE Store!TypeOK'
  BY <1>3 DEF Store!Use
<1>4. ASSUME NEW t \in Tab, Store!LoadPage(t) PROVE Store!TypeOK'
  BY <1>4 DEF Store!LoadPage
<1>5. CASE UNCHANGED storeVars
  BY <1>5 DEF storeVars
<1> QED BY <1>1, <1>2, <1>3, <1>4, <1>5 DEF Store!Next

\* Another tab could keep a password of its own between a tab's read and its write.
LEMMA KeptStep ==
  ASSUME OneTab, Store!TypeOK, KeptInv, [Store!Next]_storeVars
  PROVE  KeptInv'
<1> SUFFICES ASSUME mode' = "works" PROVE KeptInv'
  BY DEF KeptInv
<1> USE DEF Store!TypeOK, OneTab, KeptInv
<1>1. ASSUME NEW t \in Tab, NEW why \in {"write", "read"}, Store!ReadPassword(t, why) PROVE KeptInv'
  <2>1. mode = "works" /\ Store!Existing = stored
    BY <1>1 DEF Store!ReadPassword, Store!Existing
  <2>2. CASE stored # 0
    BY <1>1, <2>1, <2>2 DEF Store!ReadPassword, Store!Returns
  <2>3. CASE stored = 0
    BY <1>1, <2>1, <2>3 DEF Store!ReadPassword
  <2> QED BY <2>2, <2>3
<1>2. ASSUME NEW t \in Tab, Store!KeepPassword(t) PROVE KeptInv'
  BY <1>2 DEF Store!KeepPassword, Store!Returns
<1>3. ASSUME NEW t \in Tab, Store!Use(t) PROVE KeptInv'
  BY <1>3 DEF Store!Use
<1>4. ASSUME NEW t \in Tab, Store!LoadPage(t) PROVE KeptInv'
  BY <1>4 DEF Store!LoadPage
<1>5. CASE UNCHANGED storeVars
  BY <1>5 DEF storeVars
<1> QED BY <1>1, <1>2, <1>3, <1>4, <1>5 DEF Store!Next

----------------------------------------------------------------------------
(***************************************************************************)
(* The service worker, for any number of requests and deployments.         *)
(***************************************************************************)
\* What is cached was a good answer, and so is what is on its way there; a
\* worker that is past its install has the page.
ShellInv ==
  /\ \A a \in Worker!Asset : cache[a] = Worker!Nothing \/ cache[a].ok
  /\ \A r \in Request : put[r] = Worker!Nothing \/ put[r].ok
  /\ worker \in {"installed", "active"} => cache["index"] # Worker!Nothing

LEMMA WorkerInitially == Worker!Init => Worker!TypeOK /\ ShellInv
  BY PartsAssumption
     DEF Worker!Init, ShellInv, Worker!TypeOK, Worker!WorkerAssumption, Worker!Asset, Worker!Kind,
         Worker!Nothing, Worker!Response

LEMMA ResponseTypes ==
  ASSUME Worker!TypeOK
  PROVE  /\ Worker!Nothing \in Worker!Response
         /\ \A k \in Worker!Kind : /\ Worker!Served(k) \in Worker!Response
                                   /\ Worker!Served(k) # Worker!Nothing
                                   /\ Worker!Keep(Worker!Served(k)) \in Worker!Response
  BY PartsAssumption
     DEF Worker!TypeOK, Worker!WorkerAssumption, Worker!Kind, Worker!Nothing, Worker!Response,
         Worker!Served, Worker!Keep

LEMMA WorkerTypes == Worker!TypeOK /\ [Worker!Next]_workerVars => Worker!TypeOK'
<1> SUFFICES ASSUME Worker!TypeOK, [Worker!Next]_workerVars PROVE Worker!TypeOK'
  OBVIOUS
<1> USE PartsAssumption, ResponseTypes DEF Worker!WorkerAssumption, Worker!TypeOK
<1>1. CASE Worker!Register \/ Worker!Activate
  BY <1>1 DEF Worker!Register, Worker!Activate, Worker!siteVars, Worker!requestVars
<1>2. CASE Worker!Install
  <2>1. /\ "page" \in Worker!Kind /\ "manifest" \in Worker!Kind
        /\ Worker!Asset = {"index", "manifest"}
    BY DEF Worker!Kind, Worker!Asset
  <2>2. [index |-> Worker!Served("page"), manifest |-> Worker!Served("manifest")] \in [Worker!Asset -> Worker!Response]
    BY <2>1
  <2> QED BY <1>2, <2>2 DEF Worker!Install, Worker!siteVars, Worker!requestVars
<1>3. CASE Worker!SiteChanges
  BY <1>3 DEF Worker!SiteChanges, Worker!workerVars, Worker!requestVars
<1>4. ASSUME NEW r \in Request, NEW k \in Worker!Kind, Worker!Ask(r, k) PROVE Worker!TypeOK'
  BY <1>4 DEF Worker!Ask, Worker!workerVars, Worker!siteVars
<1>5. ASSUME NEW r \in Request, NEW reply \in Worker!Response, NEW kept \in Worker!Response,
             Worker!Answer(r, reply, kept)
      PROVE  Worker!TypeOK'
  BY <1>5 DEF Worker!Answer, Worker!workerVars, Worker!siteVars
<1>6. ASSUME NEW r \in Request, Worker!NavigateOnline(r) \/ Worker!NavigateOffline(r)
      PROVE  Worker!TypeOK'
  <2>1. cache["index"] \in Worker!Response /\ kind[r] \in Worker!Kind
    BY DEF Worker!Asset
  <2> QED BY <1>5, <1>6, <2>1 DEF Worker!NavigateOnline, Worker!NavigateOffline
<1>7. ASSUME NEW r \in Request, Worker!ShellAsset(r) PROVE Worker!TypeOK'
  <2>1. cache["manifest"] \in Worker!Response /\ "manifest" \in Worker!Kind
    BY DEF Worker!Asset, Worker!Kind
  <2> QED BY <1>5, <1>7, <2>1 DEF Worker!ShellAsset
<1>8. ASSUME NEW r \in Request, Worker!PassThrough(r) PROVE Worker!TypeOK'
  <2>1. kind[r] \in Worker!Kind
    OBVIOUS
  <2> QED BY <1>5, <1>8, <2>1 DEF Worker!PassThrough
<1>9. ASSUME NEW r \in Request, Worker!PutLands(r) \/ Worker!PutLost(r) \/ Worker!Again(r) PROVE Worker!TypeOK'
  BY <1>9 DEF Worker!PutLands, Worker!PutLost, Worker!Again, Worker!workerVars, Worker!siteVars, Worker!Asset
<1>10. CASE UNCHANGED workerVars
  BY <1>10 DEF workerVars
<1> QED
  BY <1>1, <1>2, <1>3, <1>4, <1>6, <1>7, <1>8, <1>9, <1>10 DEF Worker!Next

LEMMA ShellStep ==
  ASSUME Worker!TypeOK, ShellInv, [Worker!Next]_workerVars
  PROVE  ShellInv'
<1> USE DEF Worker!TypeOK, ShellInv
<1>1. CASE Worker!Register \/ Worker!Activate \/ Worker!SiteChanges
  BY <1>1 DEF Worker!Register, Worker!Activate, Worker!SiteChanges, Worker!siteVars,
              Worker!workerVars, Worker!requestVars
<1>2. CASE Worker!Install
  <2>1. Worker!Served("page") # Worker!Nothing /\ (Worker!Installable => Worker!Served("page").ok /\ Worker!Served("manifest").ok)
    BY DEF Worker!Served, Worker!Nothing, Worker!Installable
  <2> QED BY <1>2, <2>1 DEF Worker!Install, Worker!Asset, Worker!siteVars, Worker!requestVars
<1>3. ASSUME NEW r \in Request, NEW reply, NEW kept,
             Worker!Answer(r, reply, kept), kept = Worker!Nothing \/ kept.ok
      PROVE  ShellInv'
  BY <1>3 DEF Worker!Answer, Worker!workerVars, Worker!siteVars
<1>4. \A reply : Worker!Keep(reply) = Worker!Nothing \/ Worker!Keep(reply).ok
  BY DEF Worker!Keep
<1>5. ASSUME NEW r \in Request,
             \/ Worker!NavigateOnline(r) \/ Worker!NavigateOffline(r)
             \/ Worker!ShellAsset(r) \/ Worker!PassThrough(r)
      PROVE  ShellInv'
  BY <1>3, <1>4, <1>5 DEF Worker!NavigateOnline, Worker!NavigateOffline, Worker!ShellAsset, Worker!PassThrough
<1>6. ASSUME NEW r \in Request, Worker!PutLands(r) \/ Worker!PutLost(r) PROVE ShellInv'
  BY <1>6 DEF Worker!PutLands, Worker!PutLost, Worker!Asset, Worker!workerVars, Worker!siteVars
<1>7. ASSUME NEW r \in Request, NEW k, Worker!Ask(r, k) \/ Worker!Again(r) PROVE ShellInv'
  BY <1>7 DEF Worker!Ask, Worker!Again, Worker!workerVars, Worker!siteVars
<1>8. CASE UNCHANGED workerVars
  BY <1>8 DEF workerVars
<1> QED
  BY <1>1, <1>2, <1>5, <1>6, <1>7, <1>8 DEF Worker!Next

----------------------------------------------------------------------------
(***************************************************************************)
(* The composition.                                                        *)
(***************************************************************************)
LEMMA PartsInitially == BrowserInit => Init /\ WaitInit /\ Store!Init /\ Worker!Init
  BY DEF BrowserInit

LEMMA PartsStep ==
  [BrowserNext]_browserVars =>
    [Next]_vars /\ [WaitNext]_waitVars /\ [Store!Next]_storeVars /\ [Worker!Next]_workerVars
<1>1. CASE PortMoves
  BY <1>1 DEF PortMoves
<1>2. CASE WaitMoves
  BY <1>2 DEF WaitMoves
<1>3. CASE StoreMoves
  BY <1>3 DEF StoreMoves
<1>4. CASE WorkerMoves
  BY <1>4 DEF WorkerMoves
<1>5. CASE UNCHANGED browserVars
  BY <1>5 DEF browserVars
<1> QED BY <1>1, <1>2, <1>3, <1>4, <1>5 DEF BrowserNext

\* Seen through its own variables, each part of Browser behaves as its module
\* says: nothing that is proved of the ports or of the wait alone is lost there.
THEOREM PartsBehaveAsAlone == BrowserSafety => Safety /\ WaitSafety
  BY PartsInitially, PartsStep, PTL DEF BrowserSafety, Safety, WaitSafety

LEMMA StoreBehaves == BrowserSafety => []Store!TypeOK /\ (OneTab => []KeptInv)
<1>1. Store!TypeOK /\ [BrowserNext]_browserVars => Store!TypeOK'
  BY PartsStep, StoreTypes
<1>2. OneTab /\ Store!TypeOK /\ KeptInv /\ [BrowserNext]_browserVars => KeptInv'
  BY PartsStep, KeptStep
<1>3. BrowserInit => Store!TypeOK /\ KeptInv
  BY PartsInitially, StoreInitially
<1>4. BrowserSafety => []Store!TypeOK
  BY <1>1, <1>3, PTL DEF BrowserSafety
<1>5. ASSUME OneTab PROVE BrowserSafety => []KeptInv
  <2>1. Store!TypeOK /\ KeptInv /\ [BrowserNext]_browserVars => KeptInv'
    BY <1>2, <1>5
  <2> QED BY <2>1, <1>3, <1>4, PTL DEF BrowserSafety
<1> QED BY <1>4, <1>5

LEMMA WorkerBehaves == BrowserSafety => [](Worker!TypeOK /\ ShellInv)
<1>1. Worker!TypeOK /\ ShellInv /\ [BrowserNext]_browserVars => Worker!TypeOK' /\ ShellInv'
  BY PartsStep, WorkerTypes, ShellStep
<1>2. BrowserInit => Worker!TypeOK /\ ShellInv
  BY PartsInitially, WorkerInitially
<1> QED BY <1>1, <1>2, PTL DEF BrowserSafety

\* The variables of the four parts keep their types, whatever the world, the
\* storage and the site do.
THEOREM PartsTypeCorrect == BrowserSafety => []PartsTypeOK
<1>1. TypeOK /\ WaitTypeOK /\ Store!TypeOK /\ Worker!TypeOK => PartsTypeOK
  BY DEF PartsTypeOK
<1> QED
  BY <1>1, PartsBehaveAsAlone, LaceTypeCorrect, WaitTypes, StoreBehaves, WorkerBehaves, PTL

\* With one tab on the app, what was written under the store's password is read
\* after any number of loads, wherever a load interrupts it (identityStore.ts);
\* and an active worker has a page to fall back on, and keeps no failed answer,
\* in whatever order the puts that nobody awaits land (sw.js).
THEOREM WhatIsKeptStays == OneTab => (BrowserSafety => []WhatIsKeptIsThere)
<1>1. KeptInv /\ ShellInv => WhatIsKeptIsThere
  BY DEF KeptInv, ShellInv, WhatIsKeptIsThere, Store!ReadableAfterReload, Worker!OfflineFallback,
         Worker!NoErrorKept
<1> SUFFICES ASSUME OneTab PROVE BrowserSafety => []WhatIsKeptIsThere
  OBVIOUS
<1>2. BrowserSafety => []KeptInv
  BY StoreBehaves
<1> QED BY <1>1, <1>2, WorkerBehaves, PTL

\* With one tab and a storage that works, every call of the password provider in
\* a page load returns the same password, and it is the one that was kept: the
\* comments of identityStore.ts:43 and :63, which two tabs or a storage that
\* refuses the value make untrue.
THEOREM OnePasswordIsKept ==
  OneTab => (BrowserSafety =>
    [](mode = "works" => Store!GoodForThisPageLoad /\ Store!ReturnedIsKept))
<1>1. KeptInv => (mode = "works" => Store!GoodForThisPageLoad /\ Store!ReturnedIsKept)
  BY DEF KeptInv, Store!GoodForThisPageLoad, Store!ReturnedIsKept
<1> SUFFICES ASSUME OneTab
             PROVE  BrowserSafety =>
                      [](mode = "works" => Store!GoodForThisPageLoad /\ Store!ReturnedIsKept)
  OBVIOUS
<1>2. BrowserSafety => []KeptInv
  BY StoreBehaves
<1> QED BY <1>1, <1>2, PTL
============================================================================
