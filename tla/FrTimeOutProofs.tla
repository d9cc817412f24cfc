---------------------------- MODULE FrTimeOutProofs ---------------------------
(***************************************************************************)
(* Theorems about block times and periods, for any width of the tick count *)
(* and of the count of its overflows, any times, and tasks that run late;  *)
(* about heap_4.c, for a heap and blocks of any sizes; and about list.c,   *)
(* for any items and values.                                               *)
(***************************************************************************)
EXTENDS FrTimeOut, FrHeap4, FrList, FiniteSetTheorems, WellFoundedInduction, TLAPS

\* A call that waits has a time to wait, a periodic task a period; and what a task waits
\* and is late together is no more than a cycle of the tick count.
TimeOutAssumption ==
  /\ TickMod \in Nat \ {0} /\ OverflowMod \in Nat \ {0, 1}
  /\ BlockTimes \subseteq 1 .. TickMod - 1 /\ Increments \subseteq 1 .. TickMod - 1
  /\ MaxLate \in 0 .. TickMod - 1
  /\ \A wait \in BlockTimes \ {Forever} : wait + MaxLate <= TickMod

\* The ticks since the time-out state was set, if the call has a time.
InCall == pc \in {"asleep", "awake"}
Timed  == InCall /\ pxTicksToWait # Forever
Since  == pxTicksToWait - remaining

\* The two counts tell how many these are, up to a whole cycle: the tick count has not
\* wrapped, or has once, and then the count of overflows differs.
CountsTell ==
  \/ /\ xTickCount = pxTimeOut.xTimeOnEntering + Since
     /\ xNumOfOverflows = pxTimeOut.xOverflowCount
  \/ /\ xTickCount = pxTimeOut.xTimeOnEntering + Since - TickMod
     /\ xNumOfOverflows = (pxTimeOut.xOverflowCount + 1) % OverflowMod
CallRight ==
  /\ InCall => pxTicksToWait > 0
  /\ Timed => /\ remaining \in Int /\ remaining >= -MaxLate
              /\ Since >= 0 /\ pxTicksToWait + MaxLate <= TickMod
              /\ CountsTell
  /\ pc = "asleep" /\ pxTicksToWait # Forever => remaining > 0
  /\ pc = "expired" => remaining \in Int /\ remaining <= 0

\* The wake time is nextWake ticks from now, or was.
PeriodRight ==
  /\ nextWake \in Int /\ nextWake >= -MaxLate /\ nextWake < TickMod
  /\ xTickCount + nextWake \in
       {pxPreviousWakeTime, pxPreviousWakeTime + TickMod, pxPreviousWakeTime - TickMod}
  /\ PeriodKept
TimeOutInv == TimeOutTypeOK /\ CallRight /\ PeriodRight

\* Counting modulo the width of a count.
LEMMA ModFacts ==
  ASSUME NEW m \in Nat \ {0}, NEW i \in Int
  PROVE  /\ i % m \in 0 .. m - 1
         /\ i \in 0 .. m - 1 => i % m = i
         /\ i \in m .. 2 * m - 1 => i % m = i - m
         /\ i \in -m .. -1 => i % m = i + m
  OBVIOUS

LEMMA NextOverflow ==
  ASSUME NEW m \in Nat \ {0, 1}, NEW i \in 0 .. m - 1
  PROVE  (i + 1) % m # i /\ (i + 1) % m \in 0 .. m - 1
  OBVIOUS

\* xTaskCheckForTimeOut() finds the ticks since, or knows them to be too many.
LEMMA ElapsedFacts ==
  ASSUME TimeOutAssumption, TimeOutInv, Timed
  PROVE  /\ Since \in 0 .. TickMod
         /\ Since < TickMod => ElapsedTime = Since /\ ~BeyondCycle
         /\ Since = TickMod => ElapsedTime = 0 /\ BeyondCycle
  <1>. DEFINE n == Since
              at == pxTimeOut.xTimeOnEntering
  <1>1. /\ TickMod \in Nat \ {0} /\ pxTicksToWait \in 0 .. TickMod - 1
        /\ remaining \in Int /\ remaining >= -MaxLate /\ MaxLate \in Nat
        /\ n >= 0 /\ pxTicksToWait + MaxLate <= TickMod
        /\ xTickCount \in 0 .. TickMod - 1 /\ at \in 0 .. TickMod - 1
        /\ n = pxTicksToWait - remaining
    BY DEF TimeOutAssumption, TimeOutInv, TimeOutTypeOK, CallRight, Since
  <1>2. /\ n \in Int /\ n \in 0 .. TickMod
    BY <1>1
  <1>3. \/ xTickCount = at + n /\ xNumOfOverflows = pxTimeOut.xOverflowCount
        \/ xTickCount = at + n - TickMod /\ xNumOfOverflows # pxTimeOut.xOverflowCount
    <2>1. pxTimeOut.xOverflowCount \in 0 .. OverflowMod - 1 /\ OverflowMod \in Nat \ {0, 1}
      BY DEF TimeOutAssumption, TimeOutInv, TimeOutTypeOK
    <2>. QED
      BY <2>1, NextOverflow DEF TimeOutInv, CallRight, CountsTell
  <1>. HIDE DEF n, at
  <1>4. CASE xTickCount = at + n /\ xNumOfOverflows = pxTimeOut.xOverflowCount
    <2>1. xTickCount - at = n /\ n \in 0 .. TickMod - 1
      BY <1>1, <1>2, <1>4
    <2>2. n % TickMod = n
      BY <1>1, <1>2, <2>1, ModFacts
    <2>. QED
      BY <1>1, <1>2, <1>4, <2>1, <2>2 DEF ElapsedTime, BeyondCycle, n, at
  <1>5. CASE xTickCount = at + n - TickMod /\ xNumOfOverflows # pxTimeOut.xOverflowCount
    <2>1. xTickCount - at = n - TickMod /\ n - TickMod \in -TickMod .. 0 /\ n - TickMod \in Int
      BY <1>1, <1>2, <1>5
    <2>2. (n - TickMod) % TickMod = IF n = TickMod THEN 0 ELSE n
      <3>1. PICK i \in Int : i = n - TickMod
        BY <2>1
      <3>2. /\ i \in 0 .. TickMod - 1 => i % TickMod = i
            /\ i \in -TickMod .. -1 => i % TickMod = i + TickMod
        BY <1>1, ModFacts
      <3>3. CASE n = TickMod
        BY <1>1, <3>1, <3>2, <3>3
      <3>4. CASE n # TickMod
        BY <1>1, <1>2, <2>1, <3>1, <3>2, <3>4
      <3>. QED
        BY <3>3, <3>4
    <2>3. (xTickCount >= at) <=> (n = TickMod)
      BY <1>1, <1>2, <1>5
    <2>. QED
      BY <1>1, <1>2, <1>5, <2>1, <2>2, <2>3 DEF ElapsedTime, BeyondCycle, n, at
  <1>. QED
    BY <1>3, <1>4, <1>5

LEMMA TimeOutInvInit ==
  ASSUME TimeOutAssumption, TimeOutInit
  PROVE  TimeOutInv
  <1>1. TickMod \in Nat \ {0} /\ OverflowMod \in Nat \ {0, 1} /\ MaxLate \in Nat
    BY DEF TimeOutAssumption
  <1>2. /\ xTickCount = 0 /\ xNumOfOverflows = 0 /\ pc = "idle" /\ pxTicksToWait = 0
        /\ pxTimeOut = [xOverflowCount |-> 0, xTimeOnEntering |-> 0] /\ ucDelayAborted = FALSE
        /\ pxPreviousWakeTime = 0 /\ xTicksToDelay = 0 /\ nextWake = 0
    BY DEF TimeOutInit
  <1>3. TimeOutTypeOK
    <2>1. 0 \in 0 .. TickMod - 1 /\ 0 \in 0 .. OverflowMod - 1
      BY <1>1
    <2>. QED
      BY <1>2, <2>1 DEF TimeOutTypeOK
  <1>4. CallRight
    BY <1>2 DEF CallRight, InCall, Timed
  <1>5. PeriodRight
    BY <1>1, <1>2 DEF PeriodRight, PeriodKept
  <1>. QED
    BY <1>3, <1>4, <1>5 DEF TimeOutInv

\* What a step of the call leaves alone.
LEMMA PeriodStays ==
  ASSUME PeriodRight, UNCHANGED <<clock, periodVars>>
  PROVE  PeriodRight'
  BY DEF PeriodRight, PeriodKept, clock, periodVars
LEMMA CallStays ==
  ASSUME CallRight, UNCHANGED <<clock, callVars>>
  PROVE  CallRight'
  BY DEF CallRight, InCall, Timed, Since, CountsTell, clock, callVars

LEMMA BeginCallKeeps ==
  ASSUME TimeOutAssumption, TimeOutInv, NEW wait \in BlockTimes, BeginCall(wait)
  PROVE  TimeOutInv'
  <1>1. /\ TickMod \in Nat \ {0} /\ wait \in 1 .. TickMod - 1 /\ MaxLate \in Nat
        /\ wait # Forever => wait + MaxLate <= TickMod
    BY DEF TimeOutAssumption
  <1>2. /\ pxTimeOut' = [xOverflowCount |-> xNumOfOverflows, xTimeOnEntering |-> xTickCount]
        /\ pxTicksToWait' = wait /\ remaining' = wait /\ pc' = "asleep"
        /\ UNCHANGED <<clock, periodVars, ucDelayAborted, xTickCount, xNumOfOverflows>>
    BY DEF BeginCall, SetTimeOutState, clock
  <1>3. TimeOutTypeOK'
    BY <1>1, <1>2 DEF TimeOutInv, TimeOutTypeOK, periodVars
  <1>4. CountsTell'
    BY <1>1, <1>2 DEF CountsTell, Since, TimeOutInv, TimeOutTypeOK
  <1>5. CallRight'
    BY <1>1, <1>2, <1>4 DEF CallRight, InCall, Timed, Since, Forever
  <1>. QED
    BY <1>2, <1>3, <1>5, PeriodStays DEF TimeOutInv

LEMMA WakeKeeps ==
  ASSUME TimeOutInv, NEW aborted \in BOOLEAN, Wake(aborted)
  PROVE  TimeOutInv'
  <1>1. /\ pc = "asleep" /\ pc' = "awake" /\ ucDelayAborted' = aborted
        /\ UNCHANGED <<clock, periodVars, pxTimeOut, pxTicksToWait, remaining>>
    BY DEF Wake
  <1>2. TimeOutTypeOK'
    BY <1>1 DEF TimeOutInv, TimeOutTypeOK, clock, periodVars
  <1>3. CallRight'
    BY <1>1 DEF TimeOutInv, CallRight, InCall, Timed, Since, CountsTell, Forever, clock
  <1>. QED
    BY <1>1, <1>2, <1>3, PeriodStays DEF TimeOutInv

LEMMA EndCallKeeps ==
  ASSUME TimeOutAssumption, TimeOutInv, EndCall
  PROVE  TimeOutInv'
  <1>1. /\ pc' = "idle" /\ pxTicksToWait' = 0
        /\ UNCHANGED <<clock, periodVars, pxTimeOut, ucDelayAborted>>
    BY DEF EndCall
  <1>2. TimeOutTypeOK'
    BY <1>1 DEF TimeOutInv, TimeOutTypeOK, clock, periodVars, TimeOutAssumption
  <1>3. CallRight'
    BY <1>1 DEF CallRight, InCall, Timed
  <1>. QED
    BY <1>1, <1>2, <1>3, PeriodStays DEF TimeOutInv

LEMMA CheckKeeps ==
  ASSUME TimeOutAssumption, TimeOutInv, CheckForTimeOut
  PROVE  TimeOutInv'
  <1>1. /\ pc = "awake" /\ ucDelayAborted' = FALSE
        /\ UNCHANGED <<clock, periodVars, remaining, xTickCount, xNumOfOverflows>>
    BY DEF CheckForTimeOut, clock
  <1>2. CASE pc' = "aborted" /\ UNCHANGED <<pxTimeOut, pxTicksToWait>>
    <2>1. TimeOutTypeOK'
      BY <1>1, <1>2 DEF TimeOutInv, TimeOutTypeOK, periodVars
    <2>2. CallRight'
      BY <1>2 DEF CallRight, InCall, Timed
    <2>. QED
      BY <1>1, <2>1, <2>2, PeriodStays DEF TimeOutInv
  <1>3. CASE pxTicksToWait = Forever /\ pc' = "asleep" /\ UNCHANGED <<pxTimeOut, pxTicksToWait>>
    <2>1. TimeOutTypeOK'
      BY <1>1, <1>3 DEF TimeOutInv, TimeOutTypeOK, periodVars
    <2>2. CallRight'
      BY <1>1, <1>3 DEF TimeOutInv, CallRight, InCall, Timed, Forever
    <2>. QED
      BY <1>1, <2>1, <2>2, PeriodStays DEF TimeOutInv
  <1>4. ASSUME pxTicksToWait # Forever,
               IF ~BeyondCycle /\ ElapsedTime < pxTicksToWait
                 THEN /\ pxTicksToWait' = pxTicksToWait - ElapsedTime
                      /\ SetTimeOutState
                      /\ pc' = "asleep"
                 ELSE /\ pxTicksToWait' = 0
                      /\ pc' = "expired" /\ UNCHANGED pxTimeOut
        PROVE  TimeOutInv'
    <2>1. /\ Since \in 0 .. TickMod
          /\ Since < TickMod => ElapsedTime = Since /\ ~BeyondCycle
          /\ Since = TickMod => ElapsedTime = 0 /\ BeyondCycle
      BY <1>1, <1>4, ElapsedFacts DEF Timed, InCall
    <2>2. /\ TickMod \in Nat \ {0} /\ pxTicksToWait \in 1 .. TickMod - 1 /\ MaxLate \in Nat
          /\ remaining \in Int /\ remaining >= -MaxLate /\ pxTicksToWait + MaxLate <= TickMod
          /\ pxTicksToWait # TickMod - 1 /\ Since = pxTicksToWait - remaining
          /\ xTickCount \in 0 .. TickMod - 1
      BY <1>1, <1>4 DEF TimeOutAssumption, TimeOutInv, TimeOutTypeOK, CallRight, Timed, InCall,
         Since, Forever
    <2>3. CASE ~BeyondCycle /\ ElapsedTime < pxTicksToWait
      <3>1. /\ pxTicksToWait' = remaining /\ pc' = "asleep" /\ Since < TickMod
            /\ pxTimeOut' = [xOverflowCount |-> xNumOfOverflows, xTimeOnEntering |-> xTickCount]
            /\ remaining > 0 /\ remaining <= pxTicksToWait
        BY <1>4, <2>1, <2>2, <2>3 DEF SetTimeOutState
      <3>2. TimeOutTypeOK'
        <4>1. pxTicksToWait' \in 0 .. TickMod - 1
          BY <2>2, <3>1
        <4>. QED
          BY <1>1, <3>1, <4>1 DEF TimeOutInv, TimeOutTypeOK, periodVars
      <3>3. CountsTell'
        BY <1>1, <2>2, <3>1 DEF CountsTell, Since
      <3>4. CallRight'
        BY <1>1, <2>2, <3>1, <3>3 DEF CallRight, InCall, Timed, Since
      <3>. QED
        BY <1>1, <3>2, <3>4, PeriodStays DEF TimeOutInv
    <2>4. CASE ~(~BeyondCycle /\ ElapsedTime < pxTicksToWait)
      <3>1. pxTicksToWait' = 0 /\ pc' = "expired" /\ UNCHANGED pxTimeOut
        BY <1>4, <2>4
      <3>2. Since >= pxTicksToWait
        BY <2>1, <2>2, <2>4
      <3>3. remaining <= 0
        BY <2>2, <3>2
      <3>4. TimeOutTypeOK'
        <4>1. pxTicksToWait' \in 0 .. TickMod - 1
          BY <2>2, <3>1
        <4>. QED
          BY <1>1, <3>1, <4>1 DEF TimeOutInv, TimeOutTypeOK, periodVars
      <3>5. CallRight'
        BY <1>1, <2>2, <3>1, <3>3 DEF CallRight, InCall, Timed
      <3>. QED
        BY <1>1, <3>4, <3>5, PeriodStays DEF TimeOutInv
    <2>. QED
      BY <2>3, <2>4
  <1>. QED
    BY <1>1, <1>2, <1>3, <1>4 DEF CheckForTimeOut

\* The wake time, as a number, lies increment ticks after the one before, up to a wrap,
\* and the task sleeps until then if it is not late by more.
LEMMA DelayUntilKeeps ==
  ASSUME TimeOutAssumption, TimeOutInv, NEW increment \in Increments, DelayUntil(increment)
  PROVE  TimeOutInv'
  <1>. DEFINE wake == (pxPreviousWakeTime + increment) % TickMod
  <1>1. /\ TickMod \in Nat \ {0} /\ increment \in 1 .. TickMod - 1 /\ MaxLate \in 0 .. TickMod - 1
        /\ xTickCount \in 0 .. TickMod - 1 /\ pxPreviousWakeTime \in 0 .. TickMod - 1
        /\ nextWake \in Int /\ nextWake >= -MaxLate
    BY DEF TimeOutAssumption, TimeOutInv, TimeOutTypeOK, PeriodRight
  <1>2. /\ xTicksToDelay = 0
        /\ pxPreviousWakeTime' = wake
        /\ xTicksToDelay' = IF ShouldDelay(wake) THEN (wake - xTickCount) % TickMod ELSE 0
        /\ nextWake' = nextWake + increment
        /\ UNCHANGED <<clock, callVars, xTickCount>>
    BY DEF DelayUntil, clock
  <1>3. nextWake <= 0
    BY <1>1, <1>2 DEF TimeOutInv, PeriodRight, PeriodKept
  <1>4. \/ pxPreviousWakeTime + increment < TickMod /\ wake = pxPreviousWakeTime + increment
        \/ /\ pxPreviousWakeTime + increment >= TickMod
           /\ wake = pxPreviousWakeTime + increment - TickMod
    <2>1. PICK i \in Int : i = pxPreviousWakeTime + increment
      BY <1>1
    <2>2. /\ i \in 0 .. TickMod - 1 => i % TickMod = i
          /\ i \in TickMod .. 2 * TickMod - 1 => i % TickMod = i - TickMod
      BY <1>1, ModFacts
    <2>. QED
      BY <1>1, <2>1, <2>2
  <1>. HIDE DEF wake
  <1>5. wake \in 0 .. TickMod - 1
    BY <1>1, <1>4
  <1>6. \/ xTickCount = pxPreviousWakeTime - nextWake
        \/ xTickCount = pxPreviousWakeTime - nextWake - TickMod
    BY <1>1, <1>3 DEF TimeOutInv, PeriodRight
  <1>7. /\ ShouldDelay(wake) <=> nextWake + increment > 0
        /\ nextWake + increment > 0 =>
             wake - xTickCount \in {nextWake + increment, nextWake + increment - TickMod}
    BY <1>1, <1>3, <1>4, <1>6 DEF ShouldDelay
  <1>8. nextWake + increment > 0 => (wake - xTickCount) % TickMod = nextWake + increment
    <2>1. PICK i \in Int : i = wake - xTickCount
      BY <1>1, <1>5
    <2>2. /\ i \in 0 .. TickMod - 1 => i % TickMod = i
          /\ i \in -TickMod .. -1 => i % TickMod = i + TickMod
      BY <1>1, ModFacts
    <2>. QED
      BY <1>1, <1>3, <1>7, <2>1, <2>2
  <1>9. PeriodKept'
    BY <1>1, <1>2, <1>7, <1>8 DEF PeriodKept
  <1>10. PeriodRight'
    <2>1. xTickCount + (nextWake + increment) \in {wake, wake + TickMod, wake - TickMod}
      BY <1>1, <1>4, <1>5, <1>6
    <2>. QED
      BY <1>1, <1>2, <1>3, <1>9, <2>1 DEF PeriodRight
  <1>11. TimeOutTypeOK'
    <2>1. xTicksToDelay' \in 0 .. TickMod - 1
      BY <1>1, <1>2, <1>3, <1>7, <1>8
    <2>. QED
      BY <1>2, <1>5, <2>1 DEF TimeOutInv, TimeOutTypeOK, clock, callVars
  <1>. QED
    BY <1>2, <1>10, <1>11, CallStays DEF TimeOutInv

LEMMA TickKeeps ==
  ASSUME TimeOutAssumption, TimeOutInv, Tick
  PROVE  TimeOutInv'
  <1>1. /\ TickMod \in Nat \ {0} /\ OverflowMod \in Nat \ {0, 1} /\ MaxLate \in 0 .. TickMod - 1
        /\ xTickCount \in 0 .. TickMod - 1 /\ xNumOfOverflows \in 0 .. OverflowMod - 1
        /\ pxTicksToWait \in 0 .. TickMod - 1 /\ xTicksToDelay \in 0 .. TickMod - 1
        /\ pxPreviousWakeTime \in 0 .. TickMod - 1 /\ nextWake \in Int
        /\ pxTimeOut.xTimeOnEntering \in 0 .. TickMod - 1
    BY DEF TimeOutAssumption, TimeOutInv, TimeOutTypeOK, PeriodRight
  <1>2. /\ Timed => remaining > -MaxLate
        /\ nextWake > -MaxLate
        /\ xTickCount' = (xTickCount + 1) % TickMod
        /\ xNumOfOverflows' = IF xTickCount' = 0 THEN (xNumOfOverflows + 1) % OverflowMod
                                                 ELSE xNumOfOverflows
        /\ xTicksToDelay' = IF xTicksToDelay = 0 THEN 0 ELSE xTicksToDelay - 1
        /\ nextWake' = nextWake - 1
        /\ IF Timed
             THEN /\ remaining' = remaining - 1
                  /\ pc' = IF ElapsedTime + 1 >= pxTicksToWait THEN "awake" ELSE pc
             ELSE UNCHANGED <<remaining, pc>>
        /\ UNCHANGED <<pxTimeOut, pxTicksToWait, ucDelayAborted, pxPreviousWakeTime>>
    BY DEF Tick, Timed, InCall
  <1>3. \/ xTickCount + 1 < TickMod /\ xTickCount' = xTickCount + 1
        \/ xTickCount + 1 = TickMod /\ xTickCount' = 0
    <2>1. PICK i \in Int : i = xTickCount + 1
      BY <1>1
    <2>2. /\ i \in 0 .. TickMod - 1 => i % TickMod = i
          /\ i \in TickMod .. 2 * TickMod - 1 => i % TickMod = i - TickMod
      BY <1>1, ModFacts
    <2>. QED
      BY <1>1, <1>2, <2>1, <2>2
  <1>4. xNumOfOverflows' \in 0 .. OverflowMod - 1
    BY <1>1, <1>2, NextOverflow
  <1>5. TimeOutTypeOK'
    <2>1. /\ xTickCount' \in 0 .. TickMod - 1 /\ xTicksToDelay' \in 0 .. TickMod - 1
          /\ pc' \in {pc, "awake"}
      BY <1>1, <1>2, <1>3
    <2>. QED
      BY <1>2, <1>4, <2>1 DEF TimeOutInv, TimeOutTypeOK
  <1>6. PeriodRight'
    <2>1. PeriodKept'
      BY <1>1, <1>2 DEF TimeOutInv, PeriodRight, PeriodKept
    <2>2. xTickCount' + nextWake' \in
            {pxPreviousWakeTime, pxPreviousWakeTime + TickMod, pxPreviousWakeTime - TickMod}
      <3>1. xTickCount + nextWake \in
              {pxPreviousWakeTime, pxPreviousWakeTime + TickMod, pxPreviousWakeTime - TickMod}
        BY DEF TimeOutInv, PeriodRight
      <3>2. nextWake >= 1 - MaxLate /\ nextWake < TickMod
        BY <1>1, <1>2 DEF TimeOutInv, PeriodRight
      <3>. QED
        BY <1>1, <1>2, <1>3, <3>1, <3>2
    <2>. QED
      BY <1>1, <1>2, <2>1, <2>2 DEF TimeOutInv, PeriodRight
  <1>7. CASE ~Timed
    <2>1. UNCHANGED <<remaining, pc, pxTicksToWait>> /\ ~Timed'
      BY <1>2, <1>7 DEF Timed, InCall, Forever
    <2>2. CallRight'
      BY <1>7, <2>1 DEF TimeOutInv, CallRight, InCall, Timed, Forever
    <2>. QED
      BY <1>5, <1>6, <2>2 DEF TimeOutInv
  <1>8. CASE Timed
    <2>1. /\ remaining' = remaining - 1 /\ pxTicksToWait' = pxTicksToWait
          /\ pc' = IF ElapsedTime + 1 >= pxTicksToWait THEN "awake" ELSE pc
          /\ pxTicksToWait > 0 /\ pxTicksToWait # Forever /\ pxTicksToWait' # Forever'
          /\ pc \in {"asleep", "awake"}
      BY <1>2, <1>8 DEF TimeOutInv, CallRight, Timed, InCall, Forever
    <2>2. /\ remaining \in Int /\ remaining > -MaxLate /\ pxTicksToWait + MaxLate <= TickMod
          /\ Since = pxTicksToWait - remaining /\ Since >= 0
          /\ Since' = Since + 1 /\ CountsTell
      BY <1>1, <1>2, <1>8, <2>1 DEF TimeOutInv, CallRight, Since
    <2>3. CountsTell'
      <3>1. PICK n \in Int : n = Since
        BY <1>1, <2>2
      <3>2. n >= 0 /\ n < TickMod /\ Since' = n + 1
        BY <1>1, <2>2, <3>1
      <3>3. UNCHANGED <<pxTimeOut, pxTicksToWait>>
        BY <1>2
      <3>4. \/ /\ xTickCount = pxTimeOut.xTimeOnEntering + n
               /\ xNumOfOverflows = pxTimeOut.xOverflowCount
            \/ /\ xTickCount = pxTimeOut.xTimeOnEntering + n - TickMod
               /\ xNumOfOverflows = (pxTimeOut.xOverflowCount + 1) % OverflowMod
        BY <2>2, <3>1 DEF CountsTell
      <3>5. \/ /\ xTickCount' = pxTimeOut.xTimeOnEntering + (n + 1)
               /\ xNumOfOverflows' = pxTimeOut.xOverflowCount
            \/ /\ xTickCount' = pxTimeOut.xTimeOnEntering + (n + 1) - TickMod
               /\ xNumOfOverflows' = (pxTimeOut.xOverflowCount + 1) % OverflowMod
        BY <1>1, <1>2, <1>3, <3>2, <3>4
      <3>. QED
        BY <3>2, <3>3, <3>5 DEF CountsTell
    <2>4. pc' = "asleep" => remaining' > 0
      <3>1. ASSUME pc' = "asleep" PROVE remaining' > 0
        <4>1. pc = "asleep" /\ ~(ElapsedTime + 1 >= pxTicksToWait)
          BY <2>1, <3>1
        <4>2. remaining > 0 /\ Since < TickMod /\ Since \in Int
          BY <1>1, <2>1, <2>2, <4>1 DEF TimeOutInv, CallRight
        <4>3. ElapsedTime = Since
          BY <1>8, <4>2, ElapsedFacts
        <4>. QED
          BY <1>1, <2>1, <2>2, <4>1, <4>3
      <3>. QED
        BY <3>1
    <2>5. CallRight'
      BY <1>1, <2>1, <2>2, <2>3, <2>4 DEF CallRight, InCall, Timed
    <2>. QED
      BY <1>5, <1>6, <2>5 DEF TimeOutInv
  <1>. QED
    BY <1>7, <1>8

LEMMA TimeOutInvStep ==
  ASSUME TimeOutAssumption, TimeOutInv, [TimeOutNext]_timeOutVars
  PROVE  TimeOutInv'
  <1>1. CASE TimeOutNext
    BY <1>1, BeginCallKeeps, WakeKeeps, CheckKeeps, EndCallKeeps, TickKeeps, DelayUntilKeeps
       DEF TimeOutNext
  <1>2. CASE UNCHANGED timeOutVars
    <2>1. UNCHANGED <<clock, periodVars, callVars>>
      BY <1>2 DEF timeOutVars, clock, periodVars, callVars
    <2>2. TimeOutTypeOK'
      BY <1>2 DEF timeOutVars, TimeOutInv, TimeOutTypeOK
    <2>. QED
      BY <2>1, <2>2, PeriodStays, CallStays DEF TimeOutInv
  <1>. QED
    BY <1>1, <1>2

\* A call that waits again and again gives up when its block time is over and not before,
\* and a periodic task sleeps until its period is over, wherever the tick count wraps and
\* however late they run (tasks.c vTaskSetTimeOutState, xTaskCheckForTimeOut,
\* xTaskDelayUntil).
THEOREM TimesCorrect ==
  ASSUME TimeOutAssumption
  PROVE  TimeOutSpec => []TimesRight
  <1>1. TimeOutInit => TimeOutInv
    BY TimeOutInvInit
  <1>2. TimeOutInv /\ [TimeOutNext]_timeOutVars => TimeOutInv'
    BY TimeOutInvStep
  <1>3. TimeOutInv => TimesRight
    <2>. SUFFICES ASSUME TimeOutInv PROVE BlockTimeKept /\ PeriodKept
      BY DEF TimesRight
    <2>1. PeriodKept
      BY DEF TimeOutInv, PeriodRight
    <2>2. ASSUME pc = "asleep", pxTicksToWait # Forever
          PROVE  remaining > 0 /\ pxTicksToWait = remaining + ElapsedTime
      <3>1. Timed /\ remaining > 0
        BY <2>2 DEF TimeOutInv, CallRight, Timed, InCall
      <3>2. /\ TickMod \in Nat /\ pxTicksToWait \in 0 .. TickMod - 1 /\ remaining \in Int
            /\ Since = pxTicksToWait - remaining
        BY <3>1 DEF TimeOutAssumption, TimeOutInv, TimeOutTypeOK, CallRight, Since
      <3>3. Since < TickMod
        BY <3>1, <3>2
      <3>. QED
        BY <3>1, <3>2, <3>3, ElapsedFacts
    <2>. QED
      BY <2>1, <2>2 DEF BlockTimeKept, TimeOutInv, CallRight
  <1>. QED
    BY <1>1, <1>2, <1>3, PTL DEF TimeOutSpec

\* Counts, time-out state and calls keep their types.
THEOREM TimeOutTypesCorrect ==
  ASSUME TimeOutAssumption
  PROVE  TimeOutSpec => []TimeOutTypeOK
  <1>1. TimeOutInit => TimeOutInv
    BY TimeOutInvInit
  <1>2. TimeOutInv /\ [TimeOutNext]_timeOutVars => TimeOutInv'
    BY TimeOutInvStep
  <1>3. TimeOutInv => TimeOutTypeOK
    BY DEF TimeOutInv
  <1>. QED
    BY <1>1, <1>2, <1>3, PTL DEF TimeOutSpec
-----------------------------------------------------------------------------
\* The heap has room, a block a header, and nobody asks for nothing.
HeapAssumption ==
  HeapEnd \in Nat \ {0} /\ HeapStructSize \in Nat \ {0} /\ Wanted \subseteq Nat \ {0}

\* Blocks in the heap, by their addresses, none of which reaches into the next.
IsBlocks(f) ==
  /\ DOMAIN f \subseteq Nat /\ f = [a \in DOMAIN f |-> f[a]]
  /\ \A a \in DOMAIN f : f[a] \in Nat \ {0} /\ a + f[a] <= HeapEnd
  /\ \A a, b \in DOMAIN f : a < b => a + f[a] <= b

Extent(a, s) == a .. a + s - 1
Bytes(f) == UNION Blocks(f)
AreJoined(f) == \A a \in DOMAIN f : TouchesBefore(f, a) = {}

\* Blocks that are free, in use, and on their way from the one to the other share the bytes of
\* the heap among them.
HeapInv ==
  /\ IsBlocks(freeList) /\ IsBlocks(allocated) /\ IsBlocks(freeing)
  /\ Bytes(freeList) \cap Bytes(allocated) = {}
  /\ Bytes(freeList) \cap Bytes(freeing) = {}
  /\ Bytes(allocated) \cap Bytes(freeing) = {}
  /\ Bytes(freeList) \cup Bytes(allocated) \cup Bytes(freeing) = 0 .. HeapEnd - 1
  /\ AreJoined(freeList)
  /\ xFreeBytesRemaining = Cardinality(Bytes(freeList))
  /\ xMinimumEverFreeBytesRemaining \in Nat
  /\ xMinimumEverFreeBytesRemaining <= xFreeBytesRemaining

\* A byte is in a block.
LEMMA InBytes ==
  ASSUME NEW f, NEW x
  PROVE  x \in Bytes(f) <=> \E a \in DOMAIN f : x \in Extent(a, f[a])
  BY DEF Bytes, Blocks, Extent

LEMMA InExtent ==
  ASSUME NEW a \in Nat, NEW s \in Nat, NEW x
  PROVE  x \in Extent(a, s) <=> x \in Nat /\ a <= x /\ x < a + s
  BY DEF Extent

\* The bytes of blocks lie in the heap, and a block's first byte is one of them.
LEMMA BytesInHeap ==
  ASSUME HeapAssumption, NEW f, IsBlocks(f)
  PROVE  /\ Bytes(f) \subseteq 0 .. HeapEnd - 1
         /\ IsFiniteSet(Bytes(f)) /\ Cardinality(Bytes(f)) \in 0 .. HeapEnd
         /\ \A a \in DOMAIN f : a \in Bytes(f)
  <1>1. HeapEnd \in Nat
    BY DEF HeapAssumption
  <1>2. ASSUME NEW x \in Bytes(f) PROVE x \in 0 .. HeapEnd - 1
    <2>1. PICK a \in DOMAIN f : x \in Extent(a, f[a])
      BY <1>2, InBytes
    <2>. QED
      BY <1>1, <2>1 DEF IsBlocks, Extent
  <1>3. ASSUME NEW a \in DOMAIN f PROVE a \in Bytes(f)
    <2>1. a \in Extent(a, f[a])
      BY DEF IsBlocks, Extent
    <2>. QED
      BY <2>1, InBytes
  <1>4. IsFiniteSet(0 .. HeapEnd - 1) /\ Cardinality(0 .. HeapEnd - 1) = HeapEnd
    BY <1>1, FS_Interval
  <1>. QED
    BY <1>1, <1>2, <1>3, <1>4, FS_Subset, FS_CardinalityType

\* A block taken out takes its bytes along.
LEMMA WithoutFacts ==
  ASSUME NEW f, IsBlocks(f), NEW S
  PROVE  /\ IsBlocks(Without(f, S)) /\ DOMAIN Without(f, S) = DOMAIN f \ S
         /\ \A a \in DOMAIN f \ S : Without(f, S)[a] = f[a]
         /\ AreJoined(f) => AreJoined(Without(f, S))
         /\ \A x : x \in Bytes(Without(f, S)) <=>
                     x \in Bytes(f) /\ \A a \in DOMAIN f \cap S : x \notin Extent(a, f[a])
  <1>. DEFINE g == Without(f, S)
  <1>1. DOMAIN g = DOMAIN f \ S /\ \A a \in DOMAIN f \ S : g[a] = f[a]
    BY DEF Without
  <1>2. g = [a \in DOMAIN g |-> g[a]]
    BY DEF Without
  <1>. HIDE DEF g
  <1>3. IsBlocks(g)
    BY <1>1, <1>2 DEF IsBlocks
  <1>4. AreJoined(f) => AreJoined(g)
    BY <1>1 DEF AreJoined, TouchesBefore
  <1>5. ASSUME NEW x PROVE x \in Bytes(g) <=>
          x \in Bytes(f) /\ \A a \in DOMAIN f \cap S : x \notin Extent(a, f[a])
    <2>1. ASSUME NEW a \in DOMAIN f, NEW b \in DOMAIN f, a # b, x \in Extent(a, f[a])
          PROVE  x \notin Extent(b, f[b])
      BY <2>1 DEF IsBlocks, Extent
    <2>2. ASSUME x \in Bytes(g)
          PROVE  x \in Bytes(f) /\ \A a \in DOMAIN f \cap S : x \notin Extent(a, f[a])
      BY <1>1, <2>1, <2>2, InBytes
    <2>3. ASSUME x \in Bytes(f), \A a \in DOMAIN f \cap S : x \notin Extent(a, f[a])
          PROVE  x \in Bytes(g)
      BY <1>1, <2>3, InBytes
    <2>. QED
      BY <2>2, <2>3
  <1>. QED
    BY <1>1, <1>3, <1>4, <1>5 DEF g

\* A block put where there was none brings its bytes.
LEMMA WithFacts ==
  ASSUME NEW f, IsBlocks(f), NEW a \in Nat, NEW s \in Nat \ {0}, a + s <= HeapEnd,
         Extent(a, s) \cap Bytes(f) = {}, HeapEnd \in Nat
  PROVE  /\ IsBlocks(With(f, a, s)) /\ DOMAIN With(f, a, s) = DOMAIN f \cup {a}
         /\ a \notin DOMAIN f
         /\ With(f, a, s)[a] = s /\ \A b \in DOMAIN f : With(f, a, s)[b] = f[b]
         /\ \A x : x \in Bytes(With(f, a, s)) <=> x \in Bytes(f) \/ x \in Extent(a, s)
  <1>. DEFINE g == With(f, a, s)
  <1>0. a \notin DOMAIN f
    <2>1. ASSUME a \in DOMAIN f PROVE FALSE
      <3>1. a \in Extent(a, f[a]) /\ a \in Extent(a, s)
        BY <2>1 DEF IsBlocks, Extent
      <3>. QED
        BY <2>1, <3>1, InBytes
    <2>. QED
      BY <2>1
  <1>1. DOMAIN g = DOMAIN f \cup {a} /\ g[a] = s /\ \A b \in DOMAIN f : g[b] = f[b]
    BY <1>0 DEF With
  <1>2. g = [b \in DOMAIN g |-> g[b]]
    BY DEF With
  <1>. HIDE DEF g
  <1>3. ASSUME NEW b \in DOMAIN f PROVE b + f[b] <= a \/ a + s <= b
    <2>1. SUFFICES ASSUME ~(b + f[b] <= a), ~(a + s <= b) PROVE FALSE
      OBVIOUS
    <2>2. b \in Nat /\ f[b] \in Nat \ {0}
      BY DEF IsBlocks
    <2>3. CASE b <= a
      <3>1. a \in Extent(b, f[b]) /\ a \in Extent(a, s)
        BY <2>1, <2>2, <2>3 DEF Extent
      <3>. QED
        BY <3>1, InBytes
    <2>4. CASE ~(b <= a)
      <3>1. b \in Extent(b, f[b]) /\ b \in Extent(a, s)
        BY <2>1, <2>2, <2>4 DEF Extent
      <3>. QED
        BY <3>1, InBytes
    <2>. QED
      BY <2>3, <2>4
  <1>4. IsBlocks(g)
    <2>1. DOMAIN g \subseteq Nat /\ \A b \in DOMAIN g : g[b] \in Nat \ {0} /\ b + g[b] <= HeapEnd
      BY <1>1 DEF IsBlocks
    <2>2. ASSUME NEW b \in DOMAIN g, NEW c \in DOMAIN g, b < c PROVE b + g[b] <= c
      <3>1. CASE b # a /\ c # a
        BY <1>1, <2>2, <3>1 DEF IsBlocks
      <3>2. CASE b = a
        <4>1. c \in DOMAIN f /\ c \in Nat /\ c # a /\ f[c] \in Nat \ {0}
          BY <1>1, <2>2, <3>2, <2>1
        <4>. QED
          BY <1>1, <1>3, <2>2, <3>2, <4>1
      <3>3. CASE c = a
        <4>1. b \in DOMAIN f /\ b \in Nat /\ f[b] \in Nat \ {0} /\ g[b] = f[b]
          BY <1>1, <2>2, <3>3, <2>1
        <4>. QED
          BY <1>1, <1>3, <2>2, <3>3, <4>1
      <3>. QED
        BY <3>1, <3>2, <3>3
    <2>. QED
      BY <1>2, <2>1, <2>2 DEF IsBlocks
  <1>5. ASSUME NEW x PROVE x \in Bytes(g) <=> x \in Bytes(f) \/ x \in Extent(a, s)
    BY <1>1, InBytes
  <1>. QED
    BY <1>0, <1>1, <1>4, <1>5 DEF g

\* What is inserted brings its bytes, joined with its neighbours, and no two blocks touch.
LEMMA InsertedFacts ==
  ASSUME NEW f, IsBlocks(f), AreJoined(f), NEW a \in Nat, NEW s \in Nat \ {0},
         a + s <= HeapEnd, HeapEnd \in Nat, Extent(a, s) \cap Bytes(f) = {}
  PROVE  /\ IsBlocks(Inserted(f, a, s)) /\ AreJoined(Inserted(f, a, s))
         /\ \A x : x \in Bytes(Inserted(f, a, s)) <=> x \in Bytes(f) \/ x \in Extent(a, s)
  <1>. DEFINE before == TouchesBefore(f, a)
              after  == TouchedAfter(f, a, s)
              start  == IF before = {} THEN a ELSE CHOOSE p \in before : TRUE
              end    == IF after = {} THEN a + s ELSE LET n == CHOOSE n \in after : TRUE
                                                      IN n + f[n]
              rest   == Without(f, before \cup after)
              g      == Inserted(f, a, s)
  <1>1. g = With(rest, start, end - start)
    BY DEF Inserted
  <1>2. \A b \in DOMAIN f : b \in Nat /\ f[b] \in Nat \ {0} /\ b + f[b] <= HeapEnd
    BY DEF IsBlocks
  <1>3. \A p \in before : p \in DOMAIN f /\ p + f[p] = a
    BY DEF TouchesBefore
  <1>4. \A p, q \in before : p = q
    <2>1. SUFFICES ASSUME NEW p \in before, NEW q \in before, p < q PROVE FALSE
      BY <1>2, <1>3
    <2>2. p + f[p] <= q
      BY <1>3, <2>1 DEF IsBlocks
    <2>. QED
      BY <1>2, <1>3, <2>2
  <1>5. \A n \in after : n \in DOMAIN f /\ n = a + s
    BY DEF TouchedAfter
  <1>6. /\ before = {} => start = a
        /\ before # {} => start \in before /\ before = {start}
    BY <1>4
  <1>7. /\ after = {} => end = a + s
        /\ after # {} => a + s \in DOMAIN f /\ after = {a + s} /\ end = a + s + f[a + s]
    <2>1. CASE after = {}
      BY <2>1
    <2>2. CASE after # {}
      <3>1. (CHOOSE n \in after : TRUE) \in after
        BY <2>2
      <3>2. (CHOOSE n \in after : TRUE) = a + s
        BY <3>1, <1>5
      <3>. QED
        BY <2>2, <3>1, <3>2, <1>5
    <2>. QED
      BY <2>1, <2>2
  <1>8. a + s \in DOMAIN f => a + s \in after
    BY DEF TouchedAfter
  <1>. HIDE DEF before, after, start, end, rest, g
  <1>9. /\ IsBlocks(rest) /\ AreJoined(rest) /\ DOMAIN rest = DOMAIN f \ (before \cup after)
        /\ \A b \in DOMAIN rest : rest[b] = f[b]
        /\ \A x : x \in Bytes(rest) <=>
             x \in Bytes(f) /\ \A b \in DOMAIN f \cap (before \cup after) : x \notin Extent(b, f[b])
    <2>1. /\ IsBlocks(rest) /\ DOMAIN rest = DOMAIN f \ (before \cup after)
          /\ \A b \in DOMAIN f \ (before \cup after) : rest[b] = f[b]
          /\ AreJoined(f) => AreJoined(rest)
          /\ \A x : x \in Bytes(rest) <=>
               x \in Bytes(f) /\ \A b \in DOMAIN f \cap (before \cup after) : x \notin Extent(b, f[b])
      <3>1. \A S : IsBlocks(Without(f, S)) /\ DOMAIN Without(f, S) = DOMAIN f \ S
        BY WithoutFacts
      <3>2. \A S : \A b \in DOMAIN f \ S : Without(f, S)[b] = f[b]
        BY WithoutFacts
      <3>3. \A S : AreJoined(Without(f, S))
        BY WithoutFacts
      <3>4. \A S : \A x : x \in Bytes(Without(f, S)) <=>
               x \in Bytes(f) /\ \A b \in DOMAIN f \cap S : x \notin Extent(b, f[b])
        BY WithoutFacts
      <3>. QED BY <3>1, <3>2, <3>3, <3>4 DEF rest
    <2>. QED
      BY <2>1
  <1>10. /\ start \in Nat /\ end \in Nat /\ start <= a /\ a + s <= end /\ end <= HeapEnd
         /\ end - start \in Nat \ {0} /\ start + (end - start) = end
    BY <1>2, <1>3, <1>6, <1>7
  \* The new block is made of the neighbours and what is inserted.
  <1>11. ASSUME NEW x
         PROVE  x \in Extent(start, end - start) <=>
                  \/ x \in Extent(a, s)
                  \/ \E b \in before \cup after : x \in Extent(b, f[b])
    <2>1. x \in Extent(start, end - start) <=> x \in Nat /\ start <= x /\ x < end
      BY <1>10, InExtent
    <2>2. x \in Extent(a, s) <=> x \in Nat /\ a <= x /\ x < a + s
      BY InExtent
    <2>3. (\E b \in before : x \in Extent(b, f[b])) <=> x \in Nat /\ start <= x /\ x < a
      <3>1. CASE before = {}
        BY <3>1, <1>6
      <3>2. CASE before # {}
        <4>1. start \in DOMAIN f /\ start + f[start] = a /\ before = {start}
          BY <3>2, <1>3, <1>6
        <4>2. x \in Extent(start, f[start]) <=> x \in Nat /\ start <= x /\ x < a
          BY <4>1, <1>2, InExtent
        <4>. QED
          BY <4>1, <4>2
      <3>. QED
        BY <3>1, <3>2
    <2>4. (\E b \in after : x \in Extent(b, f[b])) <=> x \in Nat /\ a + s <= x /\ x < end
      <3>1. CASE after = {}
        BY <3>1, <1>7
      <3>2. CASE after # {}
        <4>1. a + s \in DOMAIN f /\ end = a + s + f[a + s] /\ after = {a + s}
          BY <3>2, <1>7
        <4>2. x \in Extent(a + s, f[a + s]) <=> x \in Nat /\ a + s <= x /\ x < end
          BY <4>1, <1>2, InExtent
        <4>. QED
          BY <4>1, <4>2
      <3>. QED
        BY <3>1, <3>2
    <2>. QED
      BY <1>10, <2>1, <2>2, <2>3, <2>4
  <1>12. Extent(start, end - start) \cap Bytes(rest) = {}
    <2>1. SUFFICES ASSUME NEW x \in Bytes(rest), x \in Extent(start, end - start) PROVE FALSE
      OBVIOUS
    <2>2. x \in Bytes(f) /\ \A b \in DOMAIN f \cap (before \cup after) : x \notin Extent(b, f[b])
      BY <1>9
    <2>3. x \notin Extent(a, s)
      BY <2>2
    <2>4. PICK b \in before \cup after : x \in Extent(b, f[b])
      BY <1>11, <2>1, <2>3
    <2>. QED
      BY <1>3, <1>5, <2>2, <2>4
  <1>13. /\ IsBlocks(g) /\ DOMAIN g = DOMAIN rest \cup {start} /\ start \notin DOMAIN rest
         /\ g[start] = end - start /\ \A b \in DOMAIN rest : g[b] = rest[b]
         /\ \A x : x \in Bytes(g) <=> x \in Bytes(rest) \/ x \in Extent(start, end - start)
    <2>. DEFINE size == end - start
    <2>1. size \in Nat \ {0} /\ start + size <= HeapEnd
      BY <1>10
    <2>. HIDE DEF size
    <2>2. /\ IsBlocks(With(rest, start, size))
          /\ DOMAIN With(rest, start, size) = DOMAIN rest \cup {start}
          /\ start \notin DOMAIN rest
          /\ With(rest, start, size)[start] = size
          /\ \A b \in DOMAIN rest : With(rest, start, size)[b] = rest[b]
          /\ \A x : x \in Bytes(With(rest, start, size)) <=>
                      x \in Bytes(rest) \/ x \in Extent(start, size)
      <3>1. Extent(start, size) \cap Bytes(rest) = {}
        BY <1>12 DEF size
      <3>. QED
        BY <1>9, <1>10, <2>1, <3>1, WithFacts, Zenon
    <2>. QED
      BY <1>1, <2>2, Zenon DEF size
  <1>14. AreJoined(g)
    <2>1. SUFFICES ASSUME NEW b \in DOMAIN g, NEW q \in DOMAIN g, q + g[q] = b PROVE FALSE
      BY DEF AreJoined, TouchesBefore
    <2>2. CASE b # start /\ q # start
      <3>1. b \in DOMAIN f /\ q \in DOMAIN f /\ q + f[q] = b
        BY <1>9, <1>13, <2>1, <2>2
      <3>. QED
        BY <3>1 DEF AreJoined, TouchesBefore
    <2>3. CASE b = start /\ q # start
      <3>1. q \in DOMAIN f /\ q \notin before /\ q + f[q] = start
        BY <1>9, <1>13, <2>1, <2>3
      <3>2. CASE before = {}
        BY <1>6, <3>1, <3>2 DEF before, TouchesBefore
      <3>3. CASE before # {}
        BY <1>3, <1>6, <3>1, <3>3 DEF AreJoined, TouchesBefore
      <3>. QED
        BY <3>2, <3>3
    <2>4. CASE b # start /\ q = start
      <3>1. b \in DOMAIN f /\ b \notin after /\ b = end
        BY <1>9, <1>10, <1>13, <2>1, <2>4
      <3>2. CASE after = {}
        BY <1>7, <1>8, <3>1, <3>2
      <3>3. CASE after # {}
        <4>1. a + s \in DOMAIN f /\ a + s + f[a + s] = b
          BY <1>7, <3>1, <3>3
        <4>. QED
          BY <3>1, <4>1 DEF AreJoined, TouchesBefore
      <3>. QED
        BY <3>2, <3>3
    <2>5. CASE b = start /\ q = start
      BY <1>10, <1>13, <2>1, <2>5
    <2>. QED
      BY <2>2, <2>3, <2>4, <2>5
  <1>15. ASSUME NEW x PROVE x \in Bytes(g) <=> x \in Bytes(f) \/ x \in Extent(a, s)
    <2>1. ASSUME NEW b \in before \cup after, x \in Extent(b, f[b]) PROVE x \in Bytes(f)
      BY <1>3, <1>5, <2>1, InBytes
    <2>2. x \in Bytes(f) /\ x \notin Bytes(rest) => \E b \in before \cup after : x \in Extent(b, f[b])
      BY <1>9
    <2>3. x \in Bytes(rest) => x \in Bytes(f)
      BY <1>9
    <2>. QED
      BY <1>11, <1>13, <2>1, <2>2, <2>3
  <1>. QED
    BY <1>13, <1>14, <1>15 DEF g

\* A block added brings as many bytes as it has.
LEMMA MoreBytes ==
  ASSUME NEW S, IsFiniteSet(S), NEW a \in Nat, NEW s \in Nat \ {0}, NEW T,
         Extent(a, s) \cap S = {}, \A x : x \in T <=> x \in S \/ x \in Extent(a, s)
  PROVE  Cardinality(T) = Cardinality(S) + s
  <1>1. IsFiniteSet(Extent(a, s)) /\ Cardinality(Extent(a, s)) = s
    BY FS_Interval DEF Extent
  <1>2. T = S \cup Extent(a, s) /\ S \cap Extent(a, s) = {}
    OBVIOUS
  <1>3. Cardinality({}) = 0
    BY FS_EmptySet
  <1>4. Cardinality(S \cup Extent(a, s)) =
          Cardinality(S) + Cardinality(Extent(a, s)) - Cardinality(S \cap Extent(a, s))
    BY <1>1, FS_Union
  <1>5. Cardinality(S) \in Nat
    BY FS_CardinalityType
  <1>6. Cardinality(T) = Cardinality(S \cup Extent(a, s))
    BY <1>2
  <1>7. Cardinality(S \cap Extent(a, s)) = 0
    BY <1>2, <1>3
  <1>. QED
    BY <1>1, <1>4, <1>5, <1>6, <1>7

\* At first all is one free block.
LEMMA HeapInvInit ==
  HeapAssumption /\ HeapInit => HeapInv
  <1>. SUFFICES ASSUME HeapAssumption, HeapInit PROVE HeapInv
    OBVIOUS
  <1>0. HeapEnd \in Nat \ {0}
    BY DEF HeapAssumption
  <1>1. DOMAIN freeList = {0} /\ freeList[0] = HeapEnd /\ freeList = [a \in {0} |-> freeList[a]]
    BY DEF HeapInit
  <1>2. DOMAIN allocated = {} /\ DOMAIN freeing = {}
    BY DEF HeapInit
  <1>3. allocated = [a \in {} |-> allocated[a]] /\ freeing = [a \in {} |-> freeing[a]]
    BY DEF HeapInit
  <1>4. IsBlocks(freeList) /\ IsBlocks(allocated) /\ IsBlocks(freeing)
    BY <1>0, <1>1, <1>2, <1>3 DEF IsBlocks
  <1>5. AreJoined(freeList)
    BY <1>0, <1>1 DEF AreJoined, TouchesBefore
  <1>6. Bytes(allocated) = {} /\ Bytes(freeing) = {}
    BY <1>2, InBytes
  <1>7. Bytes(freeList) = 0 .. HeapEnd - 1
    <2>1. \A x : x \in Bytes(freeList) <=> x \in Extent(0, HeapEnd)
      BY <1>1, InBytes
    <2>2. Extent(0, HeapEnd) = 0 .. HeapEnd - 1
      BY <1>0 DEF Extent
    <2>3. \A x : x \in Bytes(freeList) <=> x \in 0 .. HeapEnd - 1
      BY <2>1, <2>2
    <2>. QED
      BY <2>3
  <1>8. Cardinality(Bytes(freeList)) = HeapEnd
    BY <1>0, <1>7, FS_Interval
  <1>. QED
    BY <1>0, <1>4, <1>5, <1>6, <1>7, <1>8 DEF HeapInv, HeapInit

\* pvPortMalloc(): what is taken was free, and the rest stays so.
LEMMA MallocStep ==
  ASSUME HeapAssumption, HeapInv, NEW wanted \in Wanted, Malloc(wanted)
  PROVE  HeapInv'
  <1>. DEFINE size == wanted + HeapStructSize
  <1>0. size \in Nat \ {0} /\ HeapEnd \in Nat \ {0} /\ MinimumBlockSize \in Nat
    BY DEF HeapAssumption, MinimumBlockSize
  <1>1. PICK a \in DOMAIN freeList :
          /\ size <= xFreeBytesRemaining /\ FirstFit(a, size)
          /\ LET splits == freeList[a] - size > MinimumBlockSize
                 taken  == IF splits THEN size ELSE freeList[a]
                 rest   == Without(freeList, {a})
             IN /\ freeList' = IF splits THEN Inserted(rest, a + size, freeList[a] - size) ELSE rest
                /\ allocated' = With(allocated, a, taken)
                /\ xFreeBytesRemaining' = xFreeBytesRemaining - taken
                /\ xMinimumEverFreeBytesRemaining' =
                     IF xFreeBytesRemaining' < xMinimumEverFreeBytesRemaining
                       THEN xFreeBytesRemaining' ELSE xMinimumEverFreeBytesRemaining
    BY DEF Malloc
  <1>. DEFINE splits == freeList[a] - size > MinimumBlockSize
              taken  == IF splits THEN size ELSE freeList[a]
              left   == freeList[a] - taken
              rest   == Without(freeList, {a})
  <1>2. /\ freeing' = freeing /\ allocated' = With(allocated, a, taken)
        /\ splits => freeList' = Inserted(rest, a + taken, left)
        /\ ~splits => freeList' = rest
        /\ xFreeBytesRemaining' = xFreeBytesRemaining - taken
        /\ xMinimumEverFreeBytesRemaining' \in {xFreeBytesRemaining', xMinimumEverFreeBytesRemaining}
        /\ xMinimumEverFreeBytesRemaining' <= xFreeBytesRemaining' \/
             (xFreeBytesRemaining' >= xMinimumEverFreeBytesRemaining /\
              xMinimumEverFreeBytesRemaining' = xMinimumEverFreeBytesRemaining)
    BY <1>1 DEF Malloc
  <1>3. /\ IsBlocks(freeList) /\ IsBlocks(allocated) /\ IsBlocks(freeing) /\ AreJoined(freeList)
        /\ Bytes(freeList) \cap Bytes(allocated) = {}
        /\ Bytes(freeList) \cap Bytes(freeing) = {}
        /\ Bytes(allocated) \cap Bytes(freeing) = {}
        /\ Bytes(freeList) \cup Bytes(allocated) \cup Bytes(freeing) = 0 .. HeapEnd - 1
        /\ xFreeBytesRemaining = Cardinality(Bytes(freeList))
        /\ xMinimumEverFreeBytesRemaining \in Nat
        /\ xMinimumEverFreeBytesRemaining <= xFreeBytesRemaining
    BY DEF HeapInv
  <1>4. /\ a \in Nat /\ freeList[a] \in Nat \ {0} /\ a + freeList[a] <= HeapEnd
        /\ freeList[a] >= size
    BY <1>1, <1>3 DEF IsBlocks, FirstFit
  <1>5. /\ taken \in Nat \ {0} /\ taken <= freeList[a] /\ left \in Nat
        /\ taken + left = freeList[a] /\ (splits <=> left # 0)
    BY <1>0, <1>4
  <1>. HIDE DEF size, splits, taken, left, rest
  <1>6. /\ IsBlocks(rest) /\ AreJoined(rest)
        /\ \A x : x \in Bytes(rest) <=> x \in Bytes(freeList) /\ x \notin Extent(a, freeList[a])
    <2>1. IsBlocks(rest)
      BY <1>3, WithoutFacts DEF rest
    <2>2. AreJoined(rest)
      BY <1>3, WithoutFacts DEF rest
    <2>3. \A x : x \in Bytes(rest) <=>
            x \in Bytes(freeList) /\ \A b \in DOMAIN freeList \cap {a} : x \notin Extent(b, freeList[b])
      BY <1>3, WithoutFacts DEF rest
    <2>. QED
      BY <1>1, <2>1, <2>2, <2>3
  <1>7. \A x : x \in Extent(a, freeList[a]) => x \in Bytes(freeList)
    BY <1>1, InBytes
  <1>8. \A x : x \in Extent(a, freeList[a]) <=> x \in Extent(a, taken) \/ x \in Extent(a + taken, left)
    BY <1>4, <1>5 DEF Extent
  <1>9. \A x : ~(x \in Extent(a, taken) /\ x \in Extent(a + taken, left))
    BY <1>4, <1>5 DEF Extent
  <1>10. /\ IsBlocks(freeList') /\ AreJoined(freeList')
         /\ \A x : x \in Bytes(freeList') <=> x \in Bytes(rest) \/ x \in Extent(a + taken, left)
    <2>1. CASE splits
      <3>1. Extent(a + taken, left) \cap Bytes(rest) = {}
        BY <1>6, <1>8
      <3>2. a + taken \in Nat /\ left \in Nat \ {0} /\ a + taken + left <= HeapEnd
        BY <1>4, <1>5, <2>1
      <3>. QED
        BY <1>0, <1>2, <1>6, <2>1, <3>1, <3>2, InsertedFacts
    <2>2. CASE ~splits
      <3>1. \A x : x \notin Extent(a + taken, left)
        BY <1>4, <1>5, <2>2 DEF Extent
      <3>. QED
        BY <1>2, <1>6, <2>2, <3>1
    <2>. QED
      BY <2>1, <2>2
  <1>11. \A x : x \in Bytes(freeList) <=> x \in Bytes(freeList') \/ x \in Extent(a, taken)
    BY <1>6, <1>7, <1>8, <1>10
  <1>12. \A x : ~(x \in Bytes(freeList') /\ x \in Extent(a, taken))
    BY <1>6, <1>8, <1>9, <1>10
  <1>13. /\ IsBlocks(allocated')
         /\ \A x : x \in Bytes(allocated') <=> x \in Bytes(allocated) \/ x \in Extent(a, taken)
    <2>1. Extent(a, taken) \cap Bytes(allocated) = {}
      BY <1>3, <1>11
    <2>2. a + taken <= HeapEnd
      BY <1>0, <1>4, <1>5
    <2>. QED
      BY <1>0, <1>2, <1>3, <1>4, <1>5, <2>1, <2>2, WithFacts
  <1>14. xFreeBytesRemaining' = Cardinality(Bytes(freeList')) /\ xFreeBytesRemaining' \in Nat
    <2>1. IsFiniteSet(Bytes(freeList')) /\ Cardinality(Bytes(freeList')) \in Nat
      BY <1>0, <1>10, BytesInHeap
    <2>2. Extent(a, taken) \cap Bytes(freeList') = {}
      BY <1>12
    <2>3. Cardinality(Bytes(freeList)) = Cardinality(Bytes(freeList')) + taken
      BY <1>4, <1>5, <1>11, <2>1, <2>2, MoreBytes
    <2>. QED
      BY <1>2, <1>3, <1>5, <2>1, <2>3
  <1>15. /\ Bytes(freeList') \cap Bytes(allocated') = {}
         /\ Bytes(freeList') \cap Bytes(freeing') = {}
         /\ Bytes(allocated') \cap Bytes(freeing') = {}
    BY <1>2, <1>3, <1>11, <1>12, <1>13
  <1>16. Bytes(freeList') \cup Bytes(allocated') \cup Bytes(freeing') = 0 .. HeapEnd - 1
    BY <1>2, <1>3, <1>11, <1>13
  <1>17. xMinimumEverFreeBytesRemaining' \in Nat /\ xMinimumEverFreeBytesRemaining' <= xFreeBytesRemaining'
    BY <1>2, <1>3, <1>14
  <1>. QED
    BY <1>2, <1>3, <1>10, <1>13, <1>14, <1>15, <1>16, <1>17 DEF HeapInv, AreJoined, TouchesBefore

\* vPortFree(): a block is marked.
LEMMA MarkStep ==
  ASSUME HeapAssumption, HeapInv, NEW a, MarkFree(a)
  PROVE  HeapInv'
  <1>1. /\ a \in DOMAIN allocated /\ allocated' = Without(allocated, {a})
        /\ freeing' = With(freeing, a, allocated[a]) /\ freeList' = freeList
        /\ xFreeBytesRemaining' = xFreeBytesRemaining
        /\ xMinimumEverFreeBytesRemaining' = xMinimumEverFreeBytesRemaining
    BY DEF MarkFree
  <1>2. /\ IsBlocks(freeList) /\ IsBlocks(allocated) /\ IsBlocks(freeing) /\ AreJoined(freeList)
        /\ Bytes(freeList) \cap Bytes(allocated) = {}
        /\ Bytes(freeList) \cap Bytes(freeing) = {}
        /\ Bytes(allocated) \cap Bytes(freeing) = {}
        /\ Bytes(freeList) \cup Bytes(allocated) \cup Bytes(freeing) = 0 .. HeapEnd - 1
    BY DEF HeapInv
  <1>3. /\ IsBlocks(allocated')
        /\ \A x : x \in Bytes(allocated') <=> x \in Bytes(allocated) /\ x \notin Extent(a, allocated[a])
    <2>1. IsBlocks(allocated')
      BY <1>1, <1>2, WithoutFacts
    <2>2. \A x : x \in Bytes(allocated') <=> x \in Bytes(allocated) /\
            \A b \in DOMAIN allocated \cap {a} : x \notin Extent(b, allocated[b])
      BY <1>1, <1>2, WithoutFacts
    <2>. QED
      BY <1>1, <2>1, <2>2
  <1>4. \A x : x \in Extent(a, allocated[a]) => x \in Bytes(allocated)
    BY <1>1, InBytes
  <1>5. /\ IsBlocks(freeing')
        /\ \A x : x \in Bytes(freeing') <=> x \in Bytes(freeing) \/ x \in Extent(a, allocated[a])
    <2>1. a \in Nat /\ allocated[a] \in Nat \ {0} /\ a + allocated[a] <= HeapEnd /\ HeapEnd \in Nat
      BY <1>1, <1>2 DEF IsBlocks, HeapAssumption
    <2>2. Extent(a, allocated[a]) \cap Bytes(freeing) = {}
      BY <1>2, <1>4
    <2>. QED
      BY <1>1, <1>2, <2>1, <2>2, WithFacts
  <1>. QED
    BY <1>1, <1>2, <1>3, <1>4, <1>5 DEF HeapInv

\* Then it is inserted into the free list.
LEMMA InsertStep ==
  ASSUME HeapAssumption, HeapInv, NEW a, InsertFree(a)
  PROVE  HeapInv'
  <1>1. /\ a \in DOMAIN freeing /\ freeing' = Without(freeing, {a})
        /\ freeList' = Inserted(freeList, a, freeing[a]) /\ allocated' = allocated
        /\ xFreeBytesRemaining' = xFreeBytesRemaining + freeing[a]
        /\ xMinimumEverFreeBytesRemaining' = xMinimumEverFreeBytesRemaining
    BY DEF InsertFree
  <1>2. /\ IsBlocks(freeList) /\ IsBlocks(allocated) /\ IsBlocks(freeing) /\ AreJoined(freeList)
        /\ Bytes(freeList) \cap Bytes(allocated) = {}
        /\ Bytes(freeList) \cap Bytes(freeing) = {}
        /\ Bytes(allocated) \cap Bytes(freeing) = {}
        /\ Bytes(freeList) \cup Bytes(allocated) \cup Bytes(freeing) = 0 .. HeapEnd - 1
        /\ xFreeBytesRemaining = Cardinality(Bytes(freeList))
        /\ xMinimumEverFreeBytesRemaining \in Nat
        /\ xMinimumEverFreeBytesRemaining <= xFreeBytesRemaining
    BY DEF HeapInv
  <1>3. /\ IsBlocks(freeing')
        /\ \A x : x \in Bytes(freeing') <=> x \in Bytes(freeing) /\ x \notin Extent(a, freeing[a])
    <2>1. IsBlocks(freeing')
      BY <1>1, <1>2, WithoutFacts
    <2>2. \A x : x \in Bytes(freeing') <=> x \in Bytes(freeing) /\
            \A b \in DOMAIN freeing \cap {a} : x \notin Extent(b, freeing[b])
      BY <1>1, <1>2, WithoutFacts
    <2>. QED
      BY <1>1, <2>1, <2>2
  <1>4. \A x : x \in Extent(a, freeing[a]) => x \in Bytes(freeing)
    BY <1>1, InBytes
  <1>5. a \in Nat /\ freeing[a] \in Nat \ {0} /\ a + freeing[a] <= HeapEnd /\ HeapEnd \in Nat
    BY <1>1, <1>2 DEF IsBlocks, HeapAssumption
  <1>6. Extent(a, freeing[a]) \cap Bytes(freeList) = {}
    BY <1>2, <1>4
  <1>7. /\ IsBlocks(freeList') /\ AreJoined(freeList')
        /\ \A x : x \in Bytes(freeList') <=> x \in Bytes(freeList) \/ x \in Extent(a, freeing[a])
    BY <1>1, <1>2, <1>5, <1>6, InsertedFacts
  <1>8. /\ xFreeBytesRemaining' = Cardinality(Bytes(freeList'))
        /\ xMinimumEverFreeBytesRemaining' <= xFreeBytesRemaining'
    <2>1. IsFiniteSet(Bytes(freeList)) /\ Cardinality(Bytes(freeList)) \in Nat
      BY <1>2, <1>5, BytesInHeap
    <2>2. Cardinality(Bytes(freeList')) = Cardinality(Bytes(freeList)) + freeing[a]
      BY <1>5, <1>6, <1>7, <2>1, MoreBytes
    <2>. QED
      BY <1>1, <1>2, <1>5, <2>1, <2>2
  <1>9. /\ Bytes(freeList') \cap Bytes(allocated') = {}
        /\ Bytes(freeList') \cap Bytes(freeing') = {}
        /\ Bytes(allocated') \cap Bytes(freeing') = {}
    BY <1>1, <1>2, <1>3, <1>4, <1>7
  <1>10. Bytes(freeList') \cup Bytes(allocated') \cup Bytes(freeing') = 0 .. HeapEnd - 1
    BY <1>1, <1>2, <1>3, <1>4, <1>7
  <1>. QED
    BY <1>1, <1>2, <1>3, <1>7, <1>8, <1>9, <1>10 DEF HeapInv, AreJoined, TouchesBefore

\* How many blocks of f hold a byte: one if it is in one of them.
LEMMA HolderFacts ==
  ASSUME NEW f, IsBlocks(f), NEW byte
  PROVE  /\ byte \in Bytes(f) => Cardinality({b \in Blocks(f) : byte \in b}) = 1
         /\ byte \notin Bytes(f) => Cardinality({b \in Blocks(f) : byte \in b}) = 0
  <1>. DEFINE H == {b \in Blocks(f) : byte \in b}
  <1>1. ASSUME byte \in Bytes(f) PROVE Cardinality(H) = 1
    <2>1. PICK b \in Blocks(f) : byte \in b
      BY <1>1 DEF Bytes
    <2>2. ASSUME NEW c \in H PROVE c = b
      <3>1. PICK p \in DOMAIN f : b = Extent(p, f[p])
        BY <2>1 DEF Blocks, Extent
      <3>2. PICK q \in DOMAIN f : c = Extent(q, f[q])
        BY <2>2 DEF Blocks, Extent
      <3>3. p = q
        BY <2>1, <2>2, <3>1, <3>2 DEF IsBlocks, Extent
      <3>. QED
        BY <3>1, <3>2, <3>3
    <2>3. H = {b}
      BY <2>1, <2>2
    <2>. QED
      BY <2>3, FS_Singleton
  <1>2. ASSUME byte \notin Bytes(f) PROVE Cardinality(H) = 0
    <2>1. H = {}
      BY <1>2 DEF Bytes
    <2>. QED
      BY <2>1, FS_EmptySet
  <1>. QED
    BY <1>1, <1>2

\* What the invariant says of the properties.
LEMMA HeapFacts ==
  HeapAssumption /\ HeapInv => HeapTypeOK /\ HeapRight
  <1>. SUFFICES ASSUME HeapAssumption, HeapInv PROVE HeapTypeOK /\ HeapRight
    OBVIOUS
  <1>0. HeapEnd \in Nat
    BY DEF HeapAssumption
  <1>1. \A f \in {freeList, allocated, freeing} : IsBlocks(f)
    BY DEF HeapInv
  <1>2. HeapTypeOK
    <2>1. \A f \in {freeList, allocated, freeing} : Bytes(f) \subseteq 0 .. HeapEnd - 1
      BY <1>1, BytesInHeap
    <2>2. xFreeBytesRemaining \in 0 .. HeapEnd
      BY <1>1, BytesInHeap DEF HeapInv
    <2>. QED
      BY <1>0, <2>1, <2>2 DEF HeapTypeOK, Bytes, HeapInv
  <1>3. Tiled
    <2>1. SUFFICES ASSUME NEW byte \in 0 .. HeapEnd - 1
                   PROVE  Cardinality({b \in Blocks(freeList) : byte \in b})
                          + Cardinality({b \in Blocks(allocated) : byte \in b})
                          + Cardinality({b \in Blocks(freeing) : byte \in b}) = 1
      BY DEF Tiled
    <2>2. byte \in Bytes(freeList) \/ byte \in Bytes(allocated) \/ byte \in Bytes(freeing)
      BY DEF HeapInv
    <2>3. /\ ~(byte \in Bytes(freeList) /\ byte \in Bytes(allocated))
          /\ ~(byte \in Bytes(freeList) /\ byte \in Bytes(freeing))
          /\ ~(byte \in Bytes(allocated) /\ byte \in Bytes(freeing))
      BY DEF HeapInv
    <2>4. \A f \in {freeList, allocated, freeing} :
            /\ byte \in Bytes(f) => Cardinality({b \in Blocks(f) : byte \in b}) = 1
            /\ byte \notin Bytes(f) => Cardinality({b \in Blocks(f) : byte \in b}) = 0
      BY <1>1, HolderFacts
    <2>. QED
      BY <2>2, <2>3, <2>4
  <1>4. Joined /\ Counted
    BY DEF HeapInv, Joined, Counted, AreJoined, Bytes
  <1>. QED
    BY <1>2, <1>3, <1>4 DEF HeapRight

\* In whatever order blocks of whatever sizes are allocated and freed, each byte of the
\* heap is in one block, no two free blocks touch, and the count of free bytes is theirs
\* (pvPortMalloc, vPortFree, prvInsertBlockIntoFreeList).
THEOREM HeapCorrect ==
  ASSUME HeapAssumption
  PROVE  HeapSpec => [](HeapTypeOK /\ HeapRight)
  <1>1. HeapInit => HeapInv
    BY HeapInvInit
  <1>2. HeapInv /\ [HeapNext]_heapVars => HeapInv'
    <2>1. ASSUME HeapInv, HeapNext PROVE HeapInv'
      BY <2>1, MallocStep, MarkStep, InsertStep DEF HeapNext
    <2>2. ASSUME HeapInv, UNCHANGED heapVars PROVE HeapInv'
      BY <2>2 DEF HeapInv, heapVars, AreJoined, TouchesBefore
    <2>. QED
      BY <2>1, <2>2
  <1>3. HeapInv => HeapTypeOK /\ HeapRight
    BY HeapFacts
  <1>. QED
    BY <1>1, <1>2, <1>3, PTL DEF HeapSpec
-----------------------------------------------------------------------------
\* The list, list.c.

\* Every set of numbers that is not empty has a least one.
LEMMA LeastNumber ==
  ASSUME NEW S \in SUBSET Nat, S # {}
  PROVE  \E n \in S : \A i \in S : n <= i
  <1>1. PICK n \in S : \A i \in S : ~ (<<i, n>> \in OpToRel(<, Nat))
    BY NatLessThanWellFounded, WFMin
  <1>2. \A i \in S : ~ (i < n)
    BY <1>1 DEF OpToRel
  <1>. QED
    BY <1>2

\* The items are finitely many, and the marker is none of them.
ListAssumption ==
  /\ IsFiniteSet(Items) /\ xListEnd \notin Items /\ MaxDelay \in Nat

\* The node at place k of a list of n items, of which s is the order, 0 being the marker.
Node(s, k) == IF k = 0 THEN xListEnd ELSE s[k]
IsOrder(s, n, in) ==
  /\ n \in Nat /\ s \in [1 .. n -> Items]
  /\ \A k, l \in 1 .. n : s[k] = s[l] => k = l
  /\ \A i \in Items : in[i] <=> \E k \in 1 .. n : s[k] = i
AreLinks(next, prev, s, n) ==
  /\ \A k \in 1 .. n : next[Node(s, k - 1)] = s[k] /\ prev[s[k]] = Node(s, k - 1)
  /\ next[Node(s, n)] = xListEnd /\ prev[xListEnd] = Node(s, n)

\* Each is followed by greater ones, and by equal ones that came later.
IsSorted(s, n, value, early) ==
  \A k, l \in 1 .. n :
    k < l => \/ value[s[k]] < value[s[l]]
             \/ value[s[k]] = value[s[l]] /\ s[k] \in early[s[l]]

\* When the turn of place k comes, if that of place p was the last.
TurnOf(k, p, n) == IF k > p THEN k ELSE k + n

\* Who had a turn since the item at place k had one comes after it.  Who had two since then
\* stays behind it until the walk, which is still on its way there, has come to it: only the
\* item that has its turn now gets others in front of it.
TurnsRight(s, n, p, had, count) ==
  \A k \in 1 .. n :
    /\ \A l \in 1 .. n : s[l] \in had[s[k]] => TurnOf(k, p, n) < TurnOf(l, p, n)
    /\ \A j \in Items : count[s[k]][j] <= 2 /\ (count[s[k]][j] = 2 => k > p)
    /\ \A l \in 1 .. n :
         TurnOf(l, p, n) < TurnOf(k, p, n) =>
           count[s[k]][s[l]] <= 1 /\ (count[s[k]][s[l]] = 1 => l < k)

ListTypes ==
  /\ kind \in {"turns", "sorted"}
  /\ pxNext \in [Nodes -> Nodes] /\ pxPrevious \in [Nodes -> Nodes]
  /\ xItemValue \in [Items -> 0 .. MaxDelay] /\ pxContainer \in [Items -> BOOLEAN]
  /\ uxNumberOfItems \in Nat /\ uxNumberOfItems = Cardinality(Members)
  /\ earlier \in [Items -> SUBSET Items] /\ since \in [Items -> SUBSET Items]
  /\ turns \in [Items -> [Items -> Nat]]
IsList(s, p) ==
  /\ IsOrder(s, uxNumberOfItems, pxContainer)
  /\ AreLinks(pxNext, pxPrevious, s, uxNumberOfItems)
  /\ p \in 0 .. uxNumberOfItems /\ pxIndex = Node(s, p)
  /\ kind = "sorted" => IsSorted(s, uxNumberOfItems, xItemValue, earlier)
  /\ kind = "turns" => TurnsRight(s, uxNumberOfItems, p, since, turns)
ListInv ==
  /\ ListTypes
  /\ \E s \in [1 .. uxNumberOfItems -> Items], p \in 0 .. uxNumberOfItems : IsList(s, p)

\* The order with item i put in after place q, and with place m taken out.
PutIn(s, n, q, i) ==
  [k \in 1 .. n + 1 |-> IF k <= q THEN s[k] ELSE IF k = q + 1 THEN i ELSE s[k - 1]]
TakenOut(s, n, m) == [k \in 1 .. n - 1 |-> IF k < m THEN s[k] ELSE s[k + 1]]

IsPutIn(w, s, n, q, i) ==
  /\ \A k \in 1 .. q : w[k] = s[k]
  /\ w[q + 1] = i
  /\ \A k \in q + 1 .. n : w[k + 1] = s[k]
IsTakenOut(w, s, n, m) ==
  /\ \A k \in 1 .. m - 1 : w[k] = s[k]
  /\ \A k \in m .. n - 1 : w[k] = s[k + 1]

LEMMA NodeFacts ==
  ASSUME ListAssumption, NEW s, NEW n, NEW in, IsOrder(s, n, in)
  PROVE  /\ \A k \in 1 .. n : Node(s, k) = s[k] /\ s[k] \in Items /\ s[k] # xListEnd
         /\ Node(s, 0) = xListEnd
         /\ \A k \in 0 .. n : Node(s, k) \in Nodes
         /\ \A k, l \in 0 .. n : Node(s, k) = Node(s, l) => k = l
  <1>1. n \in Nat /\ s \in [1 .. n -> Items] /\ \A k, l \in 1 .. n : s[k] = s[l] => k = l
    BY DEF IsOrder
  <1>2. \A k \in 1 .. n : Node(s, k) = s[k] /\ s[k] \in Items /\ s[k] # xListEnd
    BY <1>1 DEF Node, ListAssumption
  <1>3. Node(s, 0) = xListEnd
    BY DEF Node
  <1>4. \A k \in 0 .. n : k = 0 \/ k \in 1 .. n
    BY <1>1
  <1>5. \A k \in 0 .. n : Node(s, k) \in Nodes
    BY <1>2, <1>3, <1>4 DEF Nodes
  <1>6. \A k, l \in 0 .. n : Node(s, k) = Node(s, l) => k = l
    BY <1>1, <1>2, <1>3, <1>4
  <1>. QED
    BY <1>2, <1>3, <1>5, <1>6

LEMMA PutInFacts ==
  ASSUME ListAssumption, NEW s, NEW n, NEW in \in [Items -> BOOLEAN], IsOrder(s, n, in),
         NEW q \in 0 .. n, NEW i \in Items, ~in[i], NEW w, w = PutIn(s, n, q, i)
  PROVE  IsPutIn(w, s, n, q, i) /\ IsOrder(w, n + 1, [in EXCEPT ![i] = TRUE])
  <1>1. /\ n \in Nat /\ q \in Nat /\ q <= n /\ s \in [1 .. n -> Items]
        /\ \A k, l \in 1 .. n : s[k] = s[l] => k = l
        /\ \A j \in Items : in[j] <=> \E k \in 1 .. n : s[k] = j
    BY DEF IsOrder
  <1>2. /\ w \in [1 .. n + 1 -> Items]
        /\ \A k \in 1 .. n + 1 : w[k] = IF k <= q THEN s[k] ELSE IF k = q + 1 THEN i ELSE s[k - 1]
    <2>1. \A k \in 1 .. n + 1 :
            (IF k <= q THEN s[k] ELSE IF k = q + 1 THEN i ELSE s[k - 1]) \in Items
      <3>. SUFFICES ASSUME NEW k \in 1 .. n + 1
                    PROVE  (IF k <= q THEN s[k] ELSE IF k = q + 1 THEN i ELSE s[k - 1]) \in Items
        OBVIOUS
      <3>1. k <= q => k \in 1 .. n
        BY <1>1
      <3>2. k > q /\ k # q + 1 => k - 1 \in 1 .. n
        BY <1>1
      <3>3. k <= q \/ k > q
        BY <1>1
      <3>. QED
        BY <1>1, <3>1, <3>2, <3>3
    <2>. QED
      BY <2>1 DEF PutIn
  <1>3. \A k \in 1 .. q : w[k] = s[k]
    BY <1>1, <1>2
  <1>4. w[q + 1] = i
    BY <1>1, <1>2
  <1>5. \A k \in q + 1 .. n : w[k + 1] = s[k]
    <2>. SUFFICES ASSUME NEW k \in q + 1 .. n PROVE w[k + 1] = s[k]
      OBVIOUS
    <2>1. k + 1 \in 1 .. n + 1 /\ k + 1 > q + 1 /\ k + 1 - 1 = k
      BY <1>1
    <2>2. ~(k + 1 <= q) /\ k + 1 # q + 1
      BY <1>1, <2>1
    <2>. QED
      BY <1>2, <2>1, <2>2
  \* Where the items come from.
  <1>. DEFINE at(k) == IF k <= q THEN k ELSE k - 1
  <1>6. \A k \in 1 .. n + 1 : k # q + 1 => at(k) \in 1 .. n /\ w[k] = s[at(k)]
    BY <1>1, <1>2
  <1>7. \A k, l \in 1 .. n + 1 : k # q + 1 /\ l # q + 1 /\ at(k) = at(l) => k = l
    BY <1>1
  <1>. HIDE DEF at
  <1>8. \A k \in 1 .. n : s[k] # i
    BY <1>1
  <1>9. \A k, l \in 1 .. n + 1 : w[k] = w[l] => k = l
    <2>. SUFFICES ASSUME NEW k \in 1 .. n + 1, NEW l \in 1 .. n + 1, w[k] = w[l] PROVE k = l
      OBVIOUS
    <2>1. CASE k # q + 1 /\ l # q + 1
      BY <1>1, <1>6, <1>7, <2>1
    <2>2. CASE k = q + 1
      BY <1>4, <1>6, <1>8, <2>2
    <2>3. CASE l = q + 1
      BY <1>4, <1>6, <1>8, <2>3
    <2>. QED
      BY <2>1, <2>2, <2>3
  <1>10. \A j \in Items : [in EXCEPT ![i] = TRUE][j] <=> \E k \in 1 .. n + 1 : w[k] = j
    <2>. SUFFICES ASSUME NEW j \in Items
                  PROVE  [in EXCEPT ![i] = TRUE][j] <=> \E k \in 1 .. n + 1 : w[k] = j
      OBVIOUS
    <2>1. CASE j = i
      <3>1. q + 1 \in 1 .. n + 1
        BY <1>1
      <3>. QED
        BY <1>4, <2>1, <3>1
    <2>2. CASE j # i
      <3>1. ASSUME NEW k \in 1 .. n, s[k] = j PROVE \E l \in 1 .. n + 1 : w[l] = j
        <4>1. (k \in 1 .. q /\ k \in 1 .. n + 1) \/ (k \in q + 1 .. n /\ k + 1 \in 1 .. n + 1)
          BY <1>1
        <4>. QED
          BY <1>3, <1>5, <3>1, <4>1
      <3>2. ASSUME NEW k \in 1 .. n + 1, w[k] = j PROVE \E l \in 1 .. n : s[l] = j
        BY <1>4, <1>6, <2>2, <3>2
      <3>. QED
        BY <1>1, <2>2, <3>1, <3>2
    <2>. QED
      BY <2>1, <2>2
  <1>11. IsOrder(w, n + 1, [in EXCEPT ![i] = TRUE])
    BY <1>1, <1>2, <1>9, <1>10 DEF IsOrder
  <1>. QED
    BY <1>3, <1>4, <1>5, <1>11 DEF IsPutIn

LEMMA TakenOutFacts ==
  ASSUME ListAssumption, NEW s, NEW n, NEW in \in [Items -> BOOLEAN], IsOrder(s, n, in),
         NEW m \in 1 .. n, NEW w, w = TakenOut(s, n, m)
  PROVE  IsTakenOut(w, s, n, m) /\ IsOrder(w, n - 1, [in EXCEPT ![s[m]] = FALSE])
  <1>1. /\ n \in Nat /\ m \in Nat /\ m >= 1 /\ m <= n /\ s \in [1 .. n -> Items]
        /\ \A k, l \in 1 .. n : s[k] = s[l] => k = l
        /\ \A j \in Items : in[j] <=> \E k \in 1 .. n : s[k] = j
        /\ s[m] \in Items
    BY DEF IsOrder
  <1>. DEFINE at(k) == IF k < m THEN k ELSE k + 1
  <1>2. \A k \in 1 .. n - 1 : at(k) \in 1 .. n /\ at(k) # m
    BY <1>1
  <1>3. w \in [1 .. n - 1 -> Items] /\ \A k \in 1 .. n - 1 : w[k] = s[at(k)]
    <2>1. \A k \in 1 .. n - 1 : s[at(k)] \in Items
      <3>. HIDE DEF at
      <3>. QED
        BY <1>1, <1>2
    <2>2. w = [k \in 1 .. n - 1 |-> s[at(k)]]
      BY DEF TakenOut
    <2>. HIDE DEF at
    <2>. QED
      BY <2>1, <2>2
  <1>4. \A k \in 1 .. m - 1 : w[k] = s[k]
    BY <1>1, <1>3
  <1>5. \A k \in m .. n - 1 : w[k] = s[k + 1]
    BY <1>1, <1>3
  <1>6. \A k, l \in 1 .. n - 1 : at(k) = at(l) => k = l
    BY <1>1
  <1>7. \A k \in 1 .. n : k # m => \E l \in 1 .. n - 1 : at(l) = k
    <2>. SUFFICES ASSUME NEW k \in 1 .. n, k # m PROVE \E l \in 1 .. n - 1 : at(l) = k
      OBVIOUS
    <2>1. CASE k < m
      <3>1. k \in 1 .. n - 1 /\ at(k) = k
        BY <1>1, <2>1
      <3>. QED
        BY <3>1
    <2>2. CASE k > m
      <3>1. k - 1 \in 1 .. n - 1 /\ at(k - 1) = k
        BY <1>1, <2>2
      <3>. QED
        BY <3>1
    <2>. QED
      BY <1>1, <2>1, <2>2
  <1>. HIDE DEF at
  <1>8. \A k, l \in 1 .. n - 1 : w[k] = w[l] => k = l
    BY <1>1, <1>2, <1>3, <1>6
  <1>9. \A j \in Items : [in EXCEPT ![s[m]] = FALSE][j] <=> \E k \in 1 .. n - 1 : w[k] = j
    <2>. SUFFICES ASSUME NEW j \in Items
                  PROVE  [in EXCEPT ![s[m]] = FALSE][j] <=> \E k \in 1 .. n - 1 : w[k] = j
      OBVIOUS
    <2>1. CASE j = s[m]
      <3>1. \A k \in 1 .. n - 1 : w[k] # s[m]
        BY <1>1, <1>2, <1>3
      <3>. QED
        BY <1>1, <2>1, <3>1
    <2>2. CASE j # s[m]
      <3>1. ASSUME NEW k \in 1 .. n, s[k] = j PROVE \E l \in 1 .. n - 1 : w[l] = j
        <4>1. PICK l \in 1 .. n - 1 : at(l) = k
          BY <1>7, <2>2, <3>1
        <4>. QED
          BY <1>3, <3>1, <4>1
      <3>2. ASSUME NEW k \in 1 .. n - 1, w[k] = j PROVE \E l \in 1 .. n : s[l] = j
        BY <1>2, <1>3, <3>2
      <3>. QED
        BY <1>1, <2>2, <3>1, <3>2
    <2>. QED
      BY <2>1, <2>2
  <1>10. IsOrder(w, n - 1, [in EXCEPT ![s[m]] = FALSE])
    <2>1. n - 1 \in Nat
      BY <1>1
    <2>. QED
      BY <1>3, <1>8, <1>9, <2>1 DEF IsOrder
  <1>. QED
    BY <1>4, <1>5, <1>10 DEF IsTakenOut

\* The links with item i linked in after place q, and with the one at place m linked out.
LEMMA LinkedIn ==
  ASSUME ListAssumption, NEW s, NEW n, NEW in \in [Items -> BOOLEAN], IsOrder(s, n, in),
         NEW next \in [Nodes -> Nodes], NEW prev \in [Nodes -> Nodes], AreLinks(next, prev, s, n),
         NEW q \in 0 .. n, NEW i \in Items, ~in[i], NEW p, p = Node(s, q),
         NEW w, w = PutIn(s, n, q, i)
  PROVE  AreLinks([next EXCEPT ![i] = next[p], ![p] = i],
                  [prev EXCEPT ![i] = p, ![next[p]] = i], w, n + 1)
  <1>. DEFINE b == next[p]
              x == [next EXCEPT ![i] = b, ![p] = i]
              y == [prev EXCEPT ![i] = p, ![b] = i]
  <1>1. /\ n \in Nat /\ q \in Nat /\ q <= n /\ i \in Nodes /\ i # xListEnd
        /\ \A k \in 1 .. n : s[k] # i
    BY DEF IsOrder, Nodes, ListAssumption
  <1>2. /\ \A k \in 1 .. n : Node(s, k) = s[k] /\ s[k] \in Items /\ s[k] # xListEnd
        /\ Node(s, 0) = xListEnd
        /\ \A k \in 0 .. n : Node(s, k) \in Nodes
        /\ \A k, l \in 0 .. n : Node(s, k) = Node(s, l) => k = l
    BY NodeFacts
  <1>3. /\ \A k \in 1 .. q : w[k] = s[k]
        /\ w[q + 1] = i
        /\ \A k \in q + 1 .. n : w[k + 1] = s[k]
    <2>1. IsPutIn(w, s, n, q, i)
      BY PutInFacts, Zenon
    <2>. QED
      BY <2>1, Zenon DEF IsPutIn
  <1>4. /\ \A k \in 0 .. q : Node(w, k) = Node(s, k)
        /\ Node(w, q + 1) = i
        /\ \A k \in q + 1 .. n : Node(w, k + 1) = Node(s, k)
    BY <1>1, <1>3 DEF Node
  <1>5. /\ \A k \in 1 .. n : next[Node(s, k - 1)] = s[k] /\ prev[s[k]] = Node(s, k - 1)
        /\ next[Node(s, n)] = xListEnd /\ prev[xListEnd] = Node(s, n)
    BY DEF AreLinks
  <1>6. \A k \in 0 .. n : Node(s, k) # i
    BY <1>1, <1>2
  <1>7. b = IF q = n THEN xListEnd ELSE s[q + 1]
    <2>1. q # n => q + 1 \in 1 .. n /\ q + 1 - 1 = q
      BY <1>1
    <2>. QED
      BY <1>5, <2>1
  <1>8. p \in Nodes /\ b \in Nodes /\ p # i /\ b # i
    BY <1>1, <1>2, <1>6, <1>7
  <1>9. /\ x[i] = b /\ x[p] = i /\ \A a \in Nodes : a # i /\ a # p => x[a] = next[a]
        /\ y[i] = p /\ y[b] = i /\ \A a \in Nodes : a # i /\ a # b => y[a] = prev[a]
    BY <1>1, <1>8
  <1>. HIDE DEF b, x, y
  <1>10. \A k \in 1 .. n + 1 : x[Node(w, k - 1)] = w[k] /\ y[w[k]] = Node(w, k - 1)
    <2>. SUFFICES ASSUME NEW k \in 1 .. n + 1
                  PROVE  x[Node(w, k - 1)] = w[k] /\ y[w[k]] = Node(w, k - 1)
      OBVIOUS
    <2>1. CASE k <= q
      <3>1. k \in 1 .. n /\ k \in 0 .. n /\ k - 1 \in 0 .. n /\ k - 1 \in 0 .. q /\ k - 1 # q
            /\ k \in 1 .. q /\ (q # n => q + 1 \in 0 .. n /\ k # q + 1 /\ q + 1 \in 1 .. n)
            /\ q \in 0 .. n /\ k # 0 /\ 0 \in 0 .. n
        BY <1>1, <2>1
      <3>2. Node(w, k - 1) = Node(s, k - 1) /\ w[k] = s[k] /\ s[k] = Node(s, k)
        BY <1>2, <1>3, <1>4, <3>1
      <3>3. Node(s, k - 1) # p /\ Node(s, k - 1) # i /\ s[k] # i /\ Node(s, k - 1) \in Nodes
            /\ s[k] \in Nodes
        BY <1>2, <1>6, <3>1, <3>2
      <3>4. s[k] # b
        BY <1>2, <1>7, <3>1, <3>2
      <3>. QED
        BY <1>5, <1>9, <3>1, <3>2, <3>3, <3>4
    <2>2. CASE k = q + 1
      <3>1. k - 1 = q /\ q \in 0 .. q
        BY <1>1, <2>2
      <3>. QED
        BY <1>3, <1>4, <1>9, <2>2, <3>1
    <2>3. CASE k = q + 2
      <3>1. k - 1 = q + 1 /\ q + 1 \in q + 1 .. n /\ q + 1 + 1 = k /\ q # n
        BY <1>1, <2>3
      <3>2. Node(w, k - 1) = i /\ w[k] = s[q + 1] /\ b = s[q + 1]
        BY <1>3, <1>4, <1>7, <3>1
      <3>. QED
        BY <1>9, <3>2
    <2>4. CASE k > q + 2
      <3>. DEFINE l == k - 1
      <3>1. /\ l \in q + 1 .. n /\ l - 1 \in q + 1 .. n /\ l + 1 = k /\ l - 1 + 1 = k - 1
            /\ l \in 1 .. n /\ l - 1 \in 0 .. n /\ l - 1 # q /\ l # q + 1 /\ q # n /\ l \in 0 .. n
            /\ q + 1 \in 0 .. n /\ q \in 0 .. n /\ q + 1 \in 1 .. n
        BY <1>1, <2>4
      <3>. HIDE DEF l
      <3>2. Node(w, k - 1) = Node(s, l - 1) /\ w[k] = s[l] /\ s[l] = Node(s, l)
        BY <1>2, <1>3, <1>4, <3>1
      <3>3. Node(s, l - 1) # p /\ Node(s, l - 1) # i /\ s[l] # i /\ Node(s, l - 1) \in Nodes
            /\ s[l] \in Nodes
        BY <1>2, <1>6, <3>1, <3>2
      <3>4. s[l] # b
        BY <1>2, <1>7, <3>1, <3>2
      <3>. QED
        BY <1>5, <1>9, <3>1, <3>2, <3>3, <3>4
    <2>. QED
      BY <1>1, <2>1, <2>2, <2>3, <2>4
  <1>11. x[Node(w, n + 1)] = xListEnd /\ y[xListEnd] = Node(w, n + 1)
    <2>1. CASE q = n
      BY <1>4, <1>7, <1>9, <2>1
    <2>2. CASE q # n
      <3>1. n \in q + 1 .. n /\ n \in 0 .. n /\ q \in 0 .. n /\ q + 1 \in 1 .. n
        BY <1>1, <2>2
      <3>2. Node(w, n + 1) = Node(s, n) /\ Node(s, n) # p /\ Node(s, n) # i /\ Node(s, n) \in Nodes
        BY <1>2, <1>4, <1>6, <2>2, <3>1
      <3>3. xListEnd # b /\ xListEnd \in Nodes
        BY <1>2, <1>7, <2>2, <3>1 DEF Nodes
      <3>. QED
        BY <1>1, <1>5, <1>9, <3>2, <3>3
    <2>. QED
      BY <2>1, <2>2
  <1>12. n + 1 \in Nat
    BY <1>1
  <1>13. AreLinks(x, y, w, n + 1)
    BY <1>10, <1>11 DEF AreLinks
  <1>. QED
    BY <1>13 DEF x, y, b

AreLinkedOut(x, y, next, prev, i) ==
  x = [next EXCEPT ![prev[i]] = next[i]] /\ y = [prev EXCEPT ![next[i]] = prev[i]]

LEMMA LinkedOut ==
  ASSUME ListAssumption, NEW s, NEW n, NEW in \in [Items -> BOOLEAN], IsOrder(s, n, in),
         NEW next \in [Nodes -> Nodes], NEW prev \in [Nodes -> Nodes], AreLinks(next, prev, s, n),
         NEW m \in 1 .. n, NEW w, w = TakenOut(s, n, m),
         NEW x, NEW y, AreLinkedOut(x, y, next, prev, s[m])
  PROVE  AreLinks(x, y, w, n - 1) /\ prev[s[m]] = Node(s, m - 1)
  <1>. DEFINE i == s[m]
              a == prev[i]
              b == next[i]
  <1>1. n \in Nat /\ m \in Nat /\ m >= 1 /\ m <= n
    BY DEF IsOrder
  <1>2. /\ \A k \in 1 .. n : Node(s, k) = s[k] /\ s[k] \in Items /\ s[k] # xListEnd
        /\ Node(s, 0) = xListEnd
        /\ \A k \in 0 .. n : Node(s, k) \in Nodes
        /\ \A k, l \in 0 .. n : Node(s, k) = Node(s, l) => k = l
    BY NodeFacts
  <1>3. /\ \A k \in 1 .. m - 1 : w[k] = s[k]
        /\ \A k \in m .. n - 1 : w[k] = s[k + 1]
    <2>1. IsTakenOut(w, s, n, m)
      BY TakenOutFacts, Zenon
    <2>. QED
      BY <2>1, Zenon DEF IsTakenOut
  <1>4. /\ \A k \in 0 .. m - 1 : Node(w, k) = Node(s, k)
        /\ \A k \in m .. n - 1 : Node(w, k) = Node(s, k + 1)
    BY <1>1, <1>3 DEF Node
  <1>5. /\ \A k \in 1 .. n : next[Node(s, k - 1)] = s[k] /\ prev[s[k]] = Node(s, k - 1)
        /\ next[Node(s, n)] = xListEnd /\ prev[xListEnd] = Node(s, n)
    BY DEF AreLinks
  <1>6. a = Node(s, m - 1) /\ b = IF m = n THEN xListEnd ELSE s[m + 1]
    <2>1. m \in 1 .. n /\ (m # n => m + 1 \in 1 .. n /\ m + 1 - 1 = m)
      BY <1>1
    <2>2. i = Node(s, m) /\ a = Node(s, m - 1)
      BY <1>2, <1>5
    <2>3. CASE m = n
      BY <1>5, <2>2, <2>3
    <2>4. CASE m # n
      <3>1. next[Node(s, m + 1 - 1)] = s[m + 1]
        BY <1>5, <2>1, <2>4
      <3>2. next[Node(s, m)] = s[m + 1]
        BY <2>1, <2>4, <3>1
      <3>. QED
        BY <2>2, <2>4, <3>2
    <2>. QED
      BY <2>3, <2>4
  <1>7. a \in Nodes /\ b \in Nodes
    <2>1. m - 1 \in 0 .. n /\ (m # n => m + 1 \in 1 .. n)
      BY <1>1
    <2>. QED
      BY <1>2, <1>6, <2>1 DEF Nodes
  <1>8. /\ x[a] = b /\ \A c \in Nodes : c # a => x[c] = next[c]
        /\ y[b] = a /\ \A c \in Nodes : c # b => y[c] = prev[c]
    BY <1>7 DEF AreLinkedOut
  <1>. HIDE DEF a, b
  <1>9. \A k \in 1 .. n - 1 : x[Node(w, k - 1)] = w[k] /\ y[w[k]] = Node(w, k - 1)
    <2>. SUFFICES ASSUME NEW k \in 1 .. n - 1
                  PROVE  x[Node(w, k - 1)] = w[k] /\ y[w[k]] = Node(w, k - 1)
      OBVIOUS
    <2>1. CASE k < m
      <3>1. /\ k \in 1 .. n /\ k \in 0 .. n /\ k - 1 \in 0 .. n /\ k - 1 \in 0 .. m - 1
            /\ k - 1 # m - 1 /\ m - 1 \in 0 .. n /\ k \in 1 .. m - 1 /\ k # 0 /\ 0 \in 0 .. n
            /\ (m # n => m + 1 \in 0 .. n /\ m + 1 \in 1 .. n /\ k # m + 1)
        BY <1>1, <2>1
      <3>2. Node(w, k - 1) = Node(s, k - 1) /\ w[k] = s[k] /\ s[k] = Node(s, k)
        BY <1>2, <1>3, <1>4, <3>1
      <3>3. Node(s, k - 1) # a /\ Node(s, k - 1) \in Nodes /\ s[k] \in Nodes
        BY <1>2, <1>6, <3>1, <3>2
      <3>4. s[k] # b
        BY <1>2, <1>6, <3>1, <3>2
      <3>. QED
        BY <1>5, <1>8, <3>1, <3>2, <3>3, <3>4
    <2>2. CASE k = m
      <3>1. m # n /\ m \in m .. n - 1 /\ m - 1 \in 0 .. m - 1
        BY <1>1, <2>2
      <3>2. Node(w, k - 1) = a /\ w[k] = b
        BY <1>3, <1>4, <1>6, <2>2, <3>1
      <3>. QED
        BY <1>8, <3>2
    <2>3. CASE k > m
      <3>1. /\ k \in m .. n - 1 /\ k - 1 \in m .. n - 1 /\ k - 1 + 1 = k /\ k + 1 \in 1 .. n
            /\ k + 1 - 1 = k /\ k \in 0 .. n /\ k + 1 \in 0 .. n /\ k # m - 1 /\ m - 1 \in 0 .. n
            /\ m # n /\ m + 1 \in 0 .. n /\ m + 1 \in 1 .. n /\ k + 1 # m + 1
        BY <1>1, <2>3
      <3>2. Node(w, k - 1) = Node(s, k) /\ w[k] = s[k + 1] /\ s[k + 1] = Node(s, k + 1)
        BY <1>2, <1>3, <1>4, <3>1
      <3>3. Node(s, k) # a /\ Node(s, k) \in Nodes /\ s[k + 1] \in Nodes
        BY <1>2, <1>6, <3>1, <3>2
      <3>4. s[k + 1] # b
        BY <1>2, <1>6, <3>1, <3>2
      <3>5. next[Node(s, k)] = s[k + 1] /\ prev[s[k + 1]] = Node(s, k)
        BY <1>5, <3>1
      <3>. QED
        BY <1>8, <3>2, <3>3, <3>4, <3>5
    <2>. QED
      BY <1>1, <2>1, <2>2, <2>3
  <1>10. x[Node(w, n - 1)] = xListEnd /\ y[xListEnd] = Node(w, n - 1)
    <2>1. CASE m = n
      <3>1. n - 1 \in 0 .. m - 1
        BY <1>1, <2>1
      <3>. QED
        BY <1>4, <1>6, <1>8, <2>1, <3>1
    <2>2. CASE m # n
      <3>1. /\ n - 1 \in m .. n - 1 /\ n - 1 + 1 = n /\ n \in 0 .. n /\ n # m - 1
            /\ m - 1 \in 0 .. n /\ m + 1 \in 1 .. n
        BY <1>1, <2>2
      <3>2. Node(w, n - 1) = Node(s, n) /\ Node(s, n) # a /\ Node(s, n) \in Nodes
        BY <1>2, <1>4, <1>6, <3>1
      <3>3. xListEnd # b /\ xListEnd \in Nodes
        BY <1>2, <1>6, <2>2, <3>1 DEF Nodes
      <3>. QED
        BY <1>5, <1>8, <3>2, <3>3
    <2>. QED
      BY <2>1, <2>2
  <1>11. AreLinks(x, y, w, n - 1)
    BY <1>9, <1>10 DEF AreLinks
  <1>. QED
    BY <1>6, <1>11 DEF a, b

\* What the operations do to the order of values.
\* The place for value v is the one after place q.
Fits(s, n, q, value, v) ==
  /\ \A k \in 1 .. q : value[s[k]] <= v
  /\ \A k \in q + 1 .. n : value[s[k]] > v

IsInserted(s, n, in, value, early, q, i, v) ==
  /\ IsOrder(s, n, in) /\ IsSorted(s, n, value, early)
  /\ value \in [Items -> Nat] /\ early \in [Items -> SUBSET Items]
  /\ q \in 0 .. n /\ i \in Items /\ ~in[i] /\ v \in Nat /\ Fits(s, n, q, value, v)
AreInserted(x, y, in, value, early, i, v) ==
  x = [value EXCEPT ![i] = v] /\ y = [early EXCEPT ![i] = {j \in Items : in[j]}]

LEMMA SortedIn ==
  ASSUME NEW s, NEW n, NEW in, NEW value, NEW early, NEW q, NEW i, NEW v,
         IsInserted(s, n, in, value, early, q, i, v), NEW w, IsPutIn(w, s, n, q, i),
         NEW x, NEW y, AreInserted(x, y, in, value, early, i, v)
  PROVE  IsSorted(w, n + 1, x, y)
  <1>. USE DEF IsInserted, AreInserted
  <1>1. /\ n \in Nat /\ q \in Nat /\ q <= n /\ \A k \in 1 .. n : s[k] \in Items
        /\ \A k \in 1 .. n : s[k] # i /\ in[s[k]]
        /\ \A k \in 1 .. q : value[s[k]] <= v
        /\ \A k \in q + 1 .. n : value[s[k]] > v
    BY DEF IsOrder, Fits
  <1>2. /\ x[i] = v /\ \A j \in Items : j # i => x[j] = value[j]
        /\ y[i] = {j \in Items : in[j]} /\ \A j \in Items : j # i => y[j] = early[j]
    OBVIOUS
  <1>. DEFINE at(k) == IF k <= q THEN k ELSE k - 1
  <1>3. \A k \in 1 .. n + 1 : k # q + 1 => at(k) \in 1 .. n /\ w[k] = s[at(k)]
    <2>. SUFFICES ASSUME NEW k \in 1 .. n + 1, k # q + 1
                  PROVE  at(k) \in 1 .. n /\ w[k] = s[at(k)]
      OBVIOUS
    <2>1. CASE k <= q
      BY <1>1, <2>1 DEF IsPutIn
    <2>2. CASE k > q
      <3>1. k - 1 \in q + 1 .. n /\ k - 1 + 1 = k /\ ~(k <= q)
        BY <1>1, <2>2
      <3>2. w[k - 1 + 1] = s[k - 1]
        BY <3>1 DEF IsPutIn
      <3>. QED
        BY <1>1, <3>1, <3>2
    <2>. QED
      BY <1>1, <2>1, <2>2
  <1>4. \A k, l \in 1 .. n + 1 : k # q + 1 /\ l # q + 1 /\ k < l => at(k) < at(l)
    BY <1>1
  <1>5. /\ \A k \in 1 .. n + 1 : k < q + 1 => at(k) \in 1 .. q
        /\ \A k \in 1 .. n + 1 : k > q + 1 => at(k) \in q + 1 .. n
    BY <1>1
  <1>6. w[q + 1] = i
    BY DEF IsPutIn
  <1>. HIDE DEF at
  <1>7. \A k \in 1 .. n + 1 : k # q + 1 => w[k] \in Items /\ w[k] # i /\ in[w[k]]
    BY <1>1, <1>3
  <1>. SUFFICES ASSUME NEW k \in 1 .. n + 1, NEW l \in 1 .. n + 1, k < l
                PROVE  \/ x[w[k]] < x[w[l]]
                       \/ x[w[k]] = x[w[l]] /\ w[k] \in y[w[l]]
    BY DEF IsSorted
  <1>8. CASE k # q + 1 /\ l # q + 1
    <2>1. x[w[k]] = value[s[at(k)]] /\ x[w[l]] = value[s[at(l)]] /\ y[w[l]] = early[s[at(l)]]
          /\ w[k] = s[at(k)]
      BY <1>2, <1>3, <1>7, <1>8
    <2>2. at(k) \in 1 .. n /\ at(l) \in 1 .. n /\ at(k) < at(l)
      BY <1>3, <1>4, <1>8
    <2>. QED
      BY <2>1, <2>2 DEF IsSorted
  <1>9. CASE l = q + 1
    <2>1. k # q + 1 /\ k < q + 1
      BY <1>1, <1>9
    <2>2. x[w[k]] = value[s[at(k)]] /\ x[w[l]] = v /\ w[k] \in y[w[l]]
      BY <1>2, <1>3, <1>6, <1>7, <1>9, <2>1
    <2>3. value[s[at(k)]] <= v /\ value[s[at(k)]] \in Nat
      BY <1>1, <1>3, <1>5, <2>1
    <2>. QED
      BY <2>2, <2>3
  <1>10. CASE k = q + 1
    <2>1. l # q + 1 /\ l > q + 1
      BY <1>1, <1>10
    <2>2. x[w[l]] = value[s[at(l)]] /\ x[w[k]] = v
      BY <1>2, <1>3, <1>6, <1>7, <1>10, <2>1
    <2>3. value[s[at(l)]] > v /\ value[s[at(l)]] \in Nat
      BY <1>1, <1>3, <1>5, <2>1
    <2>. QED
      BY <2>2, <2>3
  <1>. QED
    BY <1>8, <1>9, <1>10

IsDropped(y, early, i) == y = [j \in Items |-> IF j = i THEN {} ELSE early[j] \ {i}]

LEMMA SortedOut ==
  ASSUME NEW s, NEW n, NEW in, IsOrder(s, n, in), NEW value, NEW early,
         IsSorted(s, n, value, early), NEW m \in 1 .. n, NEW w, IsTakenOut(w, s, n, m),
         NEW y, IsDropped(y, early, s[m])
  PROVE  IsSorted(w, n - 1, value, y)
  <1>. DEFINE at(k) == IF k < m THEN k ELSE k + 1
  <1>1. /\ n \in Nat /\ m \in Nat /\ m >= 1 /\ m <= n /\ \A k \in 1 .. n : s[k] \in Items
        /\ \A k, l \in 1 .. n : s[k] = s[l] => k = l
    BY DEF IsOrder
  <1>2. \A k \in 1 .. n - 1 : at(k) \in 1 .. n /\ at(k) # m /\ w[k] = s[at(k)]
    BY <1>1 DEF IsTakenOut
  <1>3. \A k, l \in 1 .. n - 1 : k < l => at(k) < at(l)
    BY <1>1
  <1>. HIDE DEF at
  <1>4. \A k \in 1 .. n - 1 : w[k] \in Items /\ w[k] # s[m]
    BY <1>1, <1>2
  <1>5. \A k \in 1 .. n - 1 : y[w[k]] = early[w[k]] \ {s[m]}
    BY <1>4 DEF IsDropped
  <1>. SUFFICES ASSUME NEW k \in 1 .. n - 1, NEW l \in 1 .. n - 1, k < l
                PROVE  \/ value[w[k]] < value[w[l]]
                       \/ value[w[k]] = value[w[l]] /\ w[k] \in y[w[l]]
    BY DEF IsSorted
  <1>6. \/ value[w[k]] < value[w[l]]
        \/ value[w[k]] = value[w[l]] /\ w[k] \in early[w[l]]
    BY <1>2, <1>3 DEF IsSorted
  <1>. QED
    BY <1>4, <1>5, <1>6

\* What they do to the order of turns.
TurnsBefore(s, n, in, p, had, count, q, i) ==
  /\ IsOrder(s, n, in) /\ TurnsRight(s, n, p, had, count)
  /\ count \in [Items -> [Items -> Nat]] /\ ~in[i] /\ q = IF p = 0 THEN n ELSE p - 1
TurnsWith(x, y, had, count, i) ==
  /\ x = [j \in Items |-> IF j = i THEN {} ELSE had[j] \ {i}]
  /\ y = [count EXCEPT ![i] = [j \in Items |-> 0]]

LEMMA TurnsIn ==
  ASSUME NEW s, NEW n, NEW in, NEW p \in 0 .. n, NEW had, NEW count, NEW q, NEW i \in Items,
         TurnsBefore(s, n, in, p, had, count, q, i), NEW w, IsPutIn(w, s, n, q, i),
         NEW r, r = IF p = 0 THEN 0 ELSE p + 1, NEW x, NEW y, TurnsWith(x, y, had, count, i)
  PROVE  TurnsRight(w, n + 1, r, x, y)
  <1>. USE DEF TurnsBefore, TurnsWith
  <1>. DEFINE
              at(k) == IF k <= q THEN k ELSE k - 1
              old(k) == TurnOf(k, p, n)
              new(k) == TurnOf(k, r, n + 1)
  <1>1. /\ n \in Nat /\ p \in Nat /\ p <= n /\ q \in Nat /\ q <= n /\ r \in Nat
        /\ \A k \in 1 .. n : s[k] \in Items /\ s[k] # i
    <2>1. n \in Nat /\ p \in Nat /\ p <= n
      BY DEF IsOrder
    <2>2. q \in Nat /\ q <= n /\ r \in Nat
      BY <2>1
    <2>3. \A k \in 1 .. n : s[k] \in Items /\ s[k] # i
      BY DEF IsOrder
    <2>. QED
      BY <2>1, <2>2, <2>3
  <1>2. /\ x[i] = {} /\ \A j \in Items : j # i => x[j] = had[j] \ {i}
        /\ \A j \in Items : y[i][j] = 0
        /\ \A j \in Items : j # i => y[j] = count[j]
    OBVIOUS
  <1>3. \A k \in 1 .. n + 1 : k # q + 1 => at(k) \in 1 .. n /\ w[k] = s[at(k)]
    <2>. SUFFICES ASSUME NEW k \in 1 .. n + 1, k # q + 1
                  PROVE  at(k) \in 1 .. n /\ w[k] = s[at(k)]
      OBVIOUS
    <2>1. CASE k <= q
      BY <1>1, <2>1 DEF IsPutIn
    <2>2. CASE k > q
      <3>1. k - 1 \in q + 1 .. n /\ k - 1 + 1 = k /\ ~(k <= q)
        BY <1>1, <2>2
      <3>2. w[k - 1 + 1] = s[k - 1]
        BY <3>1 DEF IsPutIn
      <3>. QED
        BY <1>1, <3>1, <3>2
    <2>. QED
      BY <1>1, <2>1, <2>2
  <1>4. \A k, l \in 1 .. n + 1 :
          k # q + 1 /\ l # q + 1 =>
            /\ k < l <=> at(k) < at(l)
            /\ new(k) < new(l) <=> old(at(k)) < old(at(l))
    BY <1>1 DEF TurnOf
  <1>5. \A k \in 1 .. n + 1 : k # q + 1 => (k > r <=> at(k) > p)
    BY <1>1
  <1>6. \A k \in 1 .. n + 1 :
          k # q + 1 /\ new(q + 1) < new(k) => at(k) = p /\ q + 1 < k
    BY <1>1 DEF TurnOf
  <1>7. w[q + 1] = i /\ q + 1 \in 1 .. n + 1
    BY <1>1 DEF IsPutIn
  <1>8. \A k \in 1 .. n :
          /\ \A l \in 1 .. n : s[l] \in had[s[k]] => old(k) < old(l)
          /\ \A j \in Items : count[s[k]][j] <= 2 /\ (count[s[k]][j] = 2 => k > p)
          /\ \A l \in 1 .. n :
               old(l) < old(k) => count[s[k]][s[l]] <= 1 /\ (count[s[k]][s[l]] = 1 => l < k)
    BY DEF TurnsRight
  <1>9. \A k \in 1 .. n, j \in Items : count[s[k]][j] \in Nat
    BY <1>1
  <1>. HIDE DEF TurnsBefore, TurnsWith, at, old, new
  <1>. DEFINE Had(k)    == \A l \in 1 .. n + 1 : w[l] \in x[w[k]] => new(k) < new(l)
              Twice(k)  == \A j \in Items : y[w[k]][j] <= 2 /\ (y[w[k]][j] = 2 => k > r)
              Before(k) == \A l \in 1 .. n + 1 :
                             new(l) < new(k) => y[w[k]][w[l]] <= 1 /\ (y[w[k]][w[l]] = 1 => l < k)
  <1>10. \A l \in 1 .. n + 1 : w[l] \in Items
    BY <1>1, <1>3, <1>7
  <1>11. ASSUME NEW k \in 1 .. n + 1 PROVE Had(k) /\ Twice(k) /\ Before(k)
    <2>1. CASE k = q + 1
      <3>1. x[w[k]] = {} /\ \A j \in Items : y[w[k]][j] = 0
        BY <1>2, <1>7, <2>1
      <3>. QED
        BY <1>10, <3>1
    <2>2. CASE k # q + 1
      <3>. DEFINE o == at(k)
      <3>1. o \in 1 .. n /\ w[k] = s[o] /\ w[k] \in Items /\ w[k] # i
        BY <1>1, <1>3, <2>2
      <3>2. x[w[k]] = had[s[o]] \ {i} /\ y[w[k]] = count[s[o]]
        BY <1>2, <3>1
      <3>3. Had(k)
        <4>. SUFFICES ASSUME NEW l \in 1 .. n + 1, w[l] \in x[w[k]] PROVE new(k) < new(l)
          OBVIOUS
        <4>1. w[l] # i /\ l # q + 1 /\ w[l] \in had[s[o]]
          BY <1>7, <3>2
        <4>2. at(l) \in 1 .. n /\ w[l] = s[at(l)]
          BY <1>3, <4>1
        <4>3. old(o) < old(at(l))
          BY <1>8, <3>1, <4>1, <4>2
        <4>. QED
          BY <1>4, <2>2, <4>1, <4>3
      <3>4. Twice(k)
        BY <1>5, <1>8, <2>2, <3>1, <3>2
      <3>5. Before(k)
        <4>. SUFFICES ASSUME NEW l \in 1 .. n + 1, new(l) < new(k)
                      PROVE  y[w[k]][w[l]] <= 1 /\ (y[w[k]][w[l]] = 1 => l < k)
          OBVIOUS
        <4>1. CASE l = q + 1
          <5>1. o = p /\ l < k /\ o \in Nat
            BY <1>1, <1>6, <2>2, <4>1
          <5>2. count[s[o]][i] <= 2 /\ count[s[o]][i] # 2 /\ count[s[o]][i] \in Nat
            BY <1>8, <1>9, <3>1, <5>1
          <5>. QED
            BY <1>7, <3>2, <4>1, <5>1, <5>2
        <4>2. CASE l # q + 1
          <5>1. at(l) \in 1 .. n /\ w[l] = s[at(l)]
            BY <1>3, <4>2
          <5>2. old(at(l)) < old(o) /\ (l < k <=> at(l) < o)
            BY <1>4, <2>2, <4>2
          <5>. QED
            BY <1>8, <3>1, <3>2, <5>1, <5>2
        <4>. QED
          BY <4>1, <4>2
      <3>. QED
        BY <3>3, <3>4, <3>5
    <2>. QED
      BY <2>1, <2>2
  <1>. QED
    BY <1>11, Zenon DEF TurnsRight, new

LEMMA TurnsOut ==
  ASSUME NEW s, NEW n, NEW in, IsOrder(s, n, in), NEW p \in 0 .. n, NEW had, NEW count,
         TurnsRight(s, n, p, had, count), NEW m \in 1 .. n, NEW w, IsTakenOut(w, s, n, m),
         NEW r, r = IF m <= p THEN p - 1 ELSE p
  PROVE  TurnsRight(w, n - 1, r, had, count)
  <1>. DEFINE at(k) == IF k < m THEN k ELSE k + 1
              old(k) == TurnOf(k, p, n)
              new(k) == TurnOf(k, r, n - 1)
  <1>1. n \in Nat /\ m \in Nat /\ m >= 1 /\ m <= n /\ p \in Nat /\ p <= n
    BY DEF IsOrder
  <1>2. \A k \in 1 .. n - 1 : at(k) \in 1 .. n /\ w[k] = s[at(k)]
    BY <1>1 DEF IsTakenOut
  <1>3. \A k, l \in 1 .. n - 1 : /\ k < l <=> at(k) < at(l)
                                 /\ new(k) < new(l) <=> old(at(k)) < old(at(l))
    BY <1>1 DEF TurnOf
  <1>4. \A k \in 1 .. n - 1 : at(k) > p => k > r
    BY <1>1
  <1>5. \A k \in 1 .. n :
          /\ \A l \in 1 .. n : s[l] \in had[s[k]] => old(k) < old(l)
          /\ \A j \in Items : count[s[k]][j] <= 2 /\ (count[s[k]][j] = 2 => k > p)
          /\ \A l \in 1 .. n :
               old(l) < old(k) => count[s[k]][s[l]] <= 1 /\ (count[s[k]][s[l]] = 1 => l < k)
    BY DEF TurnsRight
  <1>. HIDE DEF at, old, new
  <1>6. \A k \in 1 .. n - 1 :
          /\ \A l \in 1 .. n - 1 : w[l] \in had[w[k]] => new(k) < new(l)
          /\ \A j \in Items : count[w[k]][j] <= 2 /\ (count[w[k]][j] = 2 => k > r)
          /\ \A l \in 1 .. n - 1 :
               new(l) < new(k) => count[w[k]][w[l]] <= 1 /\ (count[w[k]][w[l]] = 1 => l < k)
    BY <1>2, <1>3, <1>4, <1>5
  <1>. QED
    BY <1>6 DEF TurnsRight, new

\* The place of the next turn.
NextPlace(p, n) == IF p < n THEN p + 1 ELSE 1

TurnTaken(x, y, had, count, others, h) ==
  /\ x = [j \in Items |-> IF j \notin others THEN {} ELSE had[j] \cup {h}]
  /\ y = [j \in Items |-> IF j \notin others THEN [c \in Items |-> 0]
                         ELSE [count[j] EXCEPT ![h] = @ + 1]]

LEMMA TurnsTaken ==
  ASSUME NEW s, NEW n, NEW in, IsOrder(s, n, in), NEW p \in 0 .. n, NEW had,
         NEW count \in [Items -> [Items -> Nat]], TurnsRight(s, n, p, had, count), n > 0,
         NEW r, r = NextPlace(p, n), NEW h, h = s[r],
         NEW x, NEW y, TurnTaken(x, y, had, count, {j \in Items : in[j]} \ {h}, h)
  PROVE  TurnsRight(s, n, r, x, y)
  <1>. DEFINE others == {j \in Items : in[j]} \ {h}
              old(k) == TurnOf(k, p, n)
              new(k) == TurnOf(k, r, n)
  <1>1. /\ n \in Nat /\ p \in Nat /\ p <= n
        /\ \A k \in 1 .. n : s[k] \in Items /\ in[s[k]]
        /\ \A k, l \in 1 .. n : s[k] = s[l] => k = l
    BY DEF IsOrder
  <1>2. r \in 1 .. n /\ h \in Items
    BY <1>1 DEF NextPlace
  <1>3. \A k, l \in 1 .. n : k # r /\ l # r => (new(k) < new(l) <=> old(k) < old(l))
    BY <1>1 DEF TurnOf, NextPlace
  <1>4. \A k \in 1 .. n : k # r => new(k) < new(r) /\ ~(new(r) < new(k)) /\ old(r) < old(k)
    BY <1>1 DEF TurnOf, NextPlace
  <1>5. \A k \in 1 .. n : k # r /\ k > p => k > r
    BY <1>1 DEF NextPlace
  <1>6. \A k \in 1 .. n :
          /\ \A l \in 1 .. n : s[l] \in had[s[k]] => old(k) < old(l)
          /\ \A j \in Items : count[s[k]][j] <= 2 /\ (count[s[k]][j] = 2 => k > p)
          /\ \A l \in 1 .. n :
               old(l) < old(k) => count[s[k]][s[l]] <= 1 /\ (count[s[k]][s[l]] = 1 => l < k)
    BY DEF TurnsRight
  <1>7. \A k \in 1 .. n : k # r => s[k] \in others
    BY <1>1, <1>2
  <1>8. \A k \in 1 .. n :
          k # r => /\ x[s[k]] = had[s[k]] \cup {h}
                   /\ y[s[k]][h] = count[s[k]][h] + 1 /\ count[s[k]][h] \in Nat
                   /\ \A j \in Items : j # h => y[s[k]][j] = count[s[k]][j]
    BY <1>1, <1>2, <1>7 DEF TurnTaken
  <1>9. x[h] = {} /\ \A j \in Items : y[h][j] = 0
    BY <1>2 DEF TurnTaken
  <1>. HIDE DEF old, new
  <1>. DEFINE Had(k)    == \A l \in 1 .. n : s[l] \in x[s[k]] => new(k) < new(l)
              Twice(k)  == \A j \in Items : y[s[k]][j] <= 2 /\ (y[s[k]][j] = 2 => k > r)
              Before(k) == \A l \in 1 .. n :
                             new(l) < new(k) => y[s[k]][s[l]] <= 1 /\ (y[s[k]][s[l]] = 1 => l < k)
  <1>10. ASSUME NEW k \in 1 .. n PROVE Had(k) /\ Twice(k) /\ Before(k)
    <2>1. CASE k = r
      <3>1. x[s[k]] = {} /\ \A j \in Items : y[s[k]][j] = 0
        BY <1>9, <2>1
      <3>. QED
        BY <1>1, <3>1
    <2>2. CASE k # r
      <3>1. Had(k)
        <4>. SUFFICES ASSUME NEW l \in 1 .. n, s[l] \in x[s[k]] PROVE new(k) < new(l)
          OBVIOUS
        <4>1. CASE l = r
          BY <1>4, <2>2, <4>1
        <4>2. CASE l # r
          <5>. DEFINE a == s[l]
                      b == s[k]
          <5>3. a # h
            BY <1>1, <1>2, <4>2
          <5>4. x[b] = had[b] \cup {h}
            BY <1>8, <2>2
          <5>5. a \in x[b]
            OBVIOUS
          <5>. HIDE DEF a, b
          <5>6. a \in had[b]
            BY <5>3, <5>4, <5>5
          <5>1. s[l] # h /\ s[l] \in had[s[k]]
            BY <5>3, <5>6 DEF a, b
          <5>2. old(k) < old(l)
            BY <1>6, <5>1
          <5>. QED
            BY <1>3, <2>2, <4>2, <5>2
        <4>. QED
          BY <4>1, <4>2
      <3>2. count[s[k]][h] <= 1 /\ (count[s[k]][h] = 1 => r < k)
        BY <1>2, <1>4, <1>6, <2>2
      <3>3. Twice(k)
        <4>. SUFFICES ASSUME NEW j \in Items PROVE y[s[k]][j] <= 2 /\ (y[s[k]][j] = 2 => k > r)
          OBVIOUS
        <4>1. CASE j = h
          <5>1. y[s[k]][h] = count[s[k]][h] + 1 /\ count[s[k]][h] \in Nat
            BY <1>8, <2>2
          <5>2. y[s[k]][h] <= 2 /\ (y[s[k]][h] = 2 => count[s[k]][h] = 1)
            BY <3>2, <5>1
          <5>. QED
            BY <1>1, <1>2, <3>2, <4>1, <5>2
        <4>2. CASE j # h
          BY <1>5, <1>6, <1>8, <2>2, <4>2
        <4>. QED
          BY <4>1, <4>2
      <3>4. Before(k)
        <4>. SUFFICES ASSUME NEW l \in 1 .. n, new(l) < new(k)
                      PROVE  y[s[k]][s[l]] <= 1 /\ (y[s[k]][s[l]] = 1 => l < k)
          OBVIOUS
        <4>1. l # r /\ s[l] # h /\ s[l] \in Items
          BY <1>1, <1>2, <1>4, <2>2
        <4>. QED
          BY <1>3, <1>6, <1>8, <2>2, <4>1
      <3>. QED
        BY <3>1, <3>3, <3>4
    <2>. QED
      BY <2>1, <2>2
  <1>. QED
    BY <1>10, Zenon DEF TurnsRight, new

\* The two definitions by recursion.  What a function they choose must be:
Walk(f, v) == f = [n \in Ring |-> IF Stays(Value(pxNext[n]), v) THEN f[pxNext[n]] ELSE n]
Steps(f, k) == f = [j \in 0 .. k |-> IF j = 0 THEN xListEnd ELSE pxNext[f[j - 1]]]

LEMMA RingIs ==
  ASSUME NEW s, NEW n, IsOrder(s, n, pxContainer)
  PROVE  Ring = {Node(s, k) : k \in 0 .. n}
  <1>1. /\ n \in Nat /\ \A k \in 1 .. n : s[k] \in Items
        /\ \A j \in Items : pxContainer[j] <=> \E k \in 1 .. n : s[k] = j
    BY DEF IsOrder
  <1>2. \A k \in 0 .. n : k # 0 => k \in 1 .. n
    BY <1>1
  <1>3. \A k \in 1 .. n : k \in 0 .. n /\ k # 0
    BY <1>1
  <1>4. 0 \in 0 .. n
    BY <1>1
  <1>5. ASSUME NEW k \in 0 .. n PROVE Node(s, k) \in Ring
    BY <1>1, <1>2 DEF Node, Ring, Members
  <1>6. ASSUME NEW x \in Ring PROVE \E k \in 0 .. n : x = Node(s, k)
    BY <1>1, <1>3, <1>4 DEF Node, Ring, Members
  <1>. QED
    BY <1>5, <1>6

\* The last place of a value that is not greater, in a sorted list.
LEMMA PlaceFor ==
  ASSUME NEW s, NEW n, NEW in, IsOrder(s, n, in), NEW value \in [Items -> Nat], NEW early,
         IsSorted(s, n, value, early), NEW v \in Nat
  PROVE  \E q \in 0 .. n : /\ \A k \in 1 .. q : value[s[k]] <= v
                           /\ \A k \in q + 1 .. n : value[s[k]] > v
  <1>. DEFINE Greater == {k \in 1 .. n : value[s[k]] > v}
  <1>1. n \in Nat /\ \A k \in 1 .. n : s[k] \in Items /\ value[s[k]] \in Nat
    BY DEF IsOrder
  <1>2. CASE Greater = {}
    <2>1. \A k \in 1 .. n : value[s[k]] <= v
      BY <1>1, <1>2
    <2>2. n \in 0 .. n /\ \A k \in n + 1 .. n : FALSE
      BY <1>1
    <2>. QED
      BY <2>1, <2>2
  <1>3. CASE Greater # {}
    <2>1. Greater \in SUBSET Nat
      BY <1>1
    <2>2. PICK q \in Greater : \A k \in Greater : q <= k
      <3>. HIDE DEF Greater
      <3>. QED
        BY <1>3, <2>1, LeastNumber
    <2>3. q \in 1 .. n /\ value[s[q]] > v
      BY <2>2
    <2>4. q - 1 \in 0 .. n /\ q - 1 + 1 = q
      BY <1>1, <2>3
    <2>5. \A k \in 1 .. q - 1 : value[s[k]] <= v
      BY <1>1, <2>2, <2>3
    <2>6. \A k \in q .. n : value[s[k]] > v
      <3>. SUFFICES ASSUME NEW k \in q .. n PROVE value[s[k]] > v
        OBVIOUS
      <3>1. k \in 1 .. n /\ (k = q \/ q < k)
        BY <1>1, <2>3
      <3>2. q < k => value[s[q]] < value[s[k]] \/ value[s[q]] = value[s[k]]
        BY <2>3, <3>1 DEF IsSorted
      <3>. QED
        BY <1>1, <2>3, <3>1, <3>2
    <2>. QED
      BY <2>4, <2>5, <2>6
  <1>. QED
    BY <1>2, <1>3

\* Where vListInsert() comes to: behind those that are not greater.
LEMMA IteratorFacts ==
  ASSUME ListAssumption, ListTypes, NEW s, NEW p, IsList(s, p), kind = "sorted",
         NEW v \in 0 .. MaxDelay
  PROVE  \E q \in 0 .. uxNumberOfItems :
           /\ Iterator(v) = Node(s, q)
           /\ \A k \in 1 .. q : xItemValue[s[k]] <= v
           /\ \A k \in q + 1 .. uxNumberOfItems : xItemValue[s[k]] > v
  <1>. DEFINE n == uxNumberOfItems
  <1>1. /\ n \in Nat /\ MaxDelay \in Nat /\ v \in Nat /\ v <= MaxDelay
        /\ xItemValue \in [Items -> 0 .. MaxDelay]
        /\ IsOrder(s, n, pxContainer) /\ AreLinks(pxNext, pxPrevious, s, n)
        /\ IsSorted(s, n, xItemValue, earlier)
    BY DEF ListTypes, IsList, ListAssumption
  <1>2. /\ \A k \in 1 .. n : Node(s, k) = s[k] /\ s[k] \in Items /\ s[k] # xListEnd
        /\ Node(s, 0) = xListEnd
        /\ \A k, l \in 0 .. n : Node(s, k) = Node(s, l) => k = l
    BY <1>1, NodeFacts
  <1>3. xItemValue \in [Items -> Nat] /\ \A i \in Items : xItemValue[i] <= MaxDelay
    BY <1>1
  <1>4. PICK q \in 0 .. n : /\ \A k \in 1 .. q : xItemValue[s[k]] <= v
                            /\ \A k \in q + 1 .. n : xItemValue[s[k]] > v
    BY <1>1, <1>3, PlaceFor, Zenon
  <1>5. CASE v = MaxDelay
    <2>1. Iterator(v) = Node(s, n)
      BY <1>1, <1>5 DEF Iterator, AreLinks
    <2>2. \A k \in 1 .. n : xItemValue[s[k]] <= v
      BY <1>2, <1>3, <1>5
    <2>3. n \in 0 .. n /\ \A k \in n + 1 .. n : FALSE
      BY <1>1
    <2>. QED
      BY <2>1, <2>2, <2>3
  <1>6. CASE v # MaxDelay
    <2>1. q \in Nat /\ q <= n
      BY <1>1
    <2>2. \A k \in 0 .. n : k < q => /\ pxNext[Node(s, k)] = Node(s, k + 1)
                                     /\ Stays(Value(pxNext[Node(s, k)]), v)
      <3>. SUFFICES ASSUME NEW k \in 0 .. n, k < q
                    PROVE  /\ pxNext[Node(s, k)] = Node(s, k + 1)
                           /\ Stays(Value(pxNext[Node(s, k)]), v)
        OBVIOUS
      <3>1. k + 1 \in 1 .. n /\ k + 1 \in 1 .. q /\ k + 1 - 1 = k
        BY <1>1, <2>1
      <3>2. pxNext[Node(s, k)] = s[k + 1] /\ s[k + 1] = Node(s, k + 1)
        BY <1>1, <1>2, <3>1 DEF AreLinks
      <3>3. Value(s[k + 1]) = xItemValue[s[k + 1]] /\ xItemValue[s[k + 1]] <= v
        BY <1>2, <1>4, <3>1 DEF Value
      <3>. QED
        BY <3>2, <3>3 DEF Stays
    <2>3. \A k \in 0 .. n : k >= q => ~Stays(Value(pxNext[Node(s, k)]), v)
      <3>. SUFFICES ASSUME NEW k \in 0 .. n, k >= q
                    PROVE  ~Stays(Value(pxNext[Node(s, k)]), v)
        OBVIOUS
      <3>1. CASE k = n
        <4>1. pxNext[Node(s, k)] = xListEnd /\ Value(xListEnd) = MaxDelay
          BY <1>1, <3>1 DEF AreLinks, Value
        <4>2. ~(MaxDelay <= v)
          BY <1>1, <1>6
        <4>. QED
          BY <4>1, <4>2 DEF Stays
      <3>2. CASE k # n
        <4>1. k + 1 \in 1 .. n /\ k + 1 \in q + 1 .. n /\ k + 1 - 1 = k
          BY <1>1, <2>1, <3>2
        <4>2. pxNext[Node(s, k)] = s[k + 1]
          BY <1>1, <4>1 DEF AreLinks
        <4>3. Value(s[k + 1]) = xItemValue[s[k + 1]] /\ xItemValue[s[k + 1]] > v
          BY <1>2, <1>4, <4>1 DEF Value
        <4>4. xItemValue[s[k + 1]] \in Nat
          BY <1>2, <1>3, <4>1
        <4>. QED
          BY <1>1, <4>2, <4>3, <4>4 DEF Stays
      <3>. QED
        BY <3>1, <3>2
    <2>4. Ring = {Node(s, k) : k \in 0 .. n}
      BY <1>1, RingIs
    \* One function that is such a walk.
    <2>. DEFINE g == [x \in Ring |-> IF x \in {Node(s, k) : k \in 0 .. q} THEN Node(s, q) ELSE x]
    <2>5. /\ \A k \in 0 .. q : Node(s, k) \in Ring /\ g[Node(s, k)] = Node(s, q)
          /\ \A k \in 0 .. n : k > q => g[Node(s, k)] = Node(s, k)
      <3>1. \A k \in 0 .. q : k \in 0 .. n
        BY <1>1, <2>1
      <3>2. \A k \in 0 .. n : k > q => Node(s, k) \notin {Node(s, l) : l \in 0 .. q}
        BY <1>2, <2>1, <3>1
      <3>. QED
        BY <2>4, <3>1, <3>2
    <2>6. \A x \in Ring :
            g[x] = IF Stays(Value(pxNext[x]), v) THEN g[pxNext[x]] ELSE x
      <3>. SUFFICES ASSUME NEW x \in Ring
                    PROVE  g[x] = IF Stays(Value(pxNext[x]), v) THEN g[pxNext[x]] ELSE x
        OBVIOUS
      <3>. HIDE DEF g
      <3>1. PICK k \in 0 .. n : x = Node(s, k)
        BY <2>4
      <3>2. CASE k < q
        <4>1. k \in 0 .. q /\ k + 1 \in 0 .. q
          BY <2>1, <3>2
        <4>. QED
          BY <2>2, <2>5, <3>1, <3>2, <4>1
      <3>3. CASE k = q
        <4>1. k \in 0 .. q
          BY <2>1, <3>3
        <4>. QED
          BY <2>1, <2>3, <2>5, <3>1, <3>3, <4>1
      <3>4. CASE k > q
        BY <2>1, <2>3, <2>5, <3>1, <3>4
      <3>. QED
        BY <2>1, <3>2, <3>3, <3>4
    <2>7. Walk(g, v)
      <3>1. g = [x \in Ring |-> g[x]]
        OBVIOUS
      <3>. HIDE DEF g
      <3>. QED
        BY <2>6, <3>1 DEF Walk
    <2>. HIDE DEF g
    \* All that are lead to the same node.
    <2>. DEFINE f == CHOOSE h : Walk(h, v)
    <2>8. Walk(f, v)
      BY <2>7
    <2>9. Iterator(v) = f[xListEnd]
      BY <1>6, Zenon DEF Iterator, Walk
    <2>. HIDE DEF f
    <2>10. \A k \in 0 .. n :
             f[Node(s, k)] = IF Stays(Value(pxNext[Node(s, k)]), v)
                             THEN f[pxNext[Node(s, k)]] ELSE Node(s, k)
      BY <2>4, <2>8 DEF Walk
    <2>. DEFINE Off == {j \in 0 .. q : f[Node(s, q - j)] # Node(s, q)}
    <2>11. Off = {}
      <3>. SUFFICES ASSUME Off # {} PROVE FALSE
        OBVIOUS
      <3>1. Off \in SUBSET Nat
        BY <2>1
      <3>2. PICK j \in Off : \A l \in Off : j <= l
        <4>. HIDE DEF Off
        <4>. QED
          BY <3>1, LeastNumber
      <3>3. j \in 0 .. q /\ f[Node(s, q - j)] # Node(s, q)
        BY <3>2
      <3>4. CASE j = 0
        <4>1. q - j = q /\ q >= q /\ q \in 0 .. n
          BY <2>1, <3>4
        <4>. QED
          BY <2>3, <2>10, <3>3, <4>1
      <3>5. CASE j # 0
        <4>1. /\ j - 1 \in 0 .. q /\ ~(j <= j - 1) /\ q - j \in 0 .. n /\ q - j < q
              /\ q - (j - 1) = q - j + 1
          BY <1>1, <2>1, <3>3, <3>5
        <4>2. j - 1 \notin Off
          BY <3>2, <4>1
        <4>3. f[Node(s, q - (j - 1))] = Node(s, q)
          BY <4>1, <4>2
        <4>4. f[Node(s, q - j + 1)] = Node(s, q)
          BY <4>1, <4>3
        <4>. QED
          BY <2>2, <2>10, <3>3, <4>1, <4>4
      <3>. QED
        BY <3>4, <3>5
    <2>12. q \in 0 .. q /\ q - q = 0
      BY <2>1
    <2>13. f[Node(s, 0)] = Node(s, q)
      BY <2>11, <2>12
    <2>. QED
      BY <1>2, <1>4, <2>9, <2>13
  <1>. QED
    BY <1>5, <1>6

\* What At is: the order.
LEMMA AtFacts ==
  ASSUME NEW s, NEW n, n \in Nat, AreLinks(pxNext, pxPrevious, s, n), NEW k \in 0 .. n
  PROVE  At(k) = Node(s, k)
  <1>. DEFINE g == [j \in 0 .. k |-> Node(s, j)]
  <1>1. k \in Nat /\ k <= n
    OBVIOUS
  <1>2. \A j \in 0 .. k : j # 0 => j - 1 \in 0 .. k /\ pxNext[Node(s, j - 1)] = Node(s, j)
    <2>. SUFFICES ASSUME NEW j \in 0 .. k, j # 0
                  PROVE  j - 1 \in 0 .. k /\ pxNext[Node(s, j - 1)] = Node(s, j)
      OBVIOUS
    <2>1. j \in 1 .. n /\ j - 1 \in 0 .. k
      BY <1>1
    <2>. QED
      BY <2>1 DEF AreLinks, Node
  <1>3. Steps(g, k)
    <2>1. \A j \in 0 .. k : g[j] = IF j = 0 THEN xListEnd ELSE pxNext[g[j - 1]]
      <3>. SUFFICES ASSUME NEW j \in 0 .. k
                    PROVE  g[j] = IF j = 0 THEN xListEnd ELSE pxNext[g[j - 1]]
        OBVIOUS
      <3>1. CASE j = 0
        BY <3>1 DEF Node
      <3>2. CASE j # 0
        BY <1>2, <3>2
      <3>. QED
        BY <3>1, <3>2
    <2>2. g = [j \in 0 .. k |-> g[j]]
      OBVIOUS
    <2>. HIDE DEF g
    <2>. QED
      BY <2>1, <2>2 DEF Steps
  <1>. HIDE DEF g
  <1>. DEFINE f == CHOOSE h : Steps(h, k)
  <1>4. Steps(f, k)
    BY <1>3
  <1>5. At(k) = f[k]
    BY Zenon DEF At, Steps
  <1>. HIDE DEF f
  <1>6. \A j \in 0 .. k : f[j] = IF j = 0 THEN xListEnd ELSE pxNext[f[j - 1]]
    BY <1>4 DEF Steps
  <1>. DEFINE Off == {j \in 0 .. k : f[j] # Node(s, j)}
  <1>7. Off = {}
    <2>. SUFFICES ASSUME Off # {} PROVE FALSE
      OBVIOUS
    <2>1. Off \in SUBSET Nat
      BY <1>1
    <2>2. PICK j \in Off : \A l \in Off : j <= l
      <3>. HIDE DEF Off
      <3>. QED
        BY <2>1, LeastNumber
    <2>3. j \in 0 .. k /\ f[j] # Node(s, j)
      BY <2>2
    <2>4. CASE j = 0
      BY <1>6, <2>3, <2>4 DEF Node
    <2>5. CASE j # 0
      <3>1. j - 1 \in 0 .. k /\ ~(j <= j - 1)
        BY <1>1, <2>3, <2>5
      <3>2. j - 1 \notin Off
        BY <2>2, <3>1
      <3>3. f[j - 1] = Node(s, j - 1)
        BY <3>1, <3>2
      <3>. QED
        BY <1>2, <1>6, <2>3, <2>5, <3>3
    <2>. QED
      BY <2>4, <2>5
  <1>. QED
    BY <1>1, <1>5, <1>7

LEMMA MembersIn ==
  ASSUME ListAssumption, ListTypes, NEW i \in Items, ~pxContainer[i],
         pxContainer' = [pxContainer EXCEPT ![i] = TRUE]
  PROVE  Cardinality(Members') = Cardinality(Members) + 1
  <1>1. Members' = Members \cup {i} /\ i \notin Members
    BY DEF Members, ListTypes
  <1>2. IsFiniteSet(Members)
    BY FS_Subset DEF Members, ListAssumption
  <1>. QED
    BY <1>1, <1>2, FS_AddElement

LEMMA MembersOut ==
  ASSUME ListAssumption, ListTypes, NEW i \in Items, pxContainer[i],
         pxContainer' = [pxContainer EXCEPT ![i] = FALSE]
  PROVE  Cardinality(Members') = Cardinality(Members) - 1 /\ Cardinality(Members) > 0
  <1>1. Members' = Members \ {i} /\ i \in Members
    BY DEF Members, ListTypes
  <1>2. IsFiniteSet(Members)
    BY FS_Subset DEF Members, ListAssumption
  <1>3. Cardinality(Members') = Cardinality(Members) - 1
    BY <1>1, <1>2, FS_RemoveElement
  <1>4. Cardinality(Members) \in Nat /\ Cardinality(Members) # 0
    BY <1>1, <1>2, FS_CardinalityType, FS_EmptySet
  <1>. QED
    BY <1>3, <1>4

LEMMA ListTypesIn ==
  ASSUME ListAssumption, ListTypes, NEW p \in Nodes, NEW i \in Items, ~pxContainer[i],
         LinkedAfter(p, i), kind' = kind, xItemValue' \in [Items -> 0 .. MaxDelay]
  PROVE  ListTypes'
  <1>1. Cardinality(Members') = Cardinality(Members) + 1
    BY MembersIn DEF LinkedAfter
  <1>2. uxNumberOfItems' \in Nat /\ uxNumberOfItems' = Cardinality(Members')
    BY <1>1 DEF ListTypes, LinkedAfter
  <1>3. pxNext' \in [Nodes -> Nodes] /\ pxPrevious' \in [Nodes -> Nodes]
    BY DEF ListTypes, LinkedAfter, Nodes
  <1>4. pxContainer' \in [Items -> BOOLEAN] /\ kind' \in {"turns", "sorted"}
    BY DEF ListTypes, LinkedAfter
  <1>5. earlier' \in [Items -> SUBSET Items]
    BY DEF ListTypes, LinkedAfter, Members
  <1>6. since' \in [Items -> SUBSET Items]
    BY DEF ListTypes, LinkedAfter
  <1>7. turns' \in [Items -> [Items -> Nat]]
    <2>1. [j \in Items |-> 0] \in [Items -> Nat]
      OBVIOUS
    <2>. QED
      BY <2>1 DEF ListTypes, LinkedAfter
  <1>. QED
    BY <1>2, <1>3, <1>4, <1>5, <1>6, <1>7 DEF ListTypes

LEMMA ListStarts ==
  ASSUME ListAssumption, ListInit
  PROVE  ListInv
  <1>1. Members = {} /\ Cardinality({}) = 0
    BY FS_EmptySet DEF ListInit, Members
  <1>2. ListTypes
    <2>1. pxNext \in [Nodes -> Nodes] /\ pxPrevious \in [Nodes -> Nodes]
      BY DEF ListInit, Nodes
    <2>2. /\ xItemValue \in [Items -> 0 .. MaxDelay] /\ pxContainer \in [Items -> BOOLEAN]
          /\ kind \in {"turns", "sorted"}
      BY DEF ListInit, ListAssumption
    <2>3. uxNumberOfItems \in Nat /\ uxNumberOfItems = Cardinality(Members)
      BY <1>1 DEF ListInit
    <2>4. earlier \in [Items -> SUBSET Items] /\ since \in [Items -> SUBSET Items]
      BY DEF ListInit
    <2>5. turns \in [Items -> [Items -> Nat]]
      BY DEF ListInit
    <2>. QED
      BY <2>1, <2>2, <2>3, <2>4, <2>5 DEF ListTypes
  <1>. DEFINE s == [k \in 1 .. 0 |-> xListEnd]
  <1>3. (\A k \in 1 .. 0 : FALSE) /\ 0 \in Nat /\ 0 \in 0 .. 0
    OBVIOUS
  <1>4. s \in [1 .. 0 -> Items]
    BY <1>3
  <1>. HIDE DEF s
  <1>5. IsOrder(s, 0, pxContainer)
    BY <1>3, <1>4 DEF IsOrder, ListInit
  <1>6. AreLinks(pxNext, pxPrevious, s, 0)
    BY <1>3 DEF AreLinks, ListInit, Node, Nodes
  <1>7. IsSorted(s, 0, xItemValue, earlier) /\ TurnsRight(s, 0, 0, since, turns)
    BY <1>3 DEF IsSorted, TurnsRight
  <1>8. IsList(s, 0) /\ uxNumberOfItems = 0
    BY <1>3, <1>5, <1>6, <1>7 DEF IsList, ListInit, Node
  <1>. QED
    BY <1>2, <1>3, <1>4, <1>8 DEF ListInv

LEMMA InsertKeeps ==
  ASSUME ListAssumption, ListInv, kind' = kind, NEW i \in Items, NEW v \in 0 .. MaxDelay,
         Insert(i, v)
  PROVE  ListInv'
  <1>. DEFINE n == uxNumberOfItems
  <1>1. /\ ListTypes
        /\ \E s \in [1 .. n -> Items], p \in 0 .. n : IsList(s, p)
    BY DEF ListInv
  <1>2. PICK s \in [1 .. n -> Items], p \in 0 .. n : IsList(s, p)
    BY <1>1
  <1>3. /\ kind = "sorted" /\ ~pxContainer[i] /\ LinkedAfter(Iterator(v), i)
        /\ xItemValue' = [xItemValue EXCEPT ![i] = v]
    BY DEF Insert
  <1>4. PICK q \in 0 .. n : Iterator(v) = Node(s, q) /\ Fits(s, n, q, xItemValue, v)
    BY <1>1, <1>2, <1>3, IteratorFacts DEF Fits
  <1>5. /\ n \in Nat /\ IsOrder(s, n, pxContainer) /\ AreLinks(pxNext, pxPrevious, s, n)
        /\ IsSorted(s, n, xItemValue, earlier) /\ pxIndex = Node(s, p)
        /\ pxContainer \in [Items -> BOOLEAN] /\ earlier \in [Items -> SUBSET Items]
        /\ pxNext \in [Nodes -> Nodes] /\ pxPrevious \in [Nodes -> Nodes]
        /\ xItemValue \in [Items -> 0 .. MaxDelay]
    BY <1>1, <1>2, <1>3 DEF IsList, ListTypes
  <1>6. xItemValue \in [Items -> Nat] /\ v \in Nat
    BY <1>5 DEF ListAssumption
  <1>7. Iterator(v) \in Nodes
    BY <1>4, <1>5, NodeFacts
  <1>14. PICK w : w = PutIn(s, n, q, i)
    OBVIOUS
  <1>15. PICK r : r = IF q < p THEN p + 1 ELSE p
    OBVIOUS
  <1>8. IsPutIn(w, s, n, q, i) /\ IsOrder(w, n + 1, [pxContainer EXCEPT ![i] = TRUE])
    <2>. HIDE DEF n
    <2>. QED
      BY <1>3, <1>5, <1>14, PutInFacts, Zenon
  <1>9. AreLinks([pxNext EXCEPT ![i] = pxNext[Iterator(v)], ![Iterator(v)] = i],
                 [pxPrevious EXCEPT ![i] = Iterator(v), ![pxNext[Iterator(v)]] = i], w, n + 1)
    <2>. HIDE DEF n
    <2>. QED
      BY <1>3, <1>4, <1>5, <1>14, LinkedIn, Zenon
  <1>10. IsSorted(w, n + 1, xItemValue', earlier')
    <2>1. earlier' = [earlier EXCEPT ![i] = Members] /\ Members = {j \in Items : pxContainer[j]}
      BY <1>3 DEF LinkedAfter, Members
    <2>2. IsInserted(s, n, pxContainer, xItemValue, earlier, q, i, v)
      BY <1>3, <1>4, <1>5, <1>6 DEF IsInserted
    <2>3. AreInserted(xItemValue', earlier', pxContainer, xItemValue, earlier, i, v)
      BY <1>3, <2>1 DEF AreInserted
    <2>. HIDE DEF n
    <2>. QED
      BY <1>8, <2>2, <2>3, SortedIn, Zenon
  <1>11. r \in 0 .. n + 1 /\ Node(w, r) = Node(s, p)
    <2>1. /\ \A k \in 1 .. q : w[k] = s[k]
          /\ \A k \in q + 1 .. n : w[k + 1] = s[k]
      BY <1>8 DEF IsPutIn
    <2>. QED
      BY <1>5, <1>15, <2>1 DEF Node
  <1>12. ListTypes'
    <2>1. xItemValue' \in [Items -> 0 .. MaxDelay]
      BY <1>3, <1>5
    <2>. QED
      BY <1>1, <1>3, <1>7, <2>1, ListTypesIn
  <1>13. IsList(w, r)'
    <2>1. /\ n' = n + 1 /\ pxContainer' = [pxContainer EXCEPT ![i] = TRUE]
          /\ earlier' = [earlier EXCEPT ![i] = {j \in Items : pxContainer[j]}]
          /\ pxIndex' = pxIndex
          /\ pxNext' = [pxNext EXCEPT ![i] = pxNext[Iterator(v)], ![Iterator(v)] = i]
          /\ pxPrevious' = [pxPrevious EXCEPT ![i] = Iterator(v), ![pxNext[Iterator(v)]] = i]
      BY <1>3 DEF LinkedAfter, Members
    <2>2. kind' # "turns"
      BY <1>3
    <2>3. /\ IsOrder(w, n', pxContainer') /\ AreLinks(pxNext', pxPrevious', w, n')
          /\ r \in 0 .. n' /\ pxIndex' = Node(w, r)
          /\ IsSorted(w, n', xItemValue', earlier')
      BY <1>3, <1>5, <1>8, <1>9, <1>10, <1>11, <2>1
    <2>. QED
      BY <2>2, <2>3 DEF IsList
  <1>. QED
    BY <1>12, <1>13 DEF ListInv, IsList, IsOrder

LEMMA InsertEndKeeps ==
  ASSUME ListAssumption, ListInv, kind' = kind, NEW i \in Items, InsertEnd(i)
  PROVE  ListInv'
  <1>. DEFINE n == uxNumberOfItems
  <1>1. /\ ListTypes
        /\ \E s \in [1 .. n -> Items], p \in 0 .. n : IsList(s, p)
    BY DEF ListInv
  <1>2. PICK s \in [1 .. n -> Items], p \in 0 .. n : IsList(s, p)
    BY <1>1
  <1>3. /\ kind = "turns" /\ ~pxContainer[i] /\ LinkedAfter(pxPrevious[pxIndex], i)
        /\ xItemValue' = xItemValue
    BY DEF InsertEnd
  <1>4. PICK q : q = IF p = 0 THEN n ELSE p - 1
    OBVIOUS
  <1>5. /\ n \in Nat /\ IsOrder(s, n, pxContainer) /\ AreLinks(pxNext, pxPrevious, s, n)
        /\ TurnsRight(s, n, p, since, turns) /\ pxIndex = Node(s, p)
        /\ pxContainer \in [Items -> BOOLEAN]
        /\ pxNext \in [Nodes -> Nodes] /\ pxPrevious \in [Nodes -> Nodes]
        /\ xItemValue \in [Items -> 0 .. MaxDelay] /\ turns \in [Items -> [Items -> Nat]]
    BY <1>1, <1>2, <1>3 DEF IsList, ListTypes
  <1>6. q \in 0 .. n /\ pxPrevious[pxIndex] = Node(s, q)
    <2>1. CASE p = 0
      BY <1>4, <1>5, <2>1 DEF AreLinks, Node
    <2>2. CASE p # 0
      <3>1. p \in 1 .. n /\ q = p - 1 /\ q \in 0 .. n
        BY <1>4, <1>5, <2>2
      <3>2. pxPrevious[s[p]] = Node(s, p - 1)
        BY <1>5, <3>1 DEF AreLinks
      <3>3. pxIndex = s[p]
        BY <1>5, <2>2 DEF Node
      <3>. QED
        BY <3>1, <3>2, <3>3
    <2>. QED
      BY <2>1, <2>2
  <1>7. pxPrevious[pxIndex] \in Nodes
    BY <1>5, <1>6, NodeFacts
  <1>14. PICK w : w = PutIn(s, n, q, i)
    OBVIOUS
  <1>15. PICK r : r = IF p = 0 THEN 0 ELSE p + 1
    OBVIOUS
  <1>8. IsPutIn(w, s, n, q, i) /\ IsOrder(w, n + 1, [pxContainer EXCEPT ![i] = TRUE])
    <2>. HIDE DEF n
    <2>. QED
      BY <1>3, <1>5, <1>6, <1>14, PutInFacts, Zenon
  <1>9. AreLinks([pxNext EXCEPT ![i] = pxNext[pxPrevious[pxIndex]], ![pxPrevious[pxIndex]] = i],
                 [pxPrevious EXCEPT ![i] = pxPrevious[pxIndex],
                                    ![pxNext[pxPrevious[pxIndex]]] = i], w, n + 1)
    <2>. HIDE DEF n
    <2>. QED
      BY <1>3, <1>5, <1>6, <1>14, LinkedIn, Zenon
  <1>10. TurnsRight(w, n + 1, r, since', turns')
    <2>1. TurnsBefore(s, n, pxContainer, p, since, turns, q, i)
      BY <1>3, <1>4, <1>5 DEF TurnsBefore
    <2>2. TurnsWith(since', turns', since, turns, i)
      BY <1>3 DEF TurnsWith, LinkedAfter
    <2>. HIDE DEF n
    <2>. QED
      BY <1>8, <1>15, <2>1, <2>2, TurnsIn, Zenon
  <1>11. r \in 0 .. n + 1 /\ Node(w, r) = Node(s, p)
    <2>1. \A k \in q + 1 .. n : w[k + 1] = s[k]
      BY <1>8 DEF IsPutIn
    <2>2. CASE p = 0
      BY <1>5, <1>15, <2>2 DEF Node
    <2>3. CASE p # 0
      <3>1. p \in q + 1 .. n /\ r = p + 1 /\ r # 0 /\ r \in 0 .. n + 1
        BY <1>4, <1>5, <1>15, <2>3
      <3>2. w[p + 1] = s[p]
        BY <2>1, <3>1
      <3>. QED
        BY <2>3, <3>1, <3>2 DEF Node
    <2>. QED
      BY <2>2, <2>3
  <1>12. ListTypes'
    BY <1>1, <1>3, <1>5, <1>7, ListTypesIn
  <1>13. IsList(w, r)'
    <2>1. /\ n' = n + 1 /\ pxContainer' = [pxContainer EXCEPT ![i] = TRUE]
          /\ pxIndex' = pxIndex
          /\ pxNext' = [pxNext EXCEPT ![i] = pxNext[pxPrevious[pxIndex]],
                                      ![pxPrevious[pxIndex]] = i]
          /\ pxPrevious' = [pxPrevious EXCEPT ![i] = pxPrevious[pxIndex],
                                              ![pxNext[pxPrevious[pxIndex]]] = i]
      BY <1>3 DEF LinkedAfter
    <2>2. kind' # "sorted"
      BY <1>3
    <2>3. /\ IsOrder(w, n', pxContainer') /\ AreLinks(pxNext', pxPrevious', w, n')
          /\ r \in 0 .. n' /\ pxIndex' = Node(w, r)
          /\ TurnsRight(w, n', r, since', turns')
      BY <1>5, <1>8, <1>9, <1>10, <1>11, <2>1
    <2>. QED
      BY <2>2, <2>3 DEF IsList
  <1>. QED
    BY <1>12, <1>13 DEF ListInv, IsList, IsOrder

LEMMA RemoveKeeps ==
  ASSUME ListAssumption, ListInv, kind' = kind, NEW i \in Items, Remove(i)
  PROVE  ListInv'
  <1>. DEFINE n == uxNumberOfItems
  <1>1. /\ ListTypes
        /\ \E s \in [1 .. n -> Items], p \in 0 .. n : IsList(s, p)
    BY DEF ListInv
  <1>2. PICK s \in [1 .. n -> Items], p \in 0 .. n : IsList(s, p)
    BY <1>1
  <1>3. /\ pxContainer[i] /\ xItemValue' = xItemValue /\ since' = since /\ turns' = turns
        /\ pxPrevious' = [pxPrevious EXCEPT ![pxNext[i]] = pxPrevious[i]]
        /\ pxNext' = [pxNext EXCEPT ![pxPrevious[i]] = pxNext[i]]
        /\ pxIndex' = IF pxIndex = i THEN pxPrevious[i] ELSE pxIndex
        /\ pxContainer' = [pxContainer EXCEPT ![i] = FALSE] /\ n' = n - 1
        /\ earlier' = [j \in Items |-> IF j = i THEN {} ELSE earlier[j] \ {i}]
    BY DEF Remove, IndexWithout
  <1>4. /\ n \in Nat /\ IsOrder(s, n, pxContainer) /\ AreLinks(pxNext, pxPrevious, s, n)
        /\ kind = "sorted" => IsSorted(s, n, xItemValue, earlier)
        /\ kind = "turns" => TurnsRight(s, n, p, since, turns)
        /\ pxIndex = Node(s, p)
        /\ pxContainer \in [Items -> BOOLEAN] /\ earlier \in [Items -> SUBSET Items]
        /\ pxNext \in [Nodes -> Nodes] /\ pxPrevious \in [Nodes -> Nodes]
    BY <1>1, <1>2 DEF IsList, ListTypes
  <1>5. PICK m \in 1 .. n : s[m] = i
    BY <1>3, <1>4 DEF IsOrder
  <1>6. PICK w : w = TakenOut(s, n, m)
    OBVIOUS
  <1>7. PICK r : r = IF m <= p THEN p - 1 ELSE p
    OBVIOUS
  <1>8. IsTakenOut(w, s, n, m) /\ IsOrder(w, n - 1, [pxContainer EXCEPT ![i] = FALSE])
    <2>. HIDE DEF n
    <2>. QED
      BY <1>4, <1>5, <1>6, TakenOutFacts, Zenon
  <1>9. /\ AreLinks(pxNext', pxPrevious', w, n - 1)
        /\ pxPrevious[i] = Node(s, m - 1)
    <2>. HIDE DEF n
    <2>1. AreLinkedOut(pxNext', pxPrevious', pxNext, pxPrevious, s[m])
      BY <1>3, <1>5 DEF AreLinkedOut
    <2>2. AreLinks(pxNext', pxPrevious', w, n - 1) /\ pxPrevious[s[m]] = Node(s, m - 1)
      BY <1>4, <1>6, <2>1, LinkedOut, Zenon
    <2>. QED
      BY <1>5, <2>2
  <1>10. /\ \A k \in 1 .. m - 1 : w[k] = s[k]
         /\ \A k \in m .. n - 1 : w[k] = s[k + 1]
    BY <1>8 DEF IsTakenOut
  <1>11. /\ \A k \in 0 .. m - 1 : Node(w, k) = Node(s, k)
         /\ \A k \in m .. n - 1 : Node(w, k) = Node(s, k + 1)
    BY <1>4, <1>10 DEF Node
  <1>12. r \in 0 .. n - 1 /\ pxIndex' = Node(w, r)
    <2>1. pxIndex = i <=> p = m
      <3>1. m \in 0 .. n /\ Node(s, m) = i
        BY <1>4, <1>5 DEF Node
      <3>2. \A k, l \in 0 .. n : Node(s, k) = Node(s, l) => k = l
        BY <1>4, NodeFacts
      <3>. QED
        BY <1>4, <3>1, <3>2
    <2>2. CASE p = m
      <3>1. r = m - 1 /\ r \in 0 .. m - 1 /\ r \in 0 .. n - 1
        BY <1>4, <1>7, <2>2
      <3>. QED
        BY <1>3, <1>9, <1>11, <2>1, <2>2, <3>1
    <2>3. CASE m < p
      <3>1. r = p - 1 /\ r \in m .. n - 1 /\ r \in 0 .. n - 1 /\ r + 1 = p /\ p # m
        BY <1>4, <1>7, <2>3
      <3>. QED
        BY <1>3, <1>4, <1>11, <2>1, <3>1
    <2>4. CASE p < m
      <3>1. r = p /\ r \in 0 .. m - 1 /\ r \in 0 .. n - 1 /\ p # m
        BY <1>4, <1>7, <2>4
      <3>. QED
        BY <1>3, <1>4, <1>11, <2>1, <3>1
    <2>. QED
      BY <1>4, <2>2, <2>3, <2>4
  <1>13. kind = "sorted" => IsSorted(w, n - 1, xItemValue, earlier')
    <2>1. IsDropped(earlier', earlier, s[m])
      BY <1>3, <1>5 DEF IsDropped
    <2>. HIDE DEF n
    <2>. QED
      BY <1>4, <1>8, <2>1, SortedOut, Zenon
  <1>14. kind = "turns" => TurnsRight(w, n - 1, r, since, turns)
    <2>. HIDE DEF n
    <2>. QED
      BY <1>4, <1>5, <1>7, <1>8, TurnsOut, Zenon
  <1>15. ListTypes'
    <2>1. Cardinality(Members') = Cardinality(Members) - 1 /\ Cardinality(Members) > 0
      BY <1>1, <1>3, MembersOut
    <2>2. uxNumberOfItems' \in Nat /\ uxNumberOfItems' = Cardinality(Members')
      BY <1>1, <1>3, <2>1 DEF ListTypes
    <2>3. pxNext' \in [Nodes -> Nodes] /\ pxPrevious' \in [Nodes -> Nodes]
      BY <1>3, <1>4 DEF Nodes
    <2>4. pxContainer' \in [Items -> BOOLEAN] /\ earlier' \in [Items -> SUBSET Items]
      BY <1>3, <1>4
    <2>. QED
      BY <1>1, <1>3, <2>2, <2>3, <2>4 DEF ListTypes
  <1>16. IsList(w, r)'
    <2>1. /\ IsOrder(w, n', pxContainer') /\ AreLinks(pxNext', pxPrevious', w, n')
          /\ r \in 0 .. n' /\ pxIndex' = Node(w, r)
          /\ kind' = "sorted" => IsSorted(w, n', xItemValue', earlier')
          /\ kind' = "turns" => TurnsRight(w, n', r, since', turns')
      BY <1>3, <1>8, <1>9, <1>12, <1>13, <1>14
    <2>. QED
      BY <2>1 DEF IsList
  <1>. QED
    BY <1>15, <1>16 DEF ListInv, IsList, IsOrder

\* Whose turn is next.
LEMMA NextFacts ==
  ASSUME ListAssumption, ListTypes, NEW s, NEW p, IsList(s, p), uxNumberOfItems > 0
  PROVE  /\ NextPlace(p, uxNumberOfItems) \in 1 .. uxNumberOfItems
         /\ NextEntry = s[NextPlace(p, uxNumberOfItems)]
  <1>. DEFINE n == uxNumberOfItems
  <1>1. /\ n \in Nat /\ n > 0 /\ p \in 0 .. n /\ pxIndex = Node(s, p)
        /\ IsOrder(s, n, pxContainer)
        /\ \A k \in 1 .. n : pxNext[Node(s, k - 1)] = s[k]
        /\ pxNext[Node(s, n)] = xListEnd
    BY DEF IsList, ListTypes, AreLinks
  <1>2. (\A k \in 1 .. n : s[k] # xListEnd) /\ Node(s, 0) = xListEnd
    BY <1>1, NodeFacts
  <1>3. CASE p < n
    <2>1. p + 1 \in 1 .. n /\ p + 1 - 1 = p
      BY <1>1, <1>3
    <2>2. pxNext[Node(s, p)] = s[p + 1]
      BY <1>1, <2>1
    <2>. QED
      BY <1>1, <1>2, <1>3, <2>1, <2>2 DEF NextPlace, NextEntry
  <1>4. CASE p = n
    <2>1. 1 \in 1 .. n /\ 1 - 1 = 0 /\ ~(p < n)
      BY <1>1, <1>4
    <2>2. pxNext[Node(s, 0)] = s[1]
      BY <1>1, <2>1
    <2>. QED
      BY <1>1, <1>2, <1>4, <2>1, <2>2 DEF NextPlace, NextEntry
  <1>. QED
    BY <1>1, <1>3, <1>4

LEMMA TakeTurnKeeps ==
  ASSUME ListAssumption, ListInv, kind' = kind, TakeTurn
  PROVE  ListInv'
  <1>. DEFINE n == uxNumberOfItems
  <1>1. /\ ListTypes
        /\ \E s \in [1 .. n -> Items], p \in 0 .. n : IsList(s, p)
    BY DEF ListInv
  <1>2. PICK s \in [1 .. n -> Items], p \in 0 .. n : IsList(s, p)
    BY <1>1
  <1>3. PICK r : r = NextPlace(p, n)
    OBVIOUS
  <1>4. /\ kind = "turns" /\ n > 0 /\ pxIndex' = NextEntry
        /\ pxNext' = pxNext /\ pxPrevious' = pxPrevious /\ xItemValue' = xItemValue
        /\ pxContainer' = pxContainer /\ n' = n /\ earlier' = earlier /\ Members' = Members
    BY DEF TakeTurn, links, Members
  <1>5. r \in 1 .. n /\ NextEntry = s[r]
    BY <1>1, <1>2, <1>3, <1>4, NextFacts
  <1>6. /\ n \in Nat /\ IsOrder(s, n, pxContainer) /\ AreLinks(pxNext, pxPrevious, s, n)
        /\ TurnsRight(s, n, p, since, turns) /\ turns \in [Items -> [Items -> Nat]]
        /\ since \in [Items -> SUBSET Items] /\ NextEntry \in Items
    BY <1>1, <1>2, <1>4, <1>5 DEF IsList, ListTypes, IsOrder
  <1>7. TurnsRight(s, n, r, since', turns')
    <2>1. TurnTaken(since', turns', since, turns, Members \ {NextEntry}, NextEntry)
      BY DEF TakeTurn, TurnTaken
    <2>. HIDE DEF n
    <2>. QED
      BY <1>3, <1>4, <1>5, <1>6, <2>1, TurnsTaken, Zenon DEF Members
  <1>8. since' \in [Items -> SUBSET Items]
    BY <1>6 DEF TakeTurn
  <1>9. turns' \in [Items -> [Items -> Nat]]
    <2>1. [j \in Items |-> 0] \in [Items -> Nat]
      OBVIOUS
    <2>2. \A j \in Items : [turns[j] EXCEPT ![NextEntry] = @ + 1] \in [Items -> Nat]
      BY <1>6
    <2>. QED
      BY <2>1, <2>2 DEF TakeTurn
  <1>10. ListTypes'
    BY <1>1, <1>4, <1>8, <1>9 DEF ListTypes
  <1>11. IsList(s, r)'
    <2>1. r \in 0 .. n /\ Node(s, r) = s[r]
      BY <1>5, <1>6 DEF Node
    <2>2. kind' # "sorted"
      BY <1>4
    <2>3. /\ IsOrder(s, n', pxContainer') /\ AreLinks(pxNext', pxPrevious', s, n')
          /\ r \in 0 .. n' /\ pxIndex' = Node(s, r)
          /\ TurnsRight(s, n', r, since', turns')
      BY <1>4, <1>5, <1>6, <1>7, <2>1
    <2>. QED
      BY <2>2, <2>3 DEF IsList
  <1>. QED
    BY <1>10, <1>11 DEF ListInv, IsList, IsOrder

\* What the invariant says of the list.
LEMMA RingIsRight ==
  ASSUME ListAssumption, ListTypes, NEW s, NEW p, IsList(s, p)
  PROVE  ListTypeOK /\ RingRight
  <1>. DEFINE n == uxNumberOfItems
  <1>1. /\ n \in Nat /\ n = Cardinality(Members) /\ IsOrder(s, n, pxContainer)
        /\ AreLinks(pxNext, pxPrevious, s, n) /\ p \in 0 .. n /\ pxIndex = Node(s, p)
    BY DEF IsList, ListTypes
  <1>2. /\ Ring = {Node(s, k) : k \in 0 .. n}
        /\ \A k \in 0 .. n : At(k) = Node(s, k)
    BY <1>1, RingIs, AtFacts
  <1>3. /\ \A k \in 1 .. n : Node(s, k) = s[k]
        /\ \A k \in 0 .. n : Node(s, k) \in Nodes
    BY <1>1, NodeFacts
  <1>4. {At(k) : k \in 0 .. uxNumberOfItems} = Ring /\ pxIndex \in Ring
    <2>1. {At(k) : k \in 0 .. uxNumberOfItems} = {Node(s, k) : k \in 0 .. uxNumberOfItems}
      BY <1>2
    <2>. QED
      BY <1>1, <1>2, <2>1
  <1>5. ASSUME NEW x \in Ring PROVE pxPrevious[pxNext[x]] = x
    <2>1. PICK k \in 0 .. n : x = Node(s, k)
      BY <1>2
    <2>2. CASE k = n
      BY <1>1, <2>1, <2>2 DEF AreLinks
    <2>3. CASE k # n
      <3>1. k + 1 \in 1 .. n /\ k + 1 - 1 = k
        BY <1>1, <2>3
      <3>2. pxNext[Node(s, k)] = s[k + 1] /\ pxPrevious[s[k + 1]] = Node(s, k)
        BY <1>1, <3>1 DEF AreLinks
      <3>. QED
        BY <2>1, <3>2
    <2>. QED
      BY <2>2, <2>3
  <1>6. n \in 0 .. Cardinality(Items)
    <2>1. IsFiniteSet(Items) /\ Members \subseteq Items
      BY DEF Members, ListAssumption
    <2>2. Cardinality(Members) <= Cardinality(Items) /\ Cardinality(Items) \in Nat
      BY <2>1, FS_Subset, FS_CardinalityType
    <2>. QED
      BY <1>1, <2>2
  <1>7. pxIndex \in Nodes
    BY <1>1, <1>3
  <1>8. ListTypeOK
    BY <1>6, <1>7 DEF ListTypeOK, ListTypes
  <1>. QED
    BY <1>1, <1>4, <1>5, <1>8 DEF RingRight

LEMMA SortedIsRight ==
  ASSUME ListAssumption, ListTypes, NEW s, NEW p, IsList(s, p)
  PROVE  SortedRight
  <1>. DEFINE n == uxNumberOfItems
  <1>. SUFFICES ASSUME kind = "sorted", NEW k \in 1 .. n - 1
                PROVE  LET i == At(k)
                           j == At(k + 1)
                       IN \/ xItemValue[i] < xItemValue[j]
                          \/ xItemValue[i] = xItemValue[j] /\ i \in earlier[j]
    BY DEF SortedRight
  <1>1. /\ n \in Nat /\ AreLinks(pxNext, pxPrevious, s, n)
        /\ IsSorted(s, n, xItemValue, earlier)
    BY DEF IsList, ListTypes
  <1>2. k \in 1 .. n /\ k + 1 \in 1 .. n /\ k < k + 1 /\ k \in 0 .. n /\ k + 1 \in 0 .. n
        /\ k # 0 /\ k + 1 # 0
    BY <1>1
  <1>3. At(k) = s[k] /\ At(k + 1) = s[k + 1]
    BY <1>1, <1>2, AtFacts DEF Node
  <1>4. \/ xItemValue[s[k]] < xItemValue[s[k + 1]]
        \/ xItemValue[s[k]] = xItemValue[s[k + 1]] /\ s[k] \in earlier[s[k + 1]]
    BY <1>1, <1>2 DEF IsSorted
  <1>. QED
    BY <1>3, <1>4

LEMMA TurnsAreFair ==
  ASSUME ListAssumption, ListTypes, NEW s, NEW p, IsList(s, p)
  PROVE  TurnsFair
  <1>. DEFINE n == uxNumberOfItems
              r == NextPlace(p, n)
  <1>. SUFFICES ASSUME kind = "turns", Members # {}, NEW i \in Members \ {NextEntry}
                PROVE  NextEntry \notin since[i] /\ turns[i][NextEntry] < 2
    BY DEF TurnsFair
  <1>1. /\ n \in Nat /\ p \in 0 .. n /\ IsOrder(s, n, pxContainer)
        /\ TurnsRight(s, n, p, since, turns) /\ turns \in [Items -> [Items -> Nat]]
    BY DEF IsList, ListTypes
  <1>2. PICK k \in 1 .. n : s[k] = i
    BY <1>1 DEF IsOrder, Members
  <1>3. n > 0
    BY <1>1
  <1>4. r \in 1 .. n /\ NextEntry = s[r]
    BY <1>3, NextFacts
  <1>5. k # r
    BY <1>2, <1>4
  <1>6. TurnOf(r, p, n) < TurnOf(k, p, n) /\ ~(TurnOf(k, p, n) < TurnOf(r, p, n))
    BY <1>1, <1>3, <1>5 DEF TurnOf, NextPlace
  <1>. HIDE DEF r
  <1>7. NextEntry \notin since[i]
    BY <1>1, <1>2, <1>4, <1>6 DEF TurnsRight
  <1>8. turns[i][NextEntry] <= 1
    BY <1>1, <1>2, <1>4, <1>6 DEF TurnsRight
  <1>9. turns[i][NextEntry] \in Nat
    BY <1>1, <1>2, <1>4 DEF IsOrder
  <1>. QED
    BY <1>7, <1>8, <1>9

LEMMA ListIsRight ==
  ASSUME ListAssumption, ListInv
  PROVE  ListTypeOK /\ ListRight
  <1>1. /\ ListTypes
        /\ \E s \in [1 .. uxNumberOfItems -> Items], p \in 0 .. uxNumberOfItems : IsList(s, p)
    BY DEF ListInv
  <1>2. PICK s \in [1 .. uxNumberOfItems -> Items], p \in 0 .. uxNumberOfItems : IsList(s, p)
    BY <1>1
  <1>. QED
    BY <1>1, <1>2, RingIsRight, SortedIsRight, TurnsAreFair DEF ListRight

\* The links of list.c are a ring of the members in both directions, whatever is put in,
\* taken out and used in what order: vListInsert() keeps it sorted, first come first served
\* among equals, and listGET_OWNER_OF_NEXT_ENTRY() gives each member a turn before any has a
\* second one, with uxListRemove() moving the index meanwhile.
THEOREM ListCorrect ==
  ASSUME ListAssumption
  PROVE  ListSpec => [](ListTypeOK /\ ListRight)
  <1>1. ListInit => ListInv
    BY ListStarts
  <1>2. ListInv /\ [ListNext]_listVars => ListInv'
    <2>. SUFFICES ASSUME ListInv, [ListNext]_listVars PROVE ListInv'
      OBVIOUS
    <2>1. CASE UNCHANGED listVars
      <3>1. /\ kind' = kind /\ pxNext' = pxNext /\ pxPrevious' = pxPrevious
            /\ pxIndex' = pxIndex /\ xItemValue' = xItemValue /\ pxContainer' = pxContainer
            /\ uxNumberOfItems' = uxNumberOfItems /\ earlier' = earlier /\ since' = since
            /\ turns' = turns /\ Members' = Members
        BY <2>1 DEF listVars, links, Members
      <3>. QED
        BY <3>1 DEF ListInv, ListTypes, IsList
    <2>2. CASE ListNext
      <3>1. kind' = kind
        BY <2>2 DEF ListNext
      <3>2. CASE TakeTurn
        BY <3>1, <3>2, TakeTurnKeeps
      <3>3. ASSUME NEW i \in Items, InsertEnd(i) PROVE ListInv'
        BY <3>1, <3>3, InsertEndKeeps
      <3>4. ASSUME NEW i \in Items, Remove(i) PROVE ListInv'
        BY <3>1, <3>4, RemoveKeeps
      <3>5. ASSUME NEW i \in Items, NEW v \in 0 .. MaxDelay, Insert(i, v) PROVE ListInv'
        BY <3>1, <3>5, InsertKeeps
      <3>. QED
        BY <2>2, <3>2, <3>3, <3>4, <3>5 DEF ListNext
    <2>. QED
      BY <2>1, <2>2
  <1>3. ListInv => ListTypeOK /\ ListRight
    BY ListIsRight
  <1>. QED
    BY <1>1, <1>2, <1>3, PTL DEF ListSpec
===============================================================================
