----------------------------- MODULE FrTimeOut -------------------------------
(***************************************************************************)
(* How FreeRTOS tasks measure time with a tick count that wraps,           *)
(* freertos_test/FreeRTOS/tasks.c: a call that waits more than once keeps  *)
(* its block time with vTaskSetTimeOutState() and xTaskCheckForTimeOut(),  *)
(* a periodic task its period with xTaskDelayUntil().                      *)
(*                                                                         *)
(* Atomicity.  Each call reads the tick count in a critical section or     *)
(* with the scheduler suspended, and is one step.  Between calls a task is *)
(* asleep, or is to run and does not get to (FrTasks).                     *)
(***************************************************************************)
EXTENDS Integers

CONSTANTS
  TickMod,       \* width of the tick count
  OverflowMod,   \* width of xNumOfOverflows
  BlockTimes,    \* of calls; Forever too
  Increments,    \* periods of periodic tasks
  MaxLate        \* bound on how late a task runs; a time to wait and it are at most a
                 \* cycle

VARIABLES
  xTickCount, xNumOfOverflows,
  pc,              \* "idle", "asleep", "awake" in a call, "expired", "aborted"
  pxTimeOut,       \* TimeOut_t of the call
  pxTicksToWait,   \* what is left of its block time
  ucDelayAborted,
  pxPreviousWakeTime, xTicksToDelay,   \* of the periodic task, awake if the latter is 0
  remaining,       \* history: block time less the ticks since the call
  nextWake         \* history: ticks until the period is over

timeOutVars == <<xTickCount, xNumOfOverflows, pc, pxTimeOut, pxTicksToWait,
                 ucDelayAborted, pxPreviousWakeTime, xTicksToDelay, remaining, nextWake>>
callVars   == <<pc, pxTimeOut, pxTicksToWait, ucDelayAborted, remaining>>
clock      == <<xTickCount, xNumOfOverflows>>
periodVars == <<pxPreviousWakeTime, xTicksToDelay, nextWake>>

Forever == TickMod - 1   \* portMAX_DELAY

TimeOutInit ==
  /\ xTickCount = 0 /\ xNumOfOverflows = 0
  /\ pc = "idle" /\ pxTicksToWait = 0 /\ remaining = 0
  /\ pxTimeOut = [xOverflowCount |-> 0, xTimeOnEntering |-> 0]
  /\ ucDelayAborted = FALSE
  /\ pxPreviousWakeTime = 0 /\ xTicksToDelay = 0 /\ nextWake = 0
-----------------------------------------------------------------------------
SetTimeOutState ==
  pxTimeOut' = [xOverflowCount |-> xNumOfOverflows, xTimeOnEntering |-> xTickCount]

\* A call that may wait begins, and sleeps.
BeginCall(wait) ==
  /\ pc = "idle"
  /\ SetTimeOutState
  /\ pxTicksToWait' = wait /\ remaining' = wait
  /\ pc' = "asleep"
  /\ UNCHANGED <<clock, periodVars, ucDelayAborted>>

\* It is woken before its time, for something another task takes first, or by
\* xTaskAbortDelay().
Wake(aborted) ==
  /\ pc = "asleep"
  /\ pc' = "awake"
  /\ ucDelayAborted' = aborted
  /\ UNCHANGED <<clock, periodVars, pxTimeOut, pxTicksToWait, remaining>>

\* xTaskCheckForTimeOut(), upon which it gives up or sleeps again.  Mutant: a wrap is
\* not told from none.
ElapsedTime == (xTickCount - pxTimeOut.xTimeOnEntering) % TickMod
NeverBeyond == FALSE
BeyondCycle == /\ xNumOfOverflows # pxTimeOut.xOverflowCount
               /\ xTickCount >= pxTimeOut.xTimeOnEntering
CheckForTimeOut ==
  /\ pc = "awake"
  /\ ucDelayAborted' = FALSE
  /\ \/ /\ ucDelayAborted
        /\ pc' = "aborted" /\ UNCHANGED <<pxTimeOut, pxTicksToWait>>
     \/ /\ ~ucDelayAborted /\ pxTicksToWait = Forever
        /\ pc' = "asleep" /\ UNCHANGED <<pxTimeOut, pxTicksToWait>>
     \/ /\ ~ucDelayAborted /\ pxTicksToWait # Forever
        /\ IF ~BeyondCycle /\ ElapsedTime < pxTicksToWait
             THEN /\ pxTicksToWait' = pxTicksToWait - ElapsedTime
                  /\ SetTimeOutState
                  /\ pc' = "asleep"
             ELSE /\ pxTicksToWait' = 0
                  /\ pc' = "expired" /\ UNCHANGED pxTimeOut
  /\ UNCHANGED <<clock, periodVars, remaining>>

EndCall ==
  /\ pc \in {"expired", "aborted"}
  /\ pc' = "idle" /\ pxTicksToWait' = 0 /\ remaining' = 0
  /\ UNCHANGED <<clock, periodVars, pxTimeOut, ucDelayAborted>>

\* xTaskDelayUntil(): the task sleeps until increment ticks after the previous time.
ShouldDelay(wake) ==
  IF xTickCount < pxPreviousWakeTime THEN wake < pxPreviousWakeTime /\ wake > xTickCount
                                     ELSE wake < pxPreviousWakeTime \/ wake > xTickCount
DelayUntil(increment) ==
  LET wake == (pxPreviousWakeTime + increment) % TickMod IN
  /\ xTicksToDelay = 0
  /\ pxPreviousWakeTime' = wake
  /\ xTicksToDelay' = IF ShouldDelay(wake) THEN (wake - xTickCount) % TickMod ELSE 0
  /\ nextWake' = nextWake + increment
  /\ UNCHANGED <<clock, callVars>>

\* Tasks run at most MaxLate ticks late: the one after its block time and whenever it
\* is woken, the other after its wake time.
Tick ==
  /\ pc \in {"asleep", "awake"} /\ pxTicksToWait # Forever => remaining > -MaxLate
  /\ nextWake > -MaxLate
  /\ xTickCount' = (xTickCount + 1) % TickMod
  /\ xNumOfOverflows' = IF xTickCount' = 0 THEN (xNumOfOverflows + 1) % OverflowMod
                                           ELSE xNumOfOverflows
  /\ xTicksToDelay' = IF xTicksToDelay = 0 THEN 0 ELSE xTicksToDelay - 1
  /\ nextWake' = nextWake - 1
  /\ IF pc \in {"asleep", "awake"} /\ pxTicksToWait # Forever
       THEN /\ remaining' = remaining - 1
            /\ pc' = IF ElapsedTime + 1 >= pxTicksToWait THEN "awake" ELSE pc
       ELSE UNCHANGED <<remaining, pc>>
  /\ UNCHANGED <<pxTimeOut, pxTicksToWait, ucDelayAborted, pxPreviousWakeTime>>

TimeOutNext ==
  \/ \E wait \in BlockTimes : BeginCall(wait)
  \/ \E aborted \in BOOLEAN : Wake(aborted)
  \/ CheckForTimeOut \/ EndCall \/ Tick
  \/ \E increment \in Increments : DelayUntil(increment)

TimeOutSpec == TimeOutInit /\ [][TimeOutNext]_timeOutVars
-----------------------------------------------------------------------------
TimeOutTypeOK ==
  /\ xTickCount \in 0 .. TickMod - 1 /\ xNumOfOverflows \in 0 .. OverflowMod - 1
  /\ pc \in {"idle", "asleep", "awake", "expired", "aborted"}
  /\ pxTicksToWait \in 0 .. TickMod - 1 /\ xTicksToDelay \in 0 .. TickMod - 1
  /\ pxTimeOut \in [xOverflowCount : 0 .. OverflowMod - 1, xTimeOnEntering : 0 .. TickMod - 1]
  /\ ucDelayAborted \in BOOLEAN /\ pxPreviousWakeTime \in 0 .. TickMod - 1

\* A call gives up when its block time is over, and not before, however often it was
\* woken for nothing, how late, and wherever the tick count wrapped; an endless one
\* never.
BlockTimeKept ==
  /\ pc = "expired" => remaining <= 0
  /\ pc = "asleep" /\ pxTicksToWait # Forever =>
       remaining > 0 /\ pxTicksToWait = remaining + ElapsedTime

\* A periodic task sleeps until its period is over, or not at all when it is too late.
PeriodKept == xTicksToDelay = IF nextWake > 0 THEN nextWake ELSE 0

TimesRight == BlockTimeKept /\ PeriodKept
=============================================================================
