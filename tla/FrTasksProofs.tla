---------------------------- MODULE FrTasksProofs ----------------------------
(***************************************************************************)
(* Theorems about the task scheduler, for any number of tasks, priorities  *)
(* and events and any width of the tick count.                             *)
(***************************************************************************)
EXTENDS FrTasks, Integers, TLAPS

\* Tick arithmetic stays in range, and wraps once at most.
LEMMA PlusFacts ==
  ASSUME NEW a \in Ticks, NEW b \in Nat
  PROVE  /\ Plus(a, b) \in Ticks
         /\ a + b <= MaxTick => Plus(a, b) = a + b
         /\ a + b > MaxTick /\ b <= MaxTick => Plus(a, b) = a + b - MaxTick - 1
  BY TasksAssumption DEF TasksAssumption, Plus, Ticks

\* Adding to the delayed list keeps the types.
LEMMA DelayTypes ==
  ASSUME TypeOK, NEW ticks \in 1 .. MaxTick, NEW b \in BOOLEAN,
         AddCurrentTaskToDelayedList(ticks, b)
  PROVE  /\ stateList' \in [Tasks -> StateLists]
         /\ wakeTime' \in [Tasks -> Ticks]
         /\ xNextTaskUnblockTime' \in Ticks
  <1>1. Plus(xTickCount, ticks) \in Ticks
    BY PlusFacts, TasksAssumption DEF TypeOK, TasksAssumption
  <1>. QED
    BY <1>1 DEF TypeOK, AddCurrentTaskToDelayedList, DelayedListFor, Moved, StateLists

\* A tick keeps the types.
LEMMA TickTypes ==
  ASSUME TypeOK, IncrementTick
  PROVE  /\ stateList' \in [Tasks -> StateLists]
         /\ eventList' \in [Tasks -> EventLists]
         /\ uxTopReadyPriority' \in Prios
         /\ xTickCount' \in Ticks /\ xNextTaskUnblockTime' \in Ticks
  <1>1. Plus(xTickCount, 1) \in Ticks
    BY PlusFacts DEF TypeOK
  <1>2. \A now \in Ticks : SwitchedLists(now) \in [Tasks -> StateLists]
    BY DEF TypeOK, SwitchedLists, StateLists
  <1>3. \A S : Unlinked(S) \in [Tasks -> EventLists]
    BY DEF TypeOK, Unlinked, EventLists
  <1>. QED
    BY <1>1, <1>2, <1>3 DEF IncrementTick, RecordReady, ResetNextTaskUnblockTime, StateLists

\* The invariant behind the type invariant: the nesting count of
\* vTaskSuspendAll() never goes below zero because every call that decrements
\* it holds the suspension itself.
TypeInv == TypeOK /\ SuspensionExcludes

LEMMA TypeInit == Init => TypeInv
  <1>. SUFFICES ASSUME Init PROVE TypeInv
    OBVIOUS
  <1>. USE TasksAssumption DEF TasksAssumption, Init
  <1>1. /\ stateList \in [Tasks -> StateLists] /\ eventList \in [Tasks -> EventLists]
        /\ pc \in [Tasks -> Labels] /\ target \in [Tasks -> Tasks]
    BY DEF StateLists, EventLists, Labels
  <1>2. /\ pxCurrentTCB \in Tasks /\ wakeTime \in [Tasks -> Ticks]
        /\ uxPriority \in [Tasks -> Prios] /\ uxTopReadyPriority \in Prios
        /\ xTickCount \in Ticks /\ xNextTaskUnblockTime \in Ticks /\ elapsed \in Ticks
    BY DEF Ticks, Prios
  <1>. QED
    BY <1>1, <1>2 DEF TypeInv, TypeOK, SuspensionExcludes, SuspendedLabels

LEMMA TypeStep == TypeInv /\ [Next]_vars => TypeInv'
  <1>. SUFFICES ASSUME TypeInv, [Next]_vars PROVE TypeInv'
    OBVIOUS
  <1>. USE TasksAssumption DEF TasksAssumption, TypeInv, TypeOK, SuspensionExcludes,
       SuspendedLabels, StateLists, EventLists, Labels, Ticks, Prios, At, Goto, listVars,
       tickVars, yieldVars, cur
  <1>1. CASE Application
    <2>1. CASE SuspendAll
      BY <2>1 DEF SuspendAll, SuspendAllThen
    <2>2. CASE ResumeAll
      BY <2>2 DEF ResumeAll
    <2>3. CASE Delay
      BY <2>3 DEF Delay, BlockingCall, SuspendAllThen
    <2>4. CASE Wait
      BY <2>4 DEF Wait, BlockingCall, SuspendAllThen
    <2>5. CASE IdleCleanUp
      BY <2>5 DEF IdleCleanUp, Moved
    <2>6. CASE CatchUpTicks
      BY <2>6 DEF CatchUpTicks, SuspendAllThen
    <2>7. ASSUME NEW x \in Tasks, Signal(x) PROVE TypeInv'
      BY <2>7 DEF Signal, RemoveFromEventList, RecordReady, Moved
    <2>8. ASSUME NEW x \in Tasks, Suspend(x) PROVE TypeInv'
      BY <2>8 DEF Suspend, Moved, Unlinked
    <2>9. ASSUME NEW x \in Tasks, Resume(x) PROVE TypeInv'
      BY <2>9 DEF Resume, RecordReady, Moved
    <2>10. ASSUME NEW x \in Tasks, AbortDelay(x) PROVE TypeInv'
      BY <2>10 DEF AbortDelay, SuspendAllThen
    <2>11. ASSUME NEW x \in Tasks, Delete(x) PROVE TypeInv'
      BY <2>11 DEF Delete, Moved, Unlinked, ResetNextTaskUnblockTime
    <2>12. ASSUME NEW x \in Tasks, NEW p \in Prios, PrioritySet(x, p) PROVE TypeInv'
      BY <2>12 DEF PrioritySet, Larger
    <2>13. ASSUME NEW x \in Tasks, NEW p \in Prios, Create(x, p) PROVE TypeInv'
      BY <2>13 DEF Create, Larger, Moved
    <2>. QED
      BY <1>1, <2>1, <2>2, <2>3, <2>4, <2>5, <2>6, <2>7, <2>8, <2>9, <2>10, <2>11,
         <2>12, <2>13 DEF Application
  <1>2. CASE KernelCall
    <2>1. CASE Yield
      BY <2>1 DEF Yield
    <2>2. CASE DelayAdd
      BY <2>2, DelayTypes DEF DelayAdd
    <2>3. CASE WaitAdd
      <3>1. eventList' \in [Tasks -> EventLists]
        BY <2>3 DEF WaitAdd
      <3>2. /\ stateList' \in [Tasks -> StateLists] /\ wakeTime' \in [Tasks -> Ticks]
            /\ xNextTaskUnblockTime' \in Ticks
        BY <2>3, DelayTypes DEF WaitAdd
      <3>. QED
        BY <2>3, <3>1, <3>2 DEF WaitAdd
    <2>4. CASE AbortCheck
      BY <2>4 DEF AbortCheck
    <2>5. CASE AbortMove
      BY <2>5 DEF AbortMove, Moved, Unlinked, RecordReady
    <2>6. CASE CreateCheck
      BY <2>6 DEF CreateCheck
    <2>7. CASE CatchUpLoad
      BY <2>7 DEF CatchUpLoad
    <2>8. CASE CatchUpStore
      <3>1. elapsed' \in Ticks /\ xPendedTicks' \in Nat
        BY <2>8, PlusFacts DEF CatchUpStore
      <3>. QED
        BY <2>8, <3>1 DEF CatchUpStore
    <2>9. ASSUME NEW from, NEW next \in {"yield", "run"}, SuspendReset(from, next)
          PROVE  TypeInv'
      BY <2>9 DEF SuspendReset, ResetNextTaskUnblockTime
    <2>10. ASSUME NEW from \in {"resume_yield", "resume_run"},
                  NEW ticks \in {"ticks_yield", "ticks_run"},
                  NEW next \in {"yield", "run"}, ResumeAllBegin(from, ticks, next)
           PROVE  TypeInv'
      <3>1. uxSchedulerSuspended' \in Nat
        BY <2>10 DEF ResumeAllBegin
      <3>2. stateList' \in [Tasks -> StateLists] /\ eventList' \in [Tasks -> EventLists]
        BY <2>10 DEF ResumeAllBegin, Moved, Unlinked
      <3>3. uxTopReadyPriority' \in Prios /\ xNextTaskUnblockTime' \in Ticks
        BY <2>10 DEF ResumeAllBegin, RecordReady, ResetNextTaskUnblockTime
      <3>4. pc' \in [Tasks -> Labels] /\ xYieldPending' \in BOOLEAN
        BY <2>10 DEF ResumeAllBegin
      <3>5. SuspensionExcludes'
        BY <2>10 DEF ResumeAllBegin
      <3>. QED
        BY <2>10, <3>1, <3>2, <3>3, <3>4, <3>5 DEF ResumeAllBegin
    <2>11. ASSUME NEW ticks, ResumeAllTick(ticks) PROVE TypeInv'
      BY <2>11, TickTypes DEF ResumeAllTick
    <2>12. ASSUME NEW ticks, NEW next \in {"yield", "run"}, ResumeAllEnd(ticks, next)
           PROVE  TypeInv'
      BY <2>12 DEF ResumeAllEnd
    <2>. QED
      BY <1>2, <2>1, <2>2, <2>3, <2>4, <2>5, <2>6, <2>7, <2>8, <2>9, <2>10, <2>11,
         <2>12 DEF KernelCall
  <1>3. CASE Interrupt
    <2>1. CASE TickISR
      <3>1. elapsed' \in Ticks /\ msip' \in BOOLEAN
        BY <2>1, PlusFacts DEF TickISR
      <3>2. CASE uxSchedulerSuspended = 0
        BY <2>1, <3>1, <3>2, TickTypes DEF TickISR
      <3>3. CASE uxSchedulerSuspended > 0
        BY <2>1, <3>1, <3>3 DEF TickISR
      <3>. QED
        BY <2>1, <3>2, <3>3 DEF TickISR
    <2>2. CASE SwitchContext
      <3>1. /\ pxCurrentTCB' \in Tasks /\ uxTopReadyPriority' \in Prios
            /\ xYieldPending' \in BOOLEAN /\ msip' \in BOOLEAN
        BY ZenonT(60), <2>2 DEF SwitchContext, Listed
      <3>2. uxSchedulerSuspended # 0 => pxCurrentTCB' = pxCurrentTCB
        BY <2>2 DEF SwitchContext
      <3>. QED
        BY <2>2, <3>1, <3>2 DEF SwitchContext
    <2>3. ASSUME NEW x \in Tasks, SignalFromISR(x) PROVE TypeInv'
      BY <2>3 DEF SignalFromISR, RemoveFromEventList, RecordReady, Moved
    <2>4. ASSUME NEW x \in Tasks, ResumeFromISR(x) PROVE TypeInv'
      BY <2>4 DEF ResumeFromISR, RecordReady, Moved
    <2>. QED
      BY <1>3, <2>1, <2>2, <2>3, <2>4 DEF Interrupt
  <1>4. CASE UNCHANGED vars
    BY <1>4 DEF vars
  <1>. QED
    BY <1>1, <1>2, <1>3, <1>4 DEF Next

\* The type invariant and the mutual exclusion that the suspended scheduler
\* gives kernel calls.
THEOREM TypeCorrect == Spec => [](TypeOK /\ SuspensionExcludes)
  BY TypeInit, TypeStep, PTL DEF Spec, TypeInv
-----------------------------------------------------------------------------
\* A step that neither advances the count nor puts a task on a delayed list
\* keeps them right, whether it recomputes xNextTaskUnblockTime or not.
OnlyLeaves ==
  /\ wakeTime' = wakeTime /\ xTickCount' = xTickCount
  /\ \A t \in Tasks : stateList'[t] \in {"delayed", "overflow"} => stateList'[t] = stateList[t]
  /\ xNextTaskUnblockTime' = xNextTaskUnblockTime \/ ResetNextTaskUnblockTime

LEMMA LeavingKeepsLists ==
  ASSUME DelayListsOK, OnlyLeaves
  PROVE  DelayListsOK'
  BY DEF DelayListsOK, OnlyLeaves, ResetNextTaskUnblockTime, IsUnblockTime

\* A tick keeps them right: what is due leaves, and at a wrap nothing is left in
\* the list that becomes the overflow list.  It wakes nobody early.
LEMMA TickKeepsLists ==
  ASSUME TypeOK, DelayListsOK, IncrementTick, wakeTime' = wakeTime
  PROVE  /\ DelayListsOK'
         /\ \A t \in Tasks : /\ stateList[t] \in {"delayed", "overflow"}
                             /\ stateList'[t] = "ready"
                             => wakeTime[t] = xTickCount'
  <1>. DEFINE now == Plus(xTickCount, 1)
              lists == SwitchedLists(now)
  <1>1. /\ now \in Ticks /\ xTickCount \in Ticks
        /\ IF xTickCount = MaxTick THEN now = 0 ELSE now = xTickCount + 1
    <2>1. xTickCount \in Ticks /\ MaxTick \in Nat /\ 1 <= MaxTick
      BY TasksAssumption DEF TypeOK, TasksAssumption
    <2>2. /\ Plus(xTickCount, 1) \in Ticks
          /\ xTickCount + 1 <= MaxTick => Plus(xTickCount, 1) = xTickCount + 1
          /\ xTickCount + 1 > MaxTick => Plus(xTickCount, 1) = xTickCount + 1 - MaxTick - 1
      BY <2>1, PlusFacts
    <2>. QED
      BY <2>1, <2>2 DEF Ticks
  <1>2. \A t \in Tasks : wakeTime[t] \in Ticks
    BY DEF TypeOK
  <1>3. PICK next \in Ticks :
          /\ IF now = 0 THEN IsUnblockTime(next, {t \in Tasks : lists[t] = "delayed"})
                        ELSE next = xNextTaskUnblockTime
          /\ \A t \in Tasks :
               stateList'[t] = IF /\ now >= next /\ lists[t] = "delayed"
                                  /\ wakeTime[t] <= now
                               THEN "ready" ELSE lists[t]
          /\ IF now >= next THEN ResetNextTaskUnblockTime
                            ELSE xNextTaskUnblockTime' = next
          /\ xTickCount' = now
    BY DEF IncrementTick
  <1>4. \A t \in Tasks : now = 0 => stateList[t] # "delayed"
    BY <1>1, <1>2, TasksAssumption DEF DelayListsOK, Ticks, TasksAssumption
  <1>5. \A t \in Tasks :
          /\ lists[t] = "delayed"  => /\ now <= wakeTime[t] /\ next <= wakeTime[t]
                                      /\ stateList[t] \in {"delayed", "overflow"}
          /\ lists[t] = "overflow" => wakeTime[t] < now /\ stateList[t] = "overflow"
          /\ lists[t] = "ready" => stateList[t] = "ready"
    <2>. SUFFICES ASSUME NEW t \in Tasks
         PROVE  /\ lists[t] = "delayed"  => /\ now <= wakeTime[t] /\ next <= wakeTime[t]
                                            /\ stateList[t] \in {"delayed", "overflow"}
                /\ lists[t] = "overflow" => wakeTime[t] < now /\ stateList[t] = "overflow"
                /\ lists[t] = "ready" => stateList[t] = "ready"
      OBVIOUS
    <2>0. lists[t] = IF now = 0 /\ stateList[t] = "delayed"  THEN "overflow" ELSE
                     IF now = 0 /\ stateList[t] = "overflow" THEN "delayed"
                     ELSE stateList[t]
      BY DEF SwitchedLists
    <2>1. CASE now = 0
      <3>1. lists[t] = "delayed" => next <= wakeTime[t]
        BY <1>3, <2>1 DEF IsUnblockTime
      <3>. HIDE DEF now, lists
      <3>. QED
        BY <1>1, <1>2, <1>4, <2>0, <2>1, <3>1 DEF Ticks
    <2>2. CASE now # 0
      <3>1. stateList[t] = "delayed" => /\ xTickCount < wakeTime[t]
                                        /\ xNextTaskUnblockTime <= wakeTime[t]
        BY DEF DelayListsOK
      <3>2. stateList[t] = "overflow" => wakeTime[t] < xTickCount
        BY DEF DelayListsOK
      <3>3. next = xNextTaskUnblockTime
        BY <1>3, <2>2
      <3>. HIDE DEF now, lists
      <3>. QED
        BY <1>1, <1>2, <2>0, <2>2, <3>1, <3>2, <3>3 DEF Ticks
    <2>. QED
      BY <2>1, <2>2
  <1>. HIDE DEF now, lists
  <1>6. ASSUME NEW t \in Tasks, stateList'[t] = "delayed"
        PROVE  now < wakeTime[t] /\ xNextTaskUnblockTime' <= wakeTime[t]
    <2>1. lists[t] = "delayed" /\ now <= wakeTime[t] /\ next <= wakeTime[t]
      BY <1>3, <1>5, <1>6
    <2>2. CASE now >= next
      <3>1. now < wakeTime[t]
        BY <1>1, <1>2, <1>3, <1>6, <2>1, <2>2 DEF Ticks
      <3>2. xNextTaskUnblockTime' <= wakeTime[t]
        BY <1>3, <1>6, <2>2 DEF ResetNextTaskUnblockTime, IsUnblockTime
      <3>. QED
        BY <3>1, <3>2
    <2>3. CASE ~(now >= next)
      BY <1>1, <1>2, <1>3, <2>1, <2>3 DEF Ticks
    <2>. QED
      BY <2>2, <2>3
  <1>7. DelayListsOK'
    BY <1>3, <1>5, <1>6 DEF DelayListsOK
  <1>8. ASSUME NEW t \in Tasks, stateList[t] \in {"delayed", "overflow"},
               stateList'[t] = "ready"
        PROVE  wakeTime[t] = xTickCount'
    BY <1>1, <1>2, <1>3, <1>5, <1>8 DEF Ticks
  <1>. QED
    BY <1>7, <1>8

\* Blocking the current task keeps them right: the wake time is another tick
\* than the present one, and xNextTaskUnblockTime is brought forward to it.
LEMMA DelayKeepsLists ==
  ASSUME TypeOK, DelayListsOK, xTickCount' = xTickCount, pxCurrentTCB \in Tasks,
         NEW ticks \in 1 .. MaxTick, NEW b \in BOOLEAN,
         AddCurrentTaskToDelayedList(ticks, b)
  PROVE  DelayListsOK'
  <1>. DEFINE wake == Plus(xTickCount, ticks)
  <1>1. wake \in Ticks /\ wake # xTickCount /\ xTickCount \in Ticks
    <2>1. /\ xTickCount \in Ticks /\ MaxTick \in Nat
          /\ ticks \in Nat /\ 0 < ticks /\ ticks <= MaxTick
      BY TasksAssumption DEF TypeOK, TasksAssumption
    <2>2. /\ Plus(xTickCount, ticks) \in Ticks
          /\ xTickCount + ticks <= MaxTick => Plus(xTickCount, ticks) = xTickCount + ticks
          /\ xTickCount + ticks > MaxTick =>
               Plus(xTickCount, ticks) = xTickCount + ticks - MaxTick - 1
      BY <2>1, PlusFacts
    <2>. QED
      BY <2>1, <2>2 DEF Ticks
  <1>2. \A t \in Tasks \ {cur} : stateList'[t] = stateList[t] /\ wakeTime'[t] = wakeTime[t]
    BY DEF AddCurrentTaskToDelayedList, Moved, TypeOK
  <1>3. /\ xNextTaskUnblockTime' \in Ticks /\ xNextTaskUnblockTime \in Ticks
        /\ xNextTaskUnblockTime' <= xNextTaskUnblockTime
    BY <1>1 DEF AddCurrentTaskToDelayedList, TypeOK, Ticks
  <1>4. stateList'[cur] \in {"delayed", "overflow"} =>
          /\ wakeTime'[cur] = wake
          /\ IF stateList'[cur] = "delayed"
               THEN wake > xTickCount /\ xNextTaskUnblockTime' <= wake
               ELSE wake < xTickCount
    BY <1>1 DEF AddCurrentTaskToDelayedList, DelayedListFor, Moved, TypeOK, Ticks, cur
  <1>5. \A t \in Tasks : wakeTime[t] \in Ticks
    BY DEF TypeOK
  <1>. HIDE DEF wake
  <1>. QED
    BY <1>1, <1>2, <1>3, <1>4, <1>5 DEF DelayListsOK, cur, Ticks

LEMMA ListsStep == TypeInv /\ DelayListsOK /\ [Next]_vars => DelayListsOK'
  <1>. SUFFICES ASSUME TypeInv, DelayListsOK, [Next]_vars PROVE DelayListsOK'
    OBVIOUS
  <1>. TypeOK
    BY DEF TypeInv
  <1>1. CASE Application
    <2>1. \/ SuspendAll \/ ResumeAll \/ Delay \/ Wait \/ CatchUpTicks
          \/ \E x \in Tasks : AbortDelay(x) \/ \E p \in Prios : PrioritySet(x, p)
          => OnlyLeaves
      BY DEF SuspendAll, SuspendAllThen, ResumeAll, Delay, Wait, BlockingCall,
         CatchUpTicks, AbortDelay, PrioritySet, OnlyLeaves, listVars, tickVars
    <2>2. IdleCleanUp => OnlyLeaves
      BY DEF IdleCleanUp, Moved, OnlyLeaves, tickVars, TypeOK
    <2>3. ASSUME NEW x \in Tasks,
                 Signal(x) \/ Resume(x) \/ \E p \in Prios : Create(x, p)
          PROVE  OnlyLeaves
      BY <2>3 DEF Signal, RemoveFromEventList, Resume, Create, Moved, OnlyLeaves,
         tickVars, TypeOK
    <2>4. ASSUME NEW x \in Tasks, Suspend(x) \/ Delete(x) PROVE OnlyLeaves
      BY <2>4 DEF Suspend, Delete, Moved, OnlyLeaves, tickVars, TypeOK
    <2>. QED
      BY <1>1, <2>1, <2>2, <2>3, <2>4, LeavingKeepsLists DEF Application
  <1>2. CASE KernelCall
    <2>1. Yield \/ AbortCheck \/ CreateCheck \/ CatchUpLoad \/ CatchUpStore => OnlyLeaves
      BY DEF Yield, AbortCheck, CreateCheck, CatchUpLoad, CatchUpStore, OnlyLeaves,
         listVars, tickVars
    <2>2. DelayAdd => DelayListsOK'
      BY DelayKeepsLists DEF DelayAdd, TypeOK
    <2>3. WaitAdd => DelayListsOK'
      BY DelayKeepsLists DEF WaitAdd, TypeOK
    <2>4. AbortMove => OnlyLeaves
      BY DEF AbortMove, Moved, OnlyLeaves, tickVars, TypeOK
    <2>5. ASSUME NEW from, NEW next, SuspendReset(from, next) PROVE OnlyLeaves
      BY <2>5 DEF SuspendReset, OnlyLeaves
    <2>6. ASSUME NEW from, NEW ticks, NEW next, ResumeAllBegin(from, ticks, next)
          PROVE  OnlyLeaves
      BY <2>6 DEF ResumeAllBegin, Moved, OnlyLeaves, TypeOK
    <2>7. ASSUME NEW ticks, ResumeAllTick(ticks) PROVE DelayListsOK'
      BY <2>7, TickKeepsLists DEF ResumeAllTick
    <2>8. ASSUME NEW ticks, NEW next, ResumeAllEnd(ticks, next) PROVE OnlyLeaves
      BY <2>8 DEF ResumeAllEnd, OnlyLeaves, listVars, tickVars
    <2>. QED
      BY <1>2, <2>1, <2>2, <2>3, <2>4, <2>5, <2>6, <2>7, <2>8, LeavingKeepsLists
         DEF KernelCall
  <1>3. CASE Interrupt
    <2>1. CASE TickISR
      <3>1. CASE uxSchedulerSuspended = 0 /\ IncrementTick
        BY <2>1, <3>1, TickKeepsLists DEF TickISR
      <3>2. CASE UNCHANGED <<stateList, tickVars>>
        BY <2>1, <3>2, LeavingKeepsLists DEF TickISR, OnlyLeaves, tickVars
      <3>. QED
        BY <2>1, <3>1, <3>2 DEF TickISR
    <2>2. SwitchContext => OnlyLeaves
      BY DEF SwitchContext, OnlyLeaves, tickVars
    <2>3. ASSUME NEW x \in Tasks, SignalFromISR(x) PROVE OnlyLeaves
      BY <2>3 DEF SignalFromISR, RemoveFromEventList, Moved, OnlyLeaves, tickVars, TypeOK
    <2>4. ASSUME NEW x \in Tasks, ResumeFromISR(x) PROVE OnlyLeaves
      BY <2>4 DEF ResumeFromISR, Moved, OnlyLeaves, tickVars, TypeOK
    <2>. QED
      BY <1>3, <2>1, <2>2, <2>3, <2>4, LeavingKeepsLists DEF Interrupt
  <1>4. CASE UNCHANGED vars
    BY <1>4 DEF vars, DelayListsOK
  <1>. QED
    BY <1>1, <1>2, <1>3, <1>4 DEF Next

\* The delay lists are right in every reachable state: the configASSERT of
\* taskSWITCH_DELAYED_LISTS() never fails and no wake-up is skipped.
THEOREM DelayListsCorrect == Spec => []DelayListsOK
  <1>1. Init => DelayListsOK
    BY TasksAssumption DEF Init, DelayListsOK
  <1>. QED
    BY <1>1, TypeInit, TypeStep, ListsStep, PTL DEF Spec

\* No tick, delivered or replayed, ends a delay before its time.
THEOREM NeverEarlyHolds == Spec => NeverEarly
  <1>. DEFINE OnTime == \A t \in Tasks :
                /\ xTickCount' # xTickCount
                /\ stateList[t] \in {"delayed", "overflow"} /\ stateList'[t] = "ready"
                => wakeTime[t] = xTickCount'
  <1>1. TypeOK /\ DelayListsOK /\ [Next]_vars => [OnTime]_vars
    <2>. SUFFICES ASSUME TypeOK, DelayListsOK, Next PROVE OnTime
      OBVIOUS
    <2>1. CASE xTickCount' = xTickCount
      BY <2>1
    <2>2. CASE xTickCount' # xTickCount
      <3>1. IncrementTick /\ wakeTime' = wakeTime
        BY <2>2 DEF Next, Application, KernelCall, Interrupt, SuspendAll, SuspendAllThen,
           ResumeAll, Delay, Wait, BlockingCall, CatchUpTicks, AbortDelay, PrioritySet,
           IdleCleanUp, Signal, SignalFromISR, RemoveFromEventList, Resume,
           ResumeFromISR, Create, Suspend, Delete, Yield, AbortCheck, CreateCheck,
           CatchUpLoad, CatchUpStore, DelayAdd, WaitAdd, AbortMove, SuspendReset,
           ResumeAllBegin, ResumeAllTick, ResumeAllEnd, TickISR, SwitchContext,
           tickVars, listVars
      <3>. QED
        BY <3>1, TickKeepsLists
    <2>. QED
      BY <2>1, <2>2
  <1>. QED
    BY <1>1, TypeCorrect, DelayListsCorrect, PTL DEF Spec, NeverEarly
-----------------------------------------------------------------------------
LEMMA ItemsStep == TypeInv /\ ListItemsAgree /\ [Next]_vars => ListItemsAgree'
  <1>. SUFFICES ASSUME TypeInv, ListItemsAgree, [Next]_vars PROVE ListItemsAgree'
    OBVIOUS
  <1>. TypeOK
    BY DEF TypeInv
  <1>. USE DEF ListItemsAgree, Blocked, tickVars, listVars
  <1>0. ASSUME IncrementTick, uxSchedulerSuspended' = uxSchedulerSuspended
        PROVE  ListItemsAgree'
    <2>1. PICK next \in Ticks, due \in SUBSET Tasks :
            /\ stateList' = [t \in Tasks |-> IF t \in due THEN "ready" ELSE
                               SwitchedLists(Plus(xTickCount, 1))[t]]
            /\ eventList' = Unlinked(due)
      BY <1>0 DEF IncrementTick
    <2>. QED
      BY <1>0, <2>1 DEF SwitchedLists, Unlinked, TypeOK
  <1>1. CASE Application
    <2>1. SuspendAll \/ ResumeAll \/ Delay \/ Wait \/ CatchUpTicks => ListItemsAgree'
      BY DEF SuspendAll, SuspendAllThen, ResumeAll, Delay, Wait, BlockingCall,
         CatchUpTicks, TypeOK
    <2>2. IdleCleanUp => ListItemsAgree'
      BY DEF IdleCleanUp, Moved, Listed, TypeOK
    <2>3. ASSUME NEW x \in Tasks, Signal(x) PROVE ListItemsAgree'
      BY <2>3, TasksAssumption
         DEF Signal, RemoveFromEventList, Moved, TypeOK, TasksAssumption
    <2>4. ASSUME NEW x \in Tasks, Suspend(x) \/ Delete(x) PROVE ListItemsAgree'
      BY <2>4 DEF Suspend, Delete, Moved, Unlinked, TypeOK
    <2>5. ASSUME NEW x \in Tasks, Resume(x) \/ \E p \in Prios : Create(x, p)
          PROVE  ListItemsAgree'
      BY <2>5 DEF Resume, Create, IsTaskSuspended, Moved, TypeOK
    <2>6. ASSUME NEW x \in Tasks, AbortDelay(x) \/ \E p \in Prios : PrioritySet(x, p)
          PROVE  ListItemsAgree'
      BY <2>6 DEF AbortDelay, SuspendAllThen, PrioritySet, TypeOK
    <2>. QED
      BY <1>1, <2>1, <2>2, <2>3, <2>4, <2>5, <2>6 DEF Application
  <1>2. CASE KernelCall
    <2>1. Yield \/ AbortCheck \/ CreateCheck \/ CatchUpLoad \/ CatchUpStore => ListItemsAgree'
      BY DEF Yield, AbortCheck, CreateCheck, CatchUpLoad, CatchUpStore
    <2>2. DelayAdd => ListItemsAgree'
      BY DEF DelayAdd, AddCurrentTaskToDelayedList, DelayedListFor, Moved, TypeOK
    <2>3. WaitAdd => ListItemsAgree'
      BY TasksAssumption DEF WaitAdd, AddCurrentTaskToDelayedList, DelayedListFor,
         Moved, TypeOK, TasksAssumption, cur
    <2>4. AbortMove => ListItemsAgree'
      BY DEF AbortMove, Moved, Unlinked, TypeOK
    <2>5. ASSUME NEW from, NEW next, SuspendReset(from, next) PROVE ListItemsAgree'
      BY <2>5 DEF SuspendReset
    <2>6. ASSUME NEW from, NEW ticks, NEW next, ResumeAllBegin(from, ticks, next)
          PROVE  ListItemsAgree'
      BY <2>6 DEF ResumeAllBegin, Moved, Unlinked, TypeOK
    <2>7. ASSUME NEW ticks, ResumeAllTick(ticks) PROVE ListItemsAgree'
      BY <1>0, <2>7 DEF ResumeAllTick
    <2>8. ASSUME NEW ticks, NEW next, ResumeAllEnd(ticks, next) PROVE ListItemsAgree'
      BY <2>8 DEF ResumeAllEnd
    <2>. QED
      BY <1>2, <2>1, <2>2, <2>3, <2>4, <2>5, <2>6, <2>7, <2>8 DEF KernelCall
  <1>3. CASE Interrupt
    <2>1. CASE TickISR
      BY <1>0, <2>1 DEF TickISR
    <2>2. SwitchContext => ListItemsAgree'
      BY DEF SwitchContext
    <2>3. ASSUME NEW x \in Tasks, SignalFromISR(x) PROVE ListItemsAgree'
      BY <2>3, TasksAssumption
         DEF SignalFromISR, RemoveFromEventList, Moved, TypeOK, TasksAssumption
    <2>4. ASSUME NEW x \in Tasks, ResumeFromISR(x) PROVE ListItemsAgree'
      BY <2>4 DEF ResumeFromISR, IsTaskSuspended, Moved, TypeOK
    <2>. QED
      BY <1>3, <2>1, <2>2, <2>3, <2>4 DEF Interrupt
  <1>4. CASE UNCHANGED vars
    BY <1>4 DEF vars
  <1>. QED
    BY <1>1, <1>2, <1>3, <1>4 DEF Next

\* xPendingReadyList is empty whenever tasks may be switched, and a task linked
\* into an event list is not at the same time on a ready list.
THEOREM ListItemsCorrect == Spec => []ListItemsAgree
  <1>1. Init => ListItemsAgree
    BY DEF Init, ListItemsAgree
  <1>. QED
    BY <1>1, TypeInit, TypeStep, ItemsStep, PTL DEF Spec
-----------------------------------------------------------------------------
\* HighestPriorityRuns says nothing inside kernel calls and while the scheduler
\* is suspended.  What holds all along: whenever a ready task is more urgent than
\* the current one, a switch is requested or pended, or the current task has just
\* created that task and is about to compare priorities.
SwitchOnItsWay ==
  \A t \in Listed("ready") :
    uxPriority[t] > uxPriority[cur] =>
      msip \/ xYieldPending \/ (pc[cur] = "create_check" /\ target[cur] = t)

PriorityInv == TopPriorityRecorded /\ SwitchOnItsWay

\* A step after which every newly ready task has been recorded in
\* uxTopReadyPriority and, if more urgent than the current one, announced.
Announced ==
  /\ uxPriority' = uxPriority /\ pxCurrentTCB' = pxCurrentTCB /\ target' = target
  /\ uxTopReadyPriority' \in Prios /\ uxTopReadyPriority <= uxTopReadyPriority'
  /\ msip => msip'
  /\ xYieldPending => xYieldPending'
  /\ pc'[cur] = pc[cur] \/ pc[cur] # "create_check"
  /\ \A t \in Tasks : stateList'[t] = "ready" /\ stateList[t] # "ready" =>
       /\ uxPriority[t] <= uxTopReadyPriority'
       /\ uxPriority[t] > uxPriority[cur] => msip' \/ xYieldPending'

LEMMA AnnouncedKeeps ==
  ASSUME TypeOK, TypeOK', PriorityInv, Announced
  PROVE  PriorityInv'
  <1>1. ASSUME NEW t \in Tasks, stateList'[t] = "ready"
        PROVE  uxPriority'[t] <= uxTopReadyPriority'
    BY <1>1 DEF PriorityInv, TopPriorityRecorded, Announced, Listed, TypeOK, Prios
  <1>2. ASSUME NEW t \in Tasks, stateList'[t] = "ready", uxPriority'[t] > uxPriority'[cur']
        PROVE  msip' \/ xYieldPending' \/ (pc'[cur'] = "create_check" /\ target'[cur'] = t)
    BY <1>2 DEF PriorityInv, SwitchOnItsWay, Announced, Listed, TypeOK, cur
  <1>. QED
    BY <1>1, <1>2 DEF PriorityInv, TopPriorityRecorded, SwitchOnItsWay, Listed

\* taskRECORD_READY_PRIORITY covers the tasks it is given and forgets none.
LEMMA RecordFacts ==
  ASSUME TypeOK, NEW S \in SUBSET Tasks, RecordReady(S)
  PROVE  /\ uxTopReadyPriority' \in Prios /\ uxTopReadyPriority <= uxTopReadyPriority'
         /\ \A t \in S : uxPriority[t] <= uxTopReadyPriority'
  BY DEF RecordReady, IsTopAfter, TypeOK, Prios

\* The same for a step that makes the one task x ready, or none.
LEMMA OneAnnounced ==
  ASSUME TypeOK, NEW x \in Tasks,
         uxPriority' = uxPriority, pxCurrentTCB' = pxCurrentTCB, target' = target,
         \/ stateList' = Moved({x}, "ready") /\ RecordReady({x})
         \/ UNCHANGED <<stateList, uxTopReadyPriority>>,
         msip => msip', xYieldPending => xYieldPending',
         uxPriority[x] > uxPriority[cur] => msip' \/ xYieldPending',
         pc'[cur] = pc[cur] \/ pc[cur] # "create_check"
  PROVE  Announced
  <1>1. /\ uxTopReadyPriority' \in Prios /\ uxTopReadyPriority <= uxTopReadyPriority'
        /\ stateList' # stateList => uxPriority[x] <= uxTopReadyPriority'
    BY RecordFacts DEF TypeOK, Prios
  <1>2. \A t \in Tasks : stateList'[t] = "ready" /\ stateList[t] # "ready" =>
          t = x /\ stateList' # stateList
    BY DEF Moved, TypeOK
  <1>. QED
    BY <1>1, <1>2 DEF Announced

\* A tick records the tasks it makes ready, and reports the urgent ones.
LEMMA TickRecords ==
  ASSUME TypeOK, IncrementTick
  PROVE  /\ uxTopReadyPriority' \in Prios /\ uxTopReadyPriority <= uxTopReadyPriority'
         /\ \A t \in Tasks : stateList'[t] = "ready" /\ stateList[t] # "ready" =>
              /\ uxPriority[t] <= uxTopReadyPriority'
              /\ uxPriority[t] > uxPriority[cur] => SwitchRequired
  <1>1. PICK due \in SUBSET Tasks :
          /\ stateList' = [t \in Tasks |-> IF t \in due THEN "ready" ELSE
                             SwitchedLists(Plus(xTickCount, 1))[t]]
          /\ RecordReady(due)
    BY DEF IncrementTick
  <1>2. \A t \in Tasks : stateList'[t] = "ready" /\ stateList[t] # "ready" => t \in due
    BY <1>1 DEF SwitchedLists
  <1>3. \A t \in Tasks : /\ stateList'[t] = "ready" /\ stateList[t] # "ready"
                         /\ uxPriority[t] > uxPriority[cur]
                         => SwitchRequired
    BY DEF SwitchRequired, TypeOK, Prios, cur
  <1>. QED
    BY <1>1, <1>2, <1>3, RecordFacts

LEMMA PriorityStep == TypeInv /\ TypeInv' /\ PriorityInv /\ [Next]_vars => PriorityInv'
  <1>. SUFFICES ASSUME TypeInv, TypeInv', PriorityInv, [Next]_vars PROVE PriorityInv'
    OBVIOUS
  <1>. TypeOK /\ TypeOK'
    BY DEF TypeInv
  <1>a. \A t \in Tasks : uxPriority[t] \in Nat
    BY DEF TypeOK, Prios
  <1>b. uxTopReadyPriority \in Prios /\ uxTopReadyPriority <= uxTopReadyPriority
    BY DEF TypeOK, Prios
  <1>. USE DEF At, Goto, listVars, tickVars, yieldVars
  <1>1. CASE Application
    <2>1. SuspendAll \/ ResumeAll \/ Delay \/ Wait \/ CatchUpTicks => Announced
      BY <1>b DEF SuspendAll, SuspendAllThen, ResumeAll, Delay, Wait, BlockingCall,
         CatchUpTicks, TypeOK, Announced, cur
    <2>2. IdleCleanUp => Announced
      BY <1>b DEF IdleCleanUp, Moved, TypeOK, Announced
    <2>3. ASSUME NEW x \in Tasks, Signal(x) PROVE Announced
      BY <2>3, OneAnnounced DEF Signal, RemoveFromEventList
    <2>4. ASSUME NEW x \in Tasks, Suspend(x) \/ Delete(x) PROVE Announced
      BY <1>b, <2>4 DEF Suspend, Delete, Moved, TypeOK, Announced, cur
    <2>5. ASSUME NEW x \in Tasks, Resume(x) PROVE Announced
      <3>1. uxPriority[x] > uxPriority[cur] => uxPriority[x] >= uxPriority[cur]
        BY <1>a DEF TypeOK, cur
      <3>. QED
        BY <2>5, <3>1, OneAnnounced DEF Resume
    <2>6. ASSUME NEW x \in Tasks, AbortDelay(x) PROVE PriorityInv'
      BY <2>6 DEF AbortDelay, SuspendAllThen, PriorityInv, TopPriorityRecorded,
         SwitchOnItsWay, Listed, TypeOK, cur
    <2>7. ASSUME NEW x \in Tasks, NEW p \in Prios, PrioritySet(x, p) PROVE PriorityInv'
      <3>1. TopPriorityRecorded'
        BY <1>a, <2>7 DEF PrioritySet, PriorityInv, TopPriorityRecorded, Listed, Larger,
           TypeOK, Prios
      <3>2. SwitchOnItsWay'
        <4>. DEFINE raised == IF p > uxPriority[x] THEN x # cur /\ p >= uxPriority[cur]
                                                  ELSE x = cur
        <4>1. msip' = (msip \/ raised)
          BY <2>7 DEF PrioritySet
        <4>2. /\ pxCurrentTCB' = pxCurrentTCB /\ xYieldPending' = xYieldPending
              /\ pc' = pc /\ target' = target /\ stateList' = stateList
          BY <2>7 DEF PrioritySet
        <4>3. \A t \in Tasks : uxPriority'[t] = IF t = x THEN p ELSE uxPriority[t]
          BY <2>7 DEF PrioritySet, TypeOK
        <4>4. ASSUME NEW t \in Tasks, uxPriority'[t] > uxPriority'[cur], ~raised
              PROVE  uxPriority[t] > uxPriority[cur]
          BY <1>a, <4>3, <4>4 DEF TypeOK, Prios, cur
        <4>. HIDE DEF raised
        <4>. QED
          BY <4>1, <4>2, <4>4 DEF PriorityInv, SwitchOnItsWay, Listed, cur
      <3>. QED
        BY <3>1, <3>2 DEF PriorityInv
    <2>8. ASSUME NEW x \in Tasks, NEW p \in Prios, Create(x, p) PROVE PriorityInv'
      <3>1. TopPriorityRecorded'
        BY <1>a, <2>8 DEF Create, PriorityInv, TopPriorityRecorded, Listed, Larger, Moved,
           TypeOK, Prios
      <3>2. SwitchOnItsWay'
        BY <1>a, <2>8 DEF Create, PriorityInv, SwitchOnItsWay, Listed, Moved, TypeOK,
           Prios, cur
      <3>. QED
        BY <3>1, <3>2 DEF PriorityInv
    <2>. QED
      BY <1>1, <2>1, <2>2, <2>3, <2>4, <2>5, <2>6, <2>7, <2>8, AnnouncedKeeps
         DEF Application
  <1>2. CASE KernelCall
    <2>1. Yield \/ AbortCheck \/ CatchUpLoad \/ CatchUpStore => Announced
      BY <1>b DEF Yield, AbortCheck, CatchUpLoad, CatchUpStore, TypeOK, Announced, cur
    <2>2. CreateCheck => PriorityInv'
      <3>. SUFFICES ASSUME CreateCheck PROVE PriorityInv'
        OBVIOUS
      <3>1. TopPriorityRecorded'
        BY DEF CreateCheck, PriorityInv, TopPriorityRecorded, Listed
      <3>2. SwitchOnItsWay'
        BY ZenonT(60), <1>a DEF CreateCheck, PriorityInv, SwitchOnItsWay, Listed, TypeOK, cur
      <3>. QED
        BY <3>1, <3>2 DEF PriorityInv
    <2>3. DelayAdd \/ WaitAdd => Announced
      BY <1>b DEF DelayAdd, WaitAdd, AddCurrentTaskToDelayedList, DelayedListFor, Moved,
         TypeOK, Announced, cur
    <2>4. AbortMove => Announced
      <3>. SUFFICES ASSUME AbortMove PROVE Announced
        OBVIOUS
      <3>1. PICK x \in Tasks :
              /\ stateList' = Moved({x}, "ready") /\ RecordReady({x})
              /\ xYieldPending' = (xYieldPending \/ uxPriority[x] > uxPriority[cur])
        BY DEF AbortMove, TypeOK, cur
      <3>2. pc[cur] # "create_check"
        BY DEF AbortMove
      <3>. QED
        BY <3>1, <3>2, OneAnnounced DEF AbortMove
    <2>5. ASSUME NEW from \in {"suspend_self", "suspend_other"},
                 NEW next, SuspendReset(from, next) PROVE Announced
      BY <1>b, <2>5 DEF SuspendReset, Announced, TypeOK
    <2>6. ASSUME NEW from \in {"resume_yield", "resume_run"}, NEW ticks, NEW next,
                 ResumeAllBegin(from, ticks, next)
          PROVE  Announced
      <3>. DEFINE pended == {t \in Tasks : eventList[t] = "pending"}
      <3>1. UNCHANGED <<stateList, uxTopReadyPriority, xYieldPending>> \/
            /\ RecordReady(pended) /\ stateList' = Moved(pended, "ready")
            /\ xYieldPending' = (xYieldPending \/ \E t \in pended :
                                   uxPriority[t] >= uxPriority[cur])
        BY <2>6 DEF ResumeAllBegin
      <3>2. /\ uxTopReadyPriority' \in Prios /\ uxTopReadyPriority <= uxTopReadyPriority'
            /\ \A t \in Tasks : stateList'[t] = "ready" /\ stateList[t] # "ready" =>
                 /\ uxPriority[t] <= uxTopReadyPriority'
                 /\ uxPriority[t] >= uxPriority[cur] => xYieldPending'
        BY <1>b, <3>1, RecordFacts DEF Moved, TypeOK
      <3>3. xYieldPending => xYieldPending'
        BY <3>1
      <3>. QED
        BY <1>a, <2>6, <3>2, <3>3 DEF ResumeAllBegin, Announced, TypeOK, cur
    <2>7. ASSUME NEW ticks, ResumeAllTick(ticks) PROVE Announced
      BY <2>7, TickRecords DEF ResumeAllTick, Announced, TypeOK
    <2>8. ASSUME NEW ticks \in {"ticks_yield", "ticks_run"}, NEW next,
                 ResumeAllEnd(ticks, next) PROVE Announced
      BY <1>b, <2>8 DEF ResumeAllEnd, Announced, TypeOK, cur
    <2>. QED
      BY <1>2, <2>1, <2>2, <2>3, <2>4, <2>5, <2>6, <2>7, <2>8, AnnouncedKeeps
         DEF KernelCall
  <1>3. CASE Interrupt
    <2>1. TickISR => Announced
      BY <1>b, TickRecords DEF TickISR, Announced, TypeOK
    <2>2. ASSUME SwitchContext PROVE PriorityInv'
      <3>1. CASE uxSchedulerSuspended # 0
        BY <2>2, <3>1 DEF SwitchContext, PriorityInv, TopPriorityRecorded,
           SwitchOnItsWay, Listed, TypeOK, cur
      <3>2. CASE uxSchedulerSuspended = 0
        <4>1. \A u \in Listed("ready") : uxPriority[u] <= uxTopReadyPriority
          BY DEF PriorityInv, TopPriorityRecorded
        <4>2. \A u \in Listed("ready") : /\ uxPriority[u] <= uxPriority[pxCurrentTCB']
                                         /\ uxPriority[u] <= uxTopReadyPriority'
          BY <2>2, <3>2, <4>1 DEF SwitchContext
        <4>3. pxCurrentTCB' \in Tasks
          BY DEF TypeOK
        <4>. QED
          BY <1>a, <2>2, <4>2, <4>3 DEF SwitchContext, PriorityInv, TopPriorityRecorded,
             SwitchOnItsWay, Listed, cur
      <3>. QED
        BY <3>1, <3>2
    <2>3. ASSUME NEW x \in Tasks, SignalFromISR(x) PROVE Announced
      BY <2>3, OneAnnounced DEF SignalFromISR, RemoveFromEventList
    <2>4. ASSUME NEW x \in Tasks, ResumeFromISR(x) PROVE Announced
      <3>1. RecordReady({x}) \/ UNCHANGED <<stateList, uxTopReadyPriority>>
        BY <2>4 DEF ResumeFromISR
      <3>. QED
        BY <1>a, <1>b, <2>4, <3>1, RecordFacts
           DEF ResumeFromISR, Moved, Announced, TypeOK, cur
    <2>. QED
      BY <1>3, <2>1, <2>2, <2>3, <2>4, AnnouncedKeeps DEF Interrupt
  <1>4. CASE UNCHANGED vars
    BY <1>4 DEF vars, PriorityInv, TopPriorityRecorded, SwitchOnItsWay, Listed, cur
  <1>. QED
    BY <1>1, <1>2, <1>3, <1>4 DEF Next

\* Every ready task is within the reach of vTaskSwitchContext()'s search, and
\* outside kernel calls the current task is a most urgent ready task.
THEOREM PrioritiesCorrect == Spec => [](TopPriorityRecorded /\ HighestPriorityRuns)
  <1>1. Init => PriorityInv
    BY TasksAssumption DEF Init, PriorityInv, TopPriorityRecorded, SwitchOnItsWay,
       Listed, Prios, TasksAssumption, cur
  <1>2. TypeInv /\ PriorityInv => TopPriorityRecorded /\ HighestPriorityRuns
    <2>. SUFFICES ASSUME TypeInv, PriorityInv PROVE HighestPriorityRuns
      BY DEF PriorityInv
    <2>1. \A t \in Tasks : uxPriority[t] \in Nat /\ uxPriority[cur] \in Nat
      BY DEF TypeInv, TypeOK, Prios, cur
    <2>2. ASSUME ~msip, ~xYieldPending, pc[cur] = "run", NEW t \in Listed("ready")
          PROVE  ~(uxPriority[t] > uxPriority[cur])
      BY <2>2 DEF PriorityInv, SwitchOnItsWay
    <2>3. \A a, b \in Nat : ~(a > b) => a <= b
      OBVIOUS
    <2>4. Listed("ready") \subseteq Tasks
      BY DEF Listed
    <2>. QED
      BY <2>1, <2>2, <2>3, <2>4 DEF HighestPriorityRuns
  <1>. QED
    BY <1>1, <1>2, TypeInit, TypeStep, PriorityStep, PTL DEF Spec

\* A task switch finds what it relies on: whoever is between vTaskSuspendAll() and
\* xTaskResumeAll() is the current task and holds the scheduler suspended, and no
\* ready task lies above uxTopReadyPriority.
THEOREM RecordsCorrect == Spec => []SchedulerRecords
  <1>1. TypeOK /\ SuspensionExcludes /\ TopPriorityRecorded /\ HighestPriorityRuns
        => SchedulerRecords
    BY DEF SchedulerRecords
  <1>. QED
    BY <1>1, TypeCorrect, PrioritiesCorrect, PTL
-----------------------------------------------------------------------------
\* Behind CurrentIsReady: a current task that is not on a ready list is inside
\* the rest of the call that took it off, and that rest ends in a switch.  The
\* call suspends the scheduler once, so ending the suspension enables the switch.
LeavesReadyOnlyToSwitch ==
  /\ pc[cur] \in {"delay", "wait", "resume_yield"} => uxSchedulerSuspended = 1
  /\ stateList[cur] # "ready" =>
       \/ pc[cur] = "resume_yield"
       \/ uxSchedulerSuspended = 0 /\ pc[cur] \in {"ticks_yield", "yield", "suspend_self"}
       \/ uxSchedulerSuspended = 0 /\ pc[cur] = "run" /\ msip

\* A step that does not concern the current task keeps it so.
Elsewhere ==
  /\ pxCurrentTCB' = pxCurrentTCB /\ uxSchedulerSuspended' = uxSchedulerSuspended
  /\ pc'[cur] = pc[cur]
  /\ msip => msip'
  /\ stateList[cur] = "ready" => stateList'[cur] = "ready"

LEMMA ElsewhereKeeps ==
  ASSUME LeavesReadyOnlyToSwitch, Elsewhere
  PROVE  LeavesReadyOnlyToSwitch'
  BY DEF LeavesReadyOnlyToSwitch, Elsewhere, cur

LEMMA RunnableStep ==
  TypeInv /\ LeavesReadyOnlyToSwitch /\ [Next]_vars => LeavesReadyOnlyToSwitch'
  <1>. SUFFICES ASSUME TypeInv, LeavesReadyOnlyToSwitch, [Next]_vars
       PROVE  LeavesReadyOnlyToSwitch'
    OBVIOUS
  <1>. TypeOK /\ SuspensionExcludes
    BY DEF TypeInv
  <1>. USE DEF At, Goto, listVars, tickVars, yieldVars, cur
  <1>0. ASSUME IncrementTick
        PROVE  stateList[cur] = "ready" => stateList'[cur] = "ready"
    BY <1>0 DEF IncrementTick, SwitchedLists, TypeOK
  <1>1. CASE Application
    <2>. USE DEF LeavesReadyOnlyToSwitch, TypeOK
    <2>1. SuspendAll \/ ResumeAll \/ Delay \/ Wait \/ CatchUpTicks => LeavesReadyOnlyToSwitch'
      BY DEF SuspendAll, SuspendAllThen, ResumeAll, Delay, Wait, BlockingCall, CatchUpTicks,
         Masked
    <2>2. IdleCleanUp => LeavesReadyOnlyToSwitch'
      BY DEF IdleCleanUp, Moved, Listed, Masked
    <2>3. ASSUME NEW x \in Tasks, Signal(x) \/ Resume(x) PROVE Elsewhere
      BY <2>3 DEF Signal, RemoveFromEventList, Resume, Moved, Elsewhere
    <2>4. ASSUME NEW x \in Tasks, Suspend(x) \/ Delete(x) PROVE LeavesReadyOnlyToSwitch'
      BY <2>4 DEF Suspend, Delete, Moved, Masked
    <2>5. ASSUME NEW x \in Tasks, AbortDelay(x) PROVE LeavesReadyOnlyToSwitch'
      BY <2>5 DEF AbortDelay, SuspendAllThen, Masked
    <2>6. ASSUME NEW x \in Tasks, NEW p \in Prios, PrioritySet(x, p) PROVE Elsewhere
      BY <2>6 DEF PrioritySet, Elsewhere
    <2>7. ASSUME NEW x \in Tasks, NEW p \in Prios, Create(x, p)
          PROVE  LeavesReadyOnlyToSwitch'
      BY <2>7 DEF Create, Moved, Masked
    <2>. QED
      BY <1>1, <2>1, <2>2, <2>3, <2>4, <2>5, <2>6, <2>7, ElsewhereKeeps DEF Application
  <1>2. CASE KernelCall
    <2>. USE DEF LeavesReadyOnlyToSwitch, TypeOK
    <2>1. Yield \/ AbortCheck \/ CreateCheck \/ CatchUpLoad \/ CatchUpStore
          => LeavesReadyOnlyToSwitch'
      BY DEF Yield, AbortCheck, CreateCheck, CatchUpLoad, CatchUpStore, Masked
    <2>2. DelayAdd \/ WaitAdd => LeavesReadyOnlyToSwitch'
      BY DEF DelayAdd, WaitAdd, AddCurrentTaskToDelayedList, Moved
    <2>3. AbortMove => LeavesReadyOnlyToSwitch'
      BY DEF AbortMove, Moved
    <2>4. SuspendReset("suspend_self", "yield") \/ SuspendReset("suspend_other", "run")
          => LeavesReadyOnlyToSwitch'
      BY DEF SuspendReset
    <2>5. \/ ResumeAllBegin("resume_yield", "ticks_yield", "yield")
          \/ ResumeAllBegin("resume_run", "ticks_run", "run")
          => LeavesReadyOnlyToSwitch'
      BY DEF ResumeAllBegin, Moved
    <2>6. ASSUME NEW ticks, ResumeAllTick(ticks) PROVE LeavesReadyOnlyToSwitch'
      <3>1. stateList'[cur] = "ready" \/ stateList[cur] # "ready"
        BY <1>0, <2>6 DEF ResumeAllTick
      <3>. QED
        BY <2>6, <3>1 DEF ResumeAllTick
    <2>7. ResumeAllEnd("ticks_yield", "yield") \/ ResumeAllEnd("ticks_run", "run")
          => LeavesReadyOnlyToSwitch'
      BY DEF ResumeAllEnd
    <2>. QED
      BY <1>2, <2>1, <2>2, <2>3, <2>4, <2>5, <2>6, <2>7 DEF KernelCall
  <1>3. CASE Interrupt
    <2>1. ASSUME TickISR PROVE Elsewhere
      <3>1. stateList[cur] = "ready" => stateList'[cur] = "ready"
        BY <1>0, <2>1 DEF TickISR
      <3>2. msip => msip'
        BY <2>1 DEF TickISR
      <3>. QED
        BY <2>1, <3>1, <3>2 DEF TickISR, Elsewhere
    <2>2. CASE SwitchContext
      <3>1. CASE uxSchedulerSuspended # 0
        BY <2>2, <3>1 DEF SwitchContext, LeavesReadyOnlyToSwitch
      <3>2. CASE uxSchedulerSuspended = 0
        <4>1. pxCurrentTCB' \in Tasks /\ stateList'[pxCurrentTCB'] = "ready"
          BY <2>2, <3>2 DEF SwitchContext, Listed
        <4>2. \A t \in Tasks : pc[t] \notin SuspendedLabels
          BY <3>2 DEF SuspensionExcludes, TypeOK
        <4>. QED
          BY <2>2, <4>1, <4>2 DEF SwitchContext, LeavesReadyOnlyToSwitch, SuspendedLabels
      <3>. QED
        BY <3>1, <3>2
    <2>3. ASSUME NEW x \in Tasks, SignalFromISR(x) \/ ResumeFromISR(x) PROVE Elsewhere
      BY <2>3 DEF SignalFromISR, RemoveFromEventList, ResumeFromISR, Moved, Elsewhere, TypeOK
    <2>. QED
      BY <1>3, <2>1, <2>2, <2>3, ElsewhereKeeps DEF Interrupt
  <1>4. CASE UNCHANGED vars
    BY <1>4 DEF vars, LeavesReadyOnlyToSwitch
  <1>. QED
    BY <1>1, <1>2, <1>3, <1>4 DEF Next

\* A task that blocked, suspended or deleted itself never gets back to its own
\* code before the switch away from it.
THEOREM CurrentCorrect == Spec => []CurrentIsReady
  <1>1. Init => LeavesReadyOnlyToSwitch
    <2>. SUFFICES ASSUME Init PROVE pc[cur] = "run" /\ stateList[cur] = "ready"
      BY DEF LeavesReadyOnlyToSwitch
    <2>. QED
      BY TasksAssumption DEF Init, cur, TasksAssumption
  <1>2. LeavesReadyOnlyToSwitch => CurrentIsReady
    BY DEF LeavesReadyOnlyToSwitch, CurrentIsReady
  <1>. QED
    BY <1>1, <1>2, TypeInit, TypeStep, RunnableStep, PTL DEF Spec
-----------------------------------------------------------------------------
\* Euclidean division.
LEMMA ModFacts ==
  ASSUME NEW m \in Nat \ {0}, NEW x \in Nat
  PROVE  x = m * (x \div m) + (x % m) /\ x \div m \in Nat /\ x % m \in 0 .. m - 1
  <1>1. x = m * (x \div m) + (x % m)
    BY SMT
  <1>2. x \div m \in Nat
    BY SMT
  <1>3. x % m \in 0 .. m - 1
    BY SMT
  <1>. QED
    BY <1>1, <1>2, <1>3

LEMMA ModUnique ==
  ASSUME NEW m \in Nat \ {0}, NEW q \in Int, NEW r \in 0 .. m - 1
  PROVE  (m * q + r) % m = r
  BY Z3

\* Tick arithmetic is modulo 2^width: a wrap of a summand makes no difference.
LEMMA ModWrap ==
  ASSUME NEW m \in Nat \ {0}, NEW x \in Nat, NEW b \in Nat
  PROVE  ((x % m) + b) % m = (x + b) % m
  <1>1. PICK q \in Nat, r \in 0 .. m - 1 : x = m * q + r /\ x % m = r
    BY ModFacts, Zenon
  <1>2. PICK k \in Nat, s \in 0 .. m - 1 : x + b = m * k + s /\ (x + b) % m = s
    <2>1. x + b \in Nat
      OBVIOUS
    <2>. QED
      BY <2>1, ModFacts, Zenon
  <1>3. r + b = m * (k - q) + s
    <2>1. m * (k - q) = m * k - m * q /\ m * k \in Int /\ m * q \in Int
      BY Z3
    <2>2. \A u, v \in Int : x = u + r /\ x + b = v + s => r + b = (v - u) + s
      OBVIOUS
    <2>3. r + b = (m * k - m * q) + s
      BY <1>1, <1>2, <2>1, <2>2, Zenon
    <2>. QED
      BY <2>1, <2>3, Zenon
  <1>4. (m * (k - q) + s) % m = s
    BY ModUnique
  <1>. QED
    BY <1>1, <1>2, <1>3, <1>4, Zenon

LEMMA PlusShift ==
  ASSUME NEW a \in Ticks, NEW b \in Nat
  PROVE  /\ Plus(Plus(a, 1), b) = Plus(a, b + 1)
         /\ Plus(Plus(a, b), 1) = Plus(a, b + 1)
  <1>1. MaxTick + 1 \in Nat \ {0} /\ a \in Nat /\ a + 1 \in Nat /\ a + b \in Nat
    BY TasksAssumption DEF TasksAssumption, Ticks
  <1>2. /\ (((a + 1) % (MaxTick + 1)) + b) % (MaxTick + 1) = (a + 1 + b) % (MaxTick + 1)
        /\ (((a + b) % (MaxTick + 1)) + 1) % (MaxTick + 1) = (a + b + 1) % (MaxTick + 1)
    BY <1>1, ModWrap
  <1>3. a + 1 + b = a + (b + 1) /\ a + b + 1 = a + (b + 1)
    BY <1>1
  <1>. QED
    BY <1>2, <1>3 DEF Plus

\* While xTaskCatchUpTicks() is not called, nobody writes xPendedTicks beside the
\* tick interrupt and xTaskResumeAll().
TicksInv ==
  /\ NoTickLost
  /\ \A t \in Tasks : pc[t] \notin {"catch_up", "catch_up_store"}

LEMMA TicksStep ==
  ASSUME ~CatchUp
  PROVE  TypeInv /\ TicksInv /\ [Next]_vars => TicksInv'
  <1>. SUFFICES ASSUME TypeInv, TicksInv, [Next]_vars PROVE TicksInv'
    OBVIOUS
  <1>. TypeOK
    BY DEF TypeInv
  <1>. USE DEF At, Goto, listVars, tickVars, yieldVars, cur
  <1>0. xTickCount \in Ticks /\ xPendedTicks \in Nat
    BY DEF TypeOK
  <1>1. CASE Application
    <2>1. SuspendAll \/ ResumeAll \/ Delay \/ Wait \/ IdleCleanUp => TicksInv'
      BY DEF SuspendAll, SuspendAllThen, ResumeAll, Delay, Wait, BlockingCall,
         IdleCleanUp, TicksInv, NoTickLost, TypeOK
    <2>2. ~CatchUpTicks
      BY DEF CatchUpTicks
    <2>3. ASSUME NEW x \in Tasks, NEW p \in Prios,
                 Signal(x) \/ Resume(x) \/ PrioritySet(x, p)
          PROVE  TicksInv'
      BY <2>3 DEF Signal, RemoveFromEventList, Resume, PrioritySet, TicksInv, NoTickLost
    <2>4. ASSUME NEW x \in Tasks, NEW p \in Prios,
                 Suspend(x) \/ Delete(x) \/ AbortDelay(x) \/ Create(x, p)
          PROVE  TicksInv'
      BY <2>4 DEF Suspend, Delete, AbortDelay, SuspendAllThen, Create, TicksInv,
         NoTickLost, TypeOK
    <2>5. 0 \in Prios
      BY TasksAssumption DEF Prios, TasksAssumption
    <2>. QED
      BY <1>1, <2>1, <2>2, <2>3, <2>4, <2>5 DEF Application
  <1>2. CASE KernelCall
    <2>. USE DEF TicksInv, NoTickLost, TypeOK
    <2>1. Yield \/ AbortCheck \/ CreateCheck \/ DelayAdd \/ WaitAdd \/ AbortMove => TicksInv'
      BY DEF Yield, AbortCheck, CreateCheck, DelayAdd, WaitAdd,
         AddCurrentTaskToDelayedList, AbortMove
    <2>2. ~CatchUpLoad /\ ~CatchUpStore
      BY DEF CatchUpLoad, CatchUpStore
    <2>3. ASSUME NEW from, NEW next \in {"yield", "run"}, SuspendReset(from, next)
          PROVE  TicksInv'
      BY <2>3 DEF SuspendReset
    <2>4. ASSUME NEW from, NEW ticks \in {"ticks_yield", "ticks_run"},
                 NEW next \in {"yield", "run"}, ResumeAllBegin(from, ticks, next)
          PROVE  TicksInv'
      BY <2>4 DEF ResumeAllBegin
    <2>5. ASSUME NEW ticks, ResumeAllTick(ticks) PROVE TicksInv'
      <3>1. /\ xTickCount' = Plus(xTickCount, 1) /\ elapsed' = elapsed
            /\ xPendedTicks' \in Nat /\ xPendedTicks' + 1 = xPendedTicks /\ pc' = pc
        BY <2>5 DEF ResumeAllTick, IncrementTick
      <3>2. Plus(Plus(xTickCount, 1), xPendedTicks') = Plus(xTickCount, xPendedTicks' + 1)
        BY <1>0, <3>1, PlusShift
      <3>. QED
        BY <3>1, <3>2, Zenon
    <2>6. ASSUME NEW ticks, NEW next \in {"yield", "run"}, ResumeAllEnd(ticks, next)
          PROVE  TicksInv'
      BY <2>6 DEF ResumeAllEnd
    <2>. QED
      BY <1>2, <2>1, <2>2, <2>3, <2>4, <2>5, <2>6 DEF KernelCall
  <1>3. CASE Interrupt
    <2>. USE DEF TicksInv, NoTickLost
    <2>1. CASE TickISR
      <3>1. Plus(Plus(xTickCount, 1), xPendedTicks) = Plus(xTickCount, xPendedTicks + 1)
        BY <1>0, PlusShift
      <3>2. Plus(Plus(xTickCount, xPendedTicks), 1) = Plus(xTickCount, xPendedTicks + 1)
        BY <1>0, PlusShift
      <3>3. elapsed' = Plus(elapsed, 1) /\ pc' = pc
        BY <2>1 DEF TickISR
      <3>4. \/ xTickCount' = Plus(xTickCount, 1) /\ xPendedTicks' = xPendedTicks
            \/ xTickCount' = xTickCount /\ xPendedTicks' = xPendedTicks + 1
        BY <2>1 DEF TickISR, IncrementTick
      <3>. QED
        BY <3>1, <3>2, <3>3, <3>4, Zenon
    <2>2. SwitchContext => TicksInv'
      BY DEF SwitchContext
    <2>3. ASSUME NEW x \in Tasks, SignalFromISR(x) \/ ResumeFromISR(x) PROVE TicksInv'
      BY <2>3 DEF SignalFromISR, RemoveFromEventList, ResumeFromISR
    <2>. QED
      BY <1>3, <2>1, <2>2, <2>3 DEF Interrupt
  <1>4. CASE UNCHANGED vars
    BY <1>4 DEF vars, TicksInv, NoTickLost
  <1>. QED
    BY <1>1, <1>2, <1>3, <1>4 DEF Next

\* As long as the application does not call xTaskCatchUpTicks(), no tick is lost
\* however long the scheduler is suspended.  (With it, one can be: see the run
\* that expects a violation.)
THEOREM TicksCorrect ==
  ASSUME ~CatchUp
  PROVE  Spec => []NoTickLost
  <1>1. Init => TicksInv
    <2>. SUFFICES ASSUME Init PROVE TicksInv
      OBVIOUS
    <2>1. Plus(0, 0) = 0
      BY TasksAssumption, ModUnique DEF Plus, TasksAssumption
    <2>. QED
      BY <2>1 DEF Init, TicksInv, NoTickLost
  <1>. QED
    BY <1>1, TypeInit, TypeStep, TicksStep, PTL DEF Spec, TicksInv
=============================================================================
