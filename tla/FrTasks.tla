------------------------------- MODULE FrTasks -------------------------------
(***************************************************************************)
(* The FreeRTOS task scheduler of freertos_test/FreeRTOS/tasks.c on the    *)
(* single-hart RISC-V port: task lists, tick, delays, suspension of tasks  *)
(* and of the scheduler, priorities, context switches.                     *)
(*                                                                         *)
(* Atomicity.  A critical section, an interrupt handler and a run of       *)
(* statements no interrupt handler can observe are one step; everything    *)
(* else is cut where an interrupt may fall.  portYIELD() writes the CLINT  *)
(* software interrupt bit (msip), and the switch itself is the handler of  *)
(* that interrupt, so it waits for the end of a critical section.  Once    *)
(* interrupts are enabled the hart takes the pending software interrupt    *)
(* before the task's next kernel step.                                     *)
(*                                                                         *)
(* Lists.  A task's xStateListItem and xEventListItem are each in at most  *)
(* one list (pxContainer), so a list is the set of tasks whose item names  *)
(* it.  Which of several equal entries comes first is left open here.      *)
(***************************************************************************)
EXTENDS Naturals

CONSTANTS
  Tasks,      \* task control blocks, the idle task's included
  Idle,       \* the idle task, never blocked, suspended or deleted
  Initial,    \* the tasks that exist when the scheduler starts
  Events,     \* event lists of queues and the like
  MaxPrio,    \* configMAX_PRIORITIES - 1
  MaxTick,    \* portMAX_DELAY, the largest tick count
  MaxPended,  \* bound: ticks pended while the scheduler is suspended
  MaxNest,    \* bound: nesting of vTaskSuspendAll() by the application
  CatchUp     \* whether the application calls xTaskCatchUpTicks()

ASSUME TasksAssumption ==
  /\ Idle \in Initial /\ Initial \subseteq Tasks
  /\ MaxPrio \in Nat \ {0} /\ MaxTick \in Nat \ {0}
  /\ MaxPended \in Nat \ {0} /\ MaxNest \in Nat
  /\ CatchUp \in BOOLEAN
  /\ Events \cap {"null", "pending"} = {}

VARIABLES
  pxCurrentTCB,          \* the task the hart executes
  stateList,             \* container of each task's xStateListItem
  eventList,             \* container of each task's xEventListItem
  uxPriority,            \* the priority of each task
  wakeTime,              \* xItemValue of each task's xStateListItem
  xTickCount,
  xNextTaskUnblockTime,
  xPendedTicks,
  uxSchedulerSuspended,
  xYieldPending,
  uxTopReadyPriority,
  msip,                  \* software interrupt (context switch) pending
  pc,                    \* how far each task is inside a kernel call
  target,                \* the TCB argument of that call
  pendedRead,            \* the register of xPendedTicks += n
  elapsed                \* history: ticks that occurred, modulo 2^width

listVars  == <<stateList, eventList, wakeTime, uxTopReadyPriority>>
tickVars  == <<xTickCount, xNextTaskUnblockTime>>
yieldVars == <<xYieldPending, msip>>
vars == <<pxCurrentTCB, stateList, eventList, uxPriority, wakeTime, xTickCount,
          xNextTaskUnblockTime, xPendedTicks, uxSchedulerSuspended,
          xYieldPending, uxTopReadyPriority, msip, pc, target, pendedRead,
          elapsed>>

Ticks   == 0 .. MaxTick
Prios   == 0 .. MaxPrio
StateLists == {"ready", "delayed", "overflow", "suspended", "termination", "none"}
EventLists == {"null", "pending"} \cup Events

\* Positions inside kernel calls.  "*_yield" resumes for a call that yields
\* when xTaskResumeAll() did not; "*_run" returns to the application.
Labels == {"run", "delay", "wait", "abort", "abort_move", "suspend_other",
           "suspend_self", "create_check", "catch_up", "catch_up_store",
           "yield", "resume_yield", "resume_run", "ticks_yield", "ticks_run"}

\* Where a kernel call holds the scheduler suspended.
SuspendedLabels == {"delay", "wait", "abort", "abort_move", "catch_up",
                    "catch_up_store", "resume_yield", "resume_run"}

Blocked   == {"delayed", "overflow", "suspended"}
Existing  == {t \in Tasks : stateList[t] \notin {"termination", "none"}}
Listed(l) == {t \in Tasks : stateList[t] = l}
Larger(a, b) == IF a > b THEN a ELSE b

\* TickType_t addition.  (PlusNoWrap is a mutant of it; a definition whose
\* comment calls it a mutant plays no other part in this specification.)
PlusNoWrap(a, b) == a + b
Plus(a, b) == (a + b) % (MaxTick + 1)

cur == pxCurrentTCB

\* xTaskResumeAll() keeps interrupts masked from its first step to its last.
Masked == pc[cur] \in {"ticks_yield", "ticks_run"}

\* The current task executes at label l and no interrupt goes first.
At(l)   == pc[cur] = l /\ (Masked \/ ~msip)
Goto(l) == pc' = [pc EXCEPT ![cur] = l]

\* uxListRemove() from the old list and prvAddTaskToReadyList() or
\* vListInsertEnd() into the new one, for the tasks of S.
Moved(S, l)   == [t \in Tasks |-> IF t \in S THEN l ELSE stateList[t]]

\* uxListRemove() of the event list items of the tasks of S.  Mutant: forgotten.
LeftLinked(S) == eventList
Unlinked(S) == [t \in Tasks |-> IF t \in S THEN "null" ELSE eventList[t]]

\* taskRECORD_READY_PRIORITY for every task of S.
IsTopAfter(n, S) ==
  /\ n >= uxTopReadyPriority /\ \A t \in S : n >= uxPriority[t]
  /\ n = uxTopReadyPriority \/ \E t \in S : n = uxPriority[t]

\* Mutant: the record is left out.
RecordNothing(S) == UNCHANGED uxTopReadyPriority
RecordReady(S) == \E n \in Prios : IsTopAfter(n, S) /\ uxTopReadyPriority' = n

\* n is the head value of a delayed list that holds the tasks of S.  Mutant:
\* the list is not kept sorted.
IsSomeWakeTime(n, S) ==
  \/ S = {} /\ n = MaxTick
  \/ \E t \in S : n = wakeTime[t]
IsUnblockTime(n, S) ==
  \/ S = {} /\ n = MaxTick
  \/ /\ \E t \in S : n = wakeTime[t]
     /\ \A t \in S : n <= wakeTime[t]

\* prvResetNextTaskUnblockTime() over the new delayed list.
ResetNextTaskUnblockTime ==
  \E n \in Ticks : /\ IsUnblockTime(n, {t \in Tasks : stateList'[t] = "delayed"})
                   /\ xNextTaskUnblockTime' = n

Init ==
  /\ stateList = [t \in Tasks |-> IF t \in Initial THEN "ready" ELSE "none"]
  /\ eventList = [t \in Tasks |-> "null"]
  /\ uxPriority \in [Tasks -> Prios] /\ uxPriority[Idle] = 0
  /\ pxCurrentTCB \in Initial
  /\ \A t \in Initial : uxPriority[t] <= uxPriority[pxCurrentTCB]
  /\ uxTopReadyPriority = uxPriority[pxCurrentTCB]
  /\ wakeTime = [t \in Tasks |-> 0]
  /\ xTickCount = 0 /\ xNextTaskUnblockTime = MaxTick /\ xPendedTicks = 0
  /\ uxSchedulerSuspended = 0 /\ xYieldPending = FALSE /\ msip = FALSE
  /\ pc = [t \in Tasks |-> "run"] /\ target = [t \in Tasks |-> Idle]
  /\ pendedRead = 0 /\ elapsed = 0
-----------------------------------------------------------------------------
\* The tick.

\* taskSWITCH_DELAYED_LISTS() when the count wraps, otherwise nothing.  Mutant:
\* the wrap goes unnoticed.
NeverSwitched(now) == stateList
SwitchedLists(now) ==
  [t \in Tasks |-> IF now = 0 /\ stateList[t] = "delayed"  THEN "overflow" ELSE
                   IF now = 0 /\ stateList[t] = "overflow" THEN "delayed"
                   ELSE stateList[t]]

\* xTaskIncrementTick() with the scheduler running: advance the count, wake
\* every task whose time has come, and request a switch if one is needed.
IncrementTick ==
  LET now   == Plus(xTickCount, 1)
      lists == SwitchedLists(now)
  IN \E next \in Ticks :
       /\ IF now = 0 THEN IsUnblockTime(next, {t \in Tasks : lists[t] = "delayed"})
                     ELSE next = xNextTaskUnblockTime
       /\ LET due == {t \in Tasks : /\ now >= next /\ lists[t] = "delayed"
                                    /\ wakeTime[t] <= now}
              run == [t \in Tasks |-> IF t \in due THEN "ready" ELSE lists[t]]
          IN /\ stateList' = run
             /\ eventList' = Unlinked(due)
             /\ RecordReady(due)
             /\ IF now >= next THEN ResetNextTaskUnblockTime
                               ELSE xNextTaskUnblockTime' = next
             /\ xTickCount' = now

\* What xTaskIncrementTick() returns: a woken task is no less urgent, or the
\* current priority is shared (time slicing), or a yield was held pending.
\* Mutant: woken tasks are not compared with the current one.
PrioritySharedAfter ==
  \E s, t \in Tasks : /\ s # t
                      /\ stateList'[s] = "ready" /\ uxPriority[s] = uxPriority[cur]
                      /\ stateList'[t] = "ready" /\ uxPriority[t] = uxPriority[cur]
SwitchOnlyToShare == xYieldPending \/ PrioritySharedAfter
SwitchRequired ==
  \/ xYieldPending \/ PrioritySharedAfter
  \/ \E t \in Tasks : /\ stateList[t] # "ready" /\ stateList'[t] = "ready"
                      /\ uxPriority[t] >= uxPriority[cur]

\* handle_trap_timer(): the tick interrupt.
TickISR ==
  /\ ~Masked
  /\ elapsed' = Plus(elapsed, 1)
  /\ \/ /\ uxSchedulerSuspended = 0
        /\ IncrementTick
        /\ msip' = (msip \/ SwitchRequired)
        /\ UNCHANGED xPendedTicks
     \/ /\ uxSchedulerSuspended > 0 /\ xPendedTicks < MaxPended
        /\ xPendedTicks' = xPendedTicks + 1
        /\ UNCHANGED <<stateList, eventList, uxTopReadyPriority, tickVars, msip>>
  /\ UNCHANGED <<pxCurrentTCB, uxPriority, wakeTime, uxSchedulerSuspended,
                 xYieldPending, pc, target, pendedRead>>

\* SW_Handler: clears msip and calls vTaskSwitchContext().  Mutant: the switch
\* is made although the scheduler is suspended.
SwitchAnyway ==
  /\ msip /\ ~Masked
  /\ msip' = FALSE /\ xYieldPending' = FALSE
  /\ pxCurrentTCB' \in Listed("ready")
  /\ uxTopReadyPriority' = uxPriority[pxCurrentTCB']
  /\ \A u \in Listed("ready") : uxPriority[u] <= uxTopReadyPriority'
  /\ UNCHANGED <<stateList, eventList, uxPriority, wakeTime, tickVars, xPendedTicks,
                 uxSchedulerSuspended, pc, target, pendedRead, elapsed>>

SwitchContext ==
  /\ msip /\ ~Masked
  /\ msip' = FALSE
  /\ IF uxSchedulerSuspended # 0
       THEN /\ xYieldPending' = TRUE
            /\ UNCHANGED <<pxCurrentTCB, uxTopReadyPriority>>
       ELSE /\ xYieldPending' = FALSE
            /\ LET below == {t \in Listed("ready") : uxPriority[t] <= uxTopReadyPriority}
               IN \E t \in below :
                    /\ \A u \in below : uxPriority[u] <= uxPriority[t]
                    /\ pxCurrentTCB' = t
                    /\ uxTopReadyPriority' = uxPriority[t]
  /\ UNCHANGED <<stateList, eventList, uxPriority, wakeTime, tickVars, xPendedTicks,
                 uxSchedulerSuspended, pc, target, pendedRead, elapsed>>
-----------------------------------------------------------------------------
\* vTaskSuspendAll() and xTaskResumeAll().

\* A kernel call that begins by suspending the scheduler, and goes on at l.
SuspendAllThen(l) ==
  /\ At("run")
  /\ uxSchedulerSuspended' = uxSchedulerSuspended + 1
  /\ Goto(l)
  /\ UNCHANGED <<pxCurrentTCB, listVars, uxPriority, tickVars, xPendedTicks,
                 yieldVars, pendedRead, elapsed>>

\* The application suspends the scheduler.
SuspendAll ==
  /\ uxSchedulerSuspended < MaxNest
  /\ SuspendAllThen("run")
  /\ UNCHANGED target

\* The application ends its suspension of the scheduler.
ResumeAll ==
  /\ At("run") /\ uxSchedulerSuspended > 0
  /\ Goto("resume_run")
  /\ UNCHANGED <<pxCurrentTCB, listVars, uxPriority, tickVars, xPendedTicks,
                 uxSchedulerSuspended, yieldVars, target, pendedRead, elapsed>>

\* xTaskResumeAll(), called at label from, interrupts masked: decrement the
\* nesting count and, at zero, move the tasks of xPendingReadyList to the
\* ready lists.  The caller goes on at label next if no yield happens.
ResumeAllBegin(from, ticks, next) ==
  /\ At(from)
  /\ uxSchedulerSuspended' = uxSchedulerSuspended - 1
  /\ LET pended == {t \in Tasks : eventList[t] = "pending"}
     IN IF uxSchedulerSuspended > 1
          THEN /\ Goto(next)
               /\ UNCHANGED <<stateList, eventList, uxTopReadyPriority,
                              xNextTaskUnblockTime, xYieldPending>>
          ELSE /\ Goto(ticks)
               /\ stateList' = Moved(pended, "ready")
               /\ eventList' = Unlinked(pended)
               /\ RecordReady(pended)
               /\ xYieldPending' = (xYieldPending \/ \E t \in pended :
                                      uxPriority[t] >= uxPriority[cur])
               /\ IF pended = {} THEN UNCHANGED xNextTaskUnblockTime
                                 ELSE ResetNextTaskUnblockTime
  /\ UNCHANGED <<pxCurrentTCB, uxPriority, wakeTime, xTickCount, xPendedTicks,
                 msip, target, pendedRead, elapsed>>

\* One turn of its loop over the pended ticks.  The loop counts on a copy of
\* xPendedTicks that nothing can observe before it is stored back as zero.
\* Mutant: one turn for however many ticks.
ResumeAllTickOnce(ticks) ==
  /\ At(ticks) /\ xPendedTicks > 0
  /\ IncrementTick
  /\ xYieldPending' = (xYieldPending \/ SwitchRequired)
  /\ xPendedTicks' = 0
  /\ UNCHANGED <<pxCurrentTCB, uxPriority, wakeTime, uxSchedulerSuspended, msip,
                 pc, target, pendedRead, elapsed>>

ResumeAllTick(ticks) ==
  /\ At(ticks) /\ xPendedTicks > 0
  /\ IncrementTick
  /\ xYieldPending' = (xYieldPending \/ SwitchRequired)
  /\ xPendedTicks' = xPendedTicks - 1
  /\ UNCHANGED <<pxCurrentTCB, uxPriority, wakeTime, uxSchedulerSuspended, msip,
                 pc, target, pendedRead, elapsed>>

\* Its end: yield if a yield is pending, and unmask interrupts.  Mutant: the
\* caller takes it that xTaskResumeAll() always yields.
ResumeAllEndNoYield(ticks, next) ==
  /\ At(ticks) /\ xPendedTicks = 0
  /\ msip' = (msip \/ xYieldPending)
  /\ Goto("run")
  /\ UNCHANGED <<pxCurrentTCB, listVars, uxPriority, tickVars, xPendedTicks,
                 uxSchedulerSuspended, xYieldPending, target, pendedRead, elapsed>>

ResumeAllEnd(ticks, next) ==
  /\ At(ticks) /\ xPendedTicks = 0
  /\ msip' = (msip \/ xYieldPending)
  /\ Goto(IF xYieldPending THEN "run" ELSE next)
  /\ UNCHANGED <<pxCurrentTCB, listVars, uxPriority, tickVars, xPendedTicks,
                 uxSchedulerSuspended, xYieldPending, target, pendedRead, elapsed>>

\* portYIELD_WITHIN_API() on the way out of a call; taskYIELD(), vTaskDelay(0).
Yield ==
  /\ At("yield") \/ At("run")
  /\ msip' = TRUE
  /\ Goto("run")
  /\ UNCHANGED <<pxCurrentTCB, listVars, uxPriority, tickVars, xPendedTicks,
                 uxSchedulerSuspended, xYieldPending, target, pendedRead, elapsed>>
-----------------------------------------------------------------------------
\* Blocking the current task.

\* The delayed list for a wake time: it may lie beyond the wrap of the count.
\* Mutant: it never does.
NeverBeyondWrap(wake) == "delayed"
DelayedListFor(wake) == IF wake < xTickCount THEN "overflow" ELSE "delayed"

\* prvAddCurrentTaskToDelayedList(), with the scheduler suspended.
AddCurrentTaskToDelayedList(ticks, canBlockIndefinitely) ==
  LET wake == Plus(xTickCount, ticks)
      list == IF ticks = MaxTick /\ canBlockIndefinitely THEN "suspended"
              ELSE DelayedListFor(wake)
  IN /\ stateList' = Moved({cur}, list)
     /\ wakeTime' = IF list = "suspended" THEN wakeTime
                    ELSE [wakeTime EXCEPT ![cur] = wake]
     /\ xNextTaskUnblockTime' = IF list = "delayed" /\ wake < xNextTaskUnblockTime
                                THEN wake ELSE xNextTaskUnblockTime

\* vTaskDelay(), and the blocking part of a queue operation, asserted never
\* to run with the scheduler suspended.
BlockingCall(l) ==
  /\ cur # Idle /\ uxSchedulerSuspended = 0
  /\ SuspendAllThen(l)
  /\ UNCHANGED target

Delay == BlockingCall("delay")
Wait  == BlockingCall("wait")

DelayAdd ==
  /\ At("delay")
  /\ \E ticks \in 1 .. MaxTick : AddCurrentTaskToDelayedList(ticks, FALSE)
  /\ Goto("resume_yield")
  /\ UNCHANGED <<pxCurrentTCB, eventList, uxPriority, uxTopReadyPriority, xTickCount,
                 xPendedTicks, uxSchedulerSuspended, yieldVars, target, pendedRead,
                 elapsed>>

\* vTaskPlaceOnEventList().
WaitAdd ==
  /\ At("wait")
  /\ \E e \in Events : eventList' = [eventList EXCEPT ![cur] = e]
  /\ \E ticks \in 1 .. MaxTick : AddCurrentTaskToDelayedList(ticks, TRUE)
  /\ Goto("resume_yield")
  /\ UNCHANGED <<pxCurrentTCB, uxPriority, uxTopReadyPriority, xTickCount,
                 xPendedTicks, uxSchedulerSuspended, yieldVars, target, pendedRead,
                 elapsed>>

\* xTaskRemoveFromEventList() of the waiting task t: made ready, or put on
\* xPendingReadyList while the scheduler is suspended.
RemoveFromEventList(t) ==
  /\ eventList[t] \in Events
  /\ IF uxSchedulerSuspended = 0
       THEN /\ eventList' = [eventList EXCEPT ![t] = "null"]
            /\ stateList' = Moved({t}, "ready")
            /\ RecordReady({t})
       ELSE /\ eventList' = [eventList EXCEPT ![t] = "pending"]
            /\ UNCHANGED <<stateList, uxTopReadyPriority>>
  /\ xYieldPending' = (xYieldPending \/ uxPriority[t] > uxPriority[cur])
  /\ UNCHANGED <<pxCurrentTCB, uxPriority, wakeTime, tickVars, xPendedTicks,
                 uxSchedulerSuspended, pc, target, pendedRead, elapsed>>

\* A task signals the event, in a critical section.
Signal(t) ==
  /\ At("run")
  /\ RemoveFromEventList(t)
  /\ msip' = (msip \/ uxPriority[t] > uxPriority[cur])

\* An interrupt handler signals it; whether the handler passes the result to
\* portYIELD_FROM_ISR() is up to the application.
SignalFromISR(t) ==
  /\ ~Masked
  /\ RemoveFromEventList(t)
  /\ \E yield \in {FALSE, uxPriority[t] > uxPriority[cur]} : msip' = (msip \/ yield)
-----------------------------------------------------------------------------
\* Suspending and resuming tasks.

\* vTaskSuspend(x), first critical section.
Suspend(x) ==
  /\ At("run") /\ x # Idle /\ x \in Existing
  /\ x = cur => uxSchedulerSuspended = 0
  /\ stateList' = Moved({x}, "suspended")
  /\ eventList' = Unlinked({x})
  /\ Goto(IF x = cur THEN "suspend_self" ELSE "suspend_other")
  /\ UNCHANGED <<pxCurrentTCB, uxPriority, wakeTime, uxTopReadyPriority, tickVars,
                 xPendedTicks, uxSchedulerSuspended, yieldVars, target, pendedRead,
                 elapsed>>

\* Its second critical section, and the yield if the task suspended itself.
SuspendReset(from, next) ==
  /\ At(from)
  /\ UNCHANGED stateList
  /\ ResetNextTaskUnblockTime
  /\ Goto(next)
  /\ UNCHANGED <<pxCurrentTCB, eventList, uxPriority, wakeTime, uxTopReadyPriority,
                 xTickCount, xPendedTicks, uxSchedulerSuspended, yieldVars, target,
                 pendedRead, elapsed>>

\* prvTaskIsTaskSuspended().
IsTaskSuspended(x) == stateList[x] = "suspended" /\ eventList[x] = "null"

\* vTaskResume(x).
Resume(x) ==
  /\ At("run") /\ x # cur /\ IsTaskSuspended(x)
  /\ stateList' = Moved({x}, "ready")
  /\ RecordReady({x})
  /\ msip' = (msip \/ uxPriority[x] >= uxPriority[cur])
  /\ UNCHANGED <<pxCurrentTCB, eventList, uxPriority, wakeTime, tickVars,
                 xPendedTicks, uxSchedulerSuspended, xYieldPending, pc, target,
                 pendedRead, elapsed>>

\* xTaskResumeFromISR(x).
ResumeFromISR(x) ==
  /\ ~Masked /\ IsTaskSuspended(x)
  /\ IF uxSchedulerSuspended = 0
       THEN /\ stateList' = Moved({x}, "ready")
            /\ RecordReady({x})
            /\ xYieldPending' = (xYieldPending \/ uxPriority[x] >= uxPriority[cur])
            /\ \E yield \in {FALSE, uxPriority[x] >= uxPriority[cur]} :
                 msip' = (msip \/ yield)
            /\ UNCHANGED eventList
       ELSE /\ eventList' = [eventList EXCEPT ![x] = "pending"]
            /\ UNCHANGED <<stateList, uxTopReadyPriority, yieldVars>>
  /\ UNCHANGED <<pxCurrentTCB, uxPriority, wakeTime, tickVars, xPendedTicks,
                 uxSchedulerSuspended, pc, target, pendedRead, elapsed>>
-----------------------------------------------------------------------------
\* Priorities, aborted delays, task creation and deletion.

\* vTaskPrioritySet(x, p) for a task without an inherited priority.
PrioritySet(x, p) ==
  /\ At("run") /\ x \in Existing \ {Idle} /\ uxPriority[x] # p
  /\ uxPriority' = [uxPriority EXCEPT ![x] = p]
  /\ IF stateList[x] = "ready" THEN uxTopReadyPriority' = Larger(uxTopReadyPriority, p)
                               ELSE UNCHANGED uxTopReadyPriority
  /\ LET yieldRequired == IF p > uxPriority[x] THEN x # cur /\ p >= uxPriority[cur]
                                               ELSE x = cur
     IN msip' = (msip \/ yieldRequired)
  /\ UNCHANGED <<pxCurrentTCB, stateList, eventList, wakeTime, tickVars,
                 xPendedTicks, uxSchedulerSuspended, xYieldPending, pc, target,
                 pendedRead, elapsed>>

\* xTaskAbortDelay(x) suspends the scheduler,
AbortDelay(x) ==
  /\ x # Idle /\ uxSchedulerSuspended <= MaxNest
  /\ SuspendAllThen("abort")
  /\ target' = [target EXCEPT ![cur] = x]

\* asks eTaskGetState() whether x is blocked,
AbortCheck ==
  /\ At("abort")
  /\ LET x == target[cur]
         isBlocked == /\ x # cur
                      /\ \/ stateList[x] \in {"delayed", "overflow"}
                         \/ stateList[x] = "suspended" /\ eventList[x] # "null"
     IN Goto(IF isBlocked THEN "abort_move" ELSE "resume_run")
  /\ UNCHANGED <<pxCurrentTCB, listVars, uxPriority, tickVars, xPendedTicks,
                 uxSchedulerSuspended, yieldVars, target, pendedRead, elapsed>>

\* and then moves it to its ready list.
AbortMove ==
  /\ At("abort_move")
  /\ LET x == target[cur]
     IN /\ stateList' = Moved({x}, "ready")
        /\ eventList' = Unlinked({x})
        /\ RecordReady({x})
        /\ xYieldPending' = (xYieldPending \/ uxPriority[x] > uxPriority[cur])
  /\ Goto("resume_run")
  /\ UNCHANGED <<pxCurrentTCB, uxPriority, wakeTime, tickVars, xPendedTicks,
                 uxSchedulerSuspended, msip, target, pendedRead, elapsed>>

\* vTaskDelete(x).  The idle task frees the memory of a task that deleted
\* itself; any other is freed at once.
Delete(x) ==
  /\ At("run") /\ x # Idle /\ x \in Existing
  /\ x = cur => uxSchedulerSuspended = 0
  /\ stateList' = Moved({x}, IF x = cur THEN "termination" ELSE "none")
  /\ eventList' = Unlinked({x})
  /\ IF x = cur THEN Goto("yield") /\ UNCHANGED xNextTaskUnblockTime
                ELSE UNCHANGED pc /\ ResetNextTaskUnblockTime
  /\ UNCHANGED <<pxCurrentTCB, uxPriority, wakeTime, uxTopReadyPriority, xTickCount,
                 xPendedTicks, uxSchedulerSuspended, yieldVars, target, pendedRead,
                 elapsed>>

\* prvCheckTasksWaitingTermination(), in the idle task.
IdleCleanUp ==
  /\ cur = Idle /\ At("run")
  /\ \E x \in Listed("termination") : stateList' = Moved({x}, "none")
  /\ UNCHANGED <<pxCurrentTCB, eventList, uxPriority, wakeTime, uxTopReadyPriority,
                 tickVars, xPendedTicks, uxSchedulerSuspended, yieldVars, pc, target,
                 pendedRead, elapsed>>

\* xTaskCreate() after the scheduler has started: prvAddNewTaskToReadyList().
Create(x, p) ==
  /\ At("run") /\ stateList[x] = "none"
  /\ stateList' = Moved({x}, "ready")
  /\ uxPriority' = [uxPriority EXCEPT ![x] = p]
  /\ uxTopReadyPriority' = Larger(uxTopReadyPriority, p)
  /\ pc' = [pc EXCEPT ![cur] = "create_check", ![x] = "run"]
  /\ target' = [target EXCEPT ![cur] = x]
  /\ UNCHANGED <<pxCurrentTCB, eventList, wakeTime, tickVars, xPendedTicks,
                 uxSchedulerSuspended, yieldVars, pendedRead, elapsed>>

\* Its comparison with the current task, outside the critical section: the new
\* task may have run, deleted itself and been freed, and then any value is read.
CreateCheck ==
  /\ At("create_check")
  /\ \E p \in Prios : /\ stateList[target[cur]] # "none" => p = uxPriority[target[cur]]
                      /\ msip' = (msip \/ uxPriority[cur] < p)
  /\ Goto("run")
  /\ UNCHANGED <<pxCurrentTCB, listVars, uxPriority, tickVars, xPendedTicks,
                 uxSchedulerSuspended, xYieldPending, target, pendedRead, elapsed>>

\* xTaskCatchUpTicks(n): the load and the store of xPendedTicks += n, with
\* interrupts enabled.
CatchUpTicks ==
  /\ CatchUp /\ uxSchedulerSuspended = 0
  /\ SuspendAllThen("catch_up")
  /\ UNCHANGED target

CatchUpLoad ==
  /\ At("catch_up")
  /\ pendedRead' = xPendedTicks
  /\ Goto("catch_up_store")
  /\ UNCHANGED <<pxCurrentTCB, listVars, uxPriority, tickVars, xPendedTicks,
                 uxSchedulerSuspended, yieldVars, target, elapsed>>

CatchUpStore ==
  /\ At("catch_up_store")
  /\ \E n \in 1 .. MaxPended : /\ xPendedTicks' = pendedRead + n
                               /\ elapsed' = Plus(elapsed, n)
  /\ Goto("resume_run")
  /\ UNCHANGED <<pxCurrentTCB, listVars, uxPriority, tickVars, uxSchedulerSuspended,
                 yieldVars, target, pendedRead>>
-----------------------------------------------------------------------------
\* Calls of the application, steps inside a call, and interrupts.
Application ==
  \/ SuspendAll \/ ResumeAll \/ Delay \/ Wait \/ IdleCleanUp \/ CatchUpTicks
  \/ \E x \in Tasks : \/ Signal(x) \/ Suspend(x) \/ Resume(x)
                       \/ AbortDelay(x) \/ Delete(x)
                       \/ \E p \in Prios : PrioritySet(x, p) \/ Create(x, p)

KernelCall ==
  \/ Yield \/ DelayAdd \/ WaitAdd \/ AbortCheck \/ AbortMove \/ CreateCheck
  \/ CatchUpLoad \/ CatchUpStore
  \/ SuspendReset("suspend_self", "yield") \/ SuspendReset("suspend_other", "run")
  \/ ResumeAllBegin("resume_yield", "ticks_yield", "yield")
  \/ ResumeAllBegin("resume_run", "ticks_run", "run")
  \/ ResumeAllTick("ticks_yield") \/ ResumeAllTick("ticks_run")
  \/ ResumeAllEnd("ticks_yield", "yield") \/ ResumeAllEnd("ticks_run", "run")

Interrupt ==
  \/ TickISR \/ SwitchContext
  \/ \E x \in Tasks : SignalFromISR(x) \/ ResumeFromISR(x)

Next == Application \/ KernelCall \/ Interrupt

Spec == Init /\ [][Next]_vars
-----------------------------------------------------------------------------
TypeOK ==
  /\ pxCurrentTCB \in Tasks
  /\ stateList \in [Tasks -> StateLists]
  /\ eventList \in [Tasks -> EventLists]
  /\ uxPriority \in [Tasks -> Prios]
  /\ wakeTime \in [Tasks -> Ticks]
  /\ xTickCount \in Ticks /\ xNextTaskUnblockTime \in Ticks
  /\ xPendedTicks \in Nat /\ uxSchedulerSuspended \in Nat
  /\ xYieldPending \in BOOLEAN /\ msip \in BOOLEAN
  /\ uxTopReadyPriority \in Prios
  /\ pc \in [Tasks -> Labels] /\ target \in [Tasks -> Tasks]
  /\ pendedRead \in Nat /\ elapsed \in Ticks

\* A task waiting for a tick is always in the future of the tick count it will
\* be compared with: those of the delayed list later in this round of the
\* count, and not before the tick at which the list is next looked at, and
\* those of the overflow list only after the count has wrapped.  So at a wrap
\* the delayed list is empty, as taskSWITCH_DELAYED_LISTS() asserts, and no
\* wake-up is missed by the xNextTaskUnblockTime shortcut.
DelayListsOK ==
  \A t \in Tasks :
    /\ stateList[t] = "delayed" => /\ xTickCount < wakeTime[t]
                                   /\ xNextTaskUnblockTime <= wakeTime[t]
    /\ stateList[t] = "overflow" => wakeTime[t] < xTickCount

\* The two list items of a task agree: one that waits for an event or is held
\* in xPendingReadyList is not on a ready list, and xPendingReadyList is empty
\* whenever the scheduler is not suspended, so that no made-ready task is
\* forgotten there and no signal readies a task twice.
ListItemsAgree ==
  \A t \in Tasks :
    /\ eventList[t] # "null" => stateList[t] \in Blocked
    /\ eventList[t] = "pending" => uxSchedulerSuspended > 0

\* A suspended scheduler is mutual exclusion among tasks: what a kernel call does
\* between vTaskSuspendAll() and xTaskResumeAll() it does while the scheduler is
\* suspended, and no task is ever switched out there.
SuspensionExcludes ==
  \A t \in Tasks : pc[t] \in SuspendedLabels => t = cur /\ uxSchedulerSuspended > 0

\* uxTopReadyPriority, where vTaskSwitchContext() starts its search downward,
\* is never below the priority of a ready task: no ready task is invisible.
TopPriorityRecorded ==
  \A t \in Listed("ready") : uxPriority[t] <= uxTopReadyPriority

\* What a task switch relies on, both.
SchedulerRecords == SuspensionExcludes /\ TopPriorityRecorded

\* The task the hart executes is runnable: one that blocked, suspended or
\* deleted itself does not get back to application code before a switch.
CurrentIsReady ==
  ~msip /\ pc[cur] = "run" => stateList[cur] = "ready"

\* Fixed-priority preemption: outside kernel calls, unless the scheduler is
\* suspended or a switch is on its way, the current task is a ready task of the
\* highest priority.  (xYieldPending marks an interrupt handler that woke a
\* more urgent task and left the switch to the next tick.)
HighestPriorityRuns ==
  uxSchedulerSuspended = 0 /\ ~msip /\ ~xYieldPending /\ pc[cur] = "run" =>
    \A t \in Listed("ready") : uxPriority[t] <= uxPriority[cur]

\* No tick is lost: the tick count and the ticks held pending for
\* xTaskResumeAll() together are the ticks that have occurred.
NoTickLost ==
  Plus(xTickCount, xPendedTicks) = elapsed

\* A tick, delivered at once or replayed by xTaskResumeAll(), takes a task out
\* of the delayed lists exactly when the count reaches the task's wake time,
\* never earlier, also for a wake time beyond the wrap of the count.
NeverEarly ==
  [][\A t \in Tasks :
       /\ xTickCount' # xTickCount
       /\ stateList[t] \in {"delayed", "overflow"} /\ stateList'[t] = "ready"
       => wakeTime[t] = xTickCount']_vars

\* The tick interrupt and the software interrupt stay latched until they are
\* taken, and a task inside a kernel call goes on with it; applications need
\* not make progress.
Fairness ==
  /\ SF_vars(TickISR) /\ WF_vars(SwitchContext)
  /\ SF_vars(KernelCall /\ pc[cur] # "run")

FairSpec == Spec /\ Fairness

\* A task that blocked with a timeout does leave the delayed lists.
DelaysEnd ==
  \A t \in Tasks : stateList[t] \in {"delayed", "overflow"}
                    ~> stateList[t] \notin {"delayed", "overflow"}
=============================================================================
