------------------------------ MODULE MCServices -----------------------------
(***************************************************************************)
(* Small instances of what FreeRTOS builds on its scheduler and queues,    *)
(* one at a time: task notifications, stream and message buffers, event    *)
(* groups, timers, time-outs, co-routines, the heap, lists; and of the     *)
(* heaps, the timers and the external interrupts beside RT-Thread.  A      *)
(* behaviour chooses one and stays with it; the variables of the others    *)
(* are 0.                                                                  *)
(***************************************************************************)
EXTENDS Integers, FiniteSets, Sequences, TLC

CONSTANTS writer, reader, one, two, three, none      \* tasks, timers, co-routines

VARIABLES
  part,
  protocol, ucNotifyState, ulNotifiedValue, blocked, untold,
  use, pucBuffer, xHead, xTail, xTaskWaitingToSend, xTaskWaitingToReceive, told, received,
  style, uxEventBits, xTasksWaitingForBits, woken, deleted, unseen, entered, left,
  timerUse, timer, xLastTime, xTimerQueue, daemon, xTicksToWait, sinceSample,
  xNumOfOverflows, pxTimeOut, pxTicksToWait, ucDelayAborted, pxPreviousWakeTime,
  xTicksToDelay, remaining, nextWake,
  freeList, allocated, freeing, xFreeBytesRemaining, xMinimumEverFreeBytesRemaining,
  genericList, eventList, wakeTime, uxTopCoRoutineReadyPriority, xCoRoutineTickCount,
  xLastTickCount, xPassedTicks, scheduler, pxCurrentCoRoutine, uxState, uxMessagesWaiting,
  kind, pxNext, pxPrevious, pxIndex, xItemValue, pxContainer, uxNumberOfItems, earlier,
  since, turns,
  timerList, timeoutTick, initTick, activated, periodic, checking, call, wanted, fresh,
  unflagged,
  pending, claimed, threshold, mie, enabled, mepc, saved, running, phase, nest,
  next, prev, used, lfree, usedMem, maxMem, shrunk, freeItems, available, maxUsed,
  pc, op, xTickCount   \* of several

notifyVars  == <<protocol, ucNotifyState, ulNotifiedValue, blocked, untold>>
streamVars  == <<use, pucBuffer, xHead, xTail, xTaskWaitingToSend, xTaskWaitingToReceive,
                 told, received>>
eventVars   == <<style, uxEventBits, xTasksWaitingForBits, woken, deleted, unseen,
                 entered, left>>
timersVars  == <<timerUse, timer, xLastTime, xTimerQueue, daemon, xTicksToWait, sinceSample>>
timeOutVars == <<xNumOfOverflows, pxTimeOut, pxTicksToWait, ucDelayAborted,
                 pxPreviousWakeTime, xTicksToDelay, remaining, nextWake>>
heapVars    == <<freeList, allocated, freeing, xFreeBytesRemaining,
                 xMinimumEverFreeBytesRemaining>>
listVars    == <<genericList, eventList, wakeTime, uxTopCoRoutineReadyPriority>>
coTickVars  == <<xCoRoutineTickCount, xLastTickCount, xPassedTicks>>
coVars      == <<listVars, coTickVars, scheduler, pxCurrentCoRoutine, uxState,
                 uxMessagesWaiting>>
linkVars == <<kind, pxNext, pxPrevious, pxIndex, xItemValue, pxContainer,
              uxNumberOfItems, earlier, since, turns>>
rttTimerVars == <<timerList, timeoutTick, initTick, activated, periodic, checking, call,
                  wanted, fresh, unflagged>>
plicVars    == <<pending, claimed, threshold, mie, enabled, mepc, saved, running, phase,
                 nest>>
memVars     == <<lfree, usedMem, maxMem, shrunk>>
memHeapVars == <<freeItems, available, maxUsed>>
memoryVars  == <<next, prev, used, memVars, memHeapVars>>
callVars == <<pc, op, xTickCount>>
vars == <<part, notifyVars, streamVars, eventVars, timersVars, timeOutVars, heapVars,
          coVars, linkVars, rttTimerVars, plicVars, memoryVars, callVars>>

Notify == INSTANCE FrNotify WITH
  Tasks <- {writer}, Bits <- {0, 1}, Letters <- {"x", "y"}, CountMod <- 4

\* Buffers for three bytes less one, or two messages of one; either side a handler, or
\* none.
Stream == INSTANCE FrStreamBuffer WITH
  Tasks <- {writer, reader}, Bits <- {}, Letters <- {}, CountMod <- 4,
  Writer <- writer, Reader <- reader, NoTask <- none, Header <- 1,
  Sent <- {<<1>>, <<1, 2>>}, Rooms <- {1, 2},
  Uses <- [message : {FALSE}, length : {3}, trigger : {1, 2}, isr : {writer, reader, none}]
          \cup [message : {TRUE}, length : {5}, trigger : {1}, isr : {writer, reader, none}]

\* Two tasks that wait and set; three that meet; two that meet while others set and
\* clear.
Event == INSTANCE FrEventGroup WITH
  Tasks <- {writer, one, two}, Bits <- {1, 2, 3},
  OwnBit <- (writer :> 1) @@ (one :> 2) @@ (two :> 3),
  Styles <-
    {[users |-> {writer, one}, bits |-> {1, 2},
      calls |-> {"wait", "set", "clear", "delete"}, waits |-> {"none", "finite"},
      rounds |-> 0],
     [users |-> {writer, one, two}, bits |-> {}, calls |-> {"sync"},
      waits |-> {"forever"}, rounds |-> 3],
     [users |-> {writer, one}, bits |-> {2, 3}, calls |-> {"sync", "set", "clear"},
      waits |-> {"none", "finite"}, rounds |-> 2]}

\* A timer with all calls, two that are started and stopped only.
Timer == INSTANCE FrTimers WITH
  TickMod <- 6, Periods <- {1, 3}, MaxLag <- 2,
  TimerUses <-
    {[timers |-> {one}, messages |-> 2,
      calls |-> {"start", "stop", "period", "reload", "call"}],
     [timers |-> {one, two}, messages |-> 1, calls |-> {"start"}]}

TimeOut == INSTANCE FrTimeOut WITH
  TickMod <- 7, OverflowMod <- 3, BlockTimes <- {1, 3, 5, 6}, Increments <- {1, 3, 4},
  MaxLate <- 2

Heap == INSTANCE FrHeap4 WITH HeapEnd <- 14, HeapStructSize <- 1, Wanted <- {1, 2, 4}

CoRoutine == INSTANCE FrCoRoutine WITH
  CoRoutines <- {one, two, three}, TickMod <- 3,
  Priority <- (one :> 1) @@ (two :> 1) @@ (three :> 0),
  Delays <- {0, 2}, QueueLength <- 1, MaxBehind <- 2

List == INSTANCE FrList WITH Items <- {one, two, three}, xListEnd <- none, MaxDelay <- 2

\* The thread calls on the first timer, the functions on both.
RttTimer == INSTANCE RttTimers WITH
  Timers <- {one, two}, NoTimer <- none, TickMod <- 11, Times <- {1, 2}, MaxLate <- 1,
  TimerUses <- {{one}}, tick <- xTickCount

Plic == INSTANCE RttPlic

Mem == INSTANCE RttMem WITH MemSize <- 11, StructMem <- 1, MinSize <- 1, Wanted <- {1, 2, 4}
MemHeap == INSTANCE RttMemHeap WITH
  PoolSize <- 13, Header <- 1, MiniAlloc <- 1, Wanted <- {1, 2, 4}
-----------------------------------------------------------------------------
NoNotify == /\ protocol = 0 /\ ucNotifyState = 0 /\ ulNotifiedValue = 0 /\ blocked = 0
            /\ untold = 0
NoStream == /\ use = 0 /\ pucBuffer = 0 /\ xHead = 0 /\ xTail = 0 /\ told = 0
            /\ xTaskWaitingToSend = 0 /\ xTaskWaitingToReceive = 0 /\ received = 0
NoEvent  == /\ style = 0 /\ uxEventBits = 0 /\ xTasksWaitingForBits = 0 /\ woken = 0
            /\ deleted = 0 /\ unseen = 0 /\ entered = 0 /\ left = 0
NoTimer  == /\ timerUse = 0 /\ timer = 0 /\ xLastTime = 0 /\ xTimerQueue = 0
            /\ daemon = 0 /\ xTicksToWait = 0 /\ sinceSample = 0
NoTimeOut == /\ xNumOfOverflows = 0 /\ pxTimeOut = 0 /\ pxTicksToWait = 0 /\ nextWake = 0
             /\ ucDelayAborted = 0 /\ pxPreviousWakeTime = 0 /\ xTicksToDelay = 0
             /\ remaining = 0
NoHeap == /\ freeList = 0 /\ allocated = 0 /\ freeing = 0 /\ xFreeBytesRemaining = 0
          /\ xMinimumEverFreeBytesRemaining = 0
NoCoRoutine == /\ genericList = 0 /\ eventList = 0 /\ wakeTime = 0 /\ xPassedTicks = 0
               /\ uxTopCoRoutineReadyPriority = 0 /\ xCoRoutineTickCount = 0
               /\ xLastTickCount = 0 /\ scheduler = 0 /\ pxCurrentCoRoutine = 0
               /\ uxState = 0 /\ uxMessagesWaiting = 0
NoList == /\ kind = 0 /\ pxNext = 0 /\ pxPrevious = 0 /\ pxIndex = 0 /\ xItemValue = 0
          /\ pxContainer = 0 /\ uxNumberOfItems = 0 /\ earlier = 0 /\ since = 0
          /\ turns = 0
NoRttTimer == /\ timerList = 0 /\ timeoutTick = 0 /\ initTick = 0 /\ activated = 0
              /\ periodic = 0 /\ checking = 0 /\ call = 0 /\ wanted = 0 /\ fresh = 0
              /\ unflagged = 0
NoPlic == /\ pending = 0 /\ claimed = 0 /\ threshold = 0 /\ mie = 0 /\ enabled = 0
          /\ mepc = 0 /\ saved = 0 /\ running = 0 /\ phase = 0 /\ nest = 0
NoMem     == lfree = 0 /\ usedMem = 0 /\ maxMem = 0 /\ shrunk = 0
NoMemHeap == freeItems = 0 /\ available = 0 /\ maxUsed = 0
NoMemory  == next = 0 /\ prev = 0 /\ used = 0 /\ NoMem /\ NoMemHeap
NoCall == pc = 0 /\ op = 0
NoClock == xTickCount = 0

Init ==
  \/ /\ part = "notify" /\ Notify!NotifyInit
     /\ NoStream /\ NoEvent /\ NoTimer /\ NoTimeOut /\ NoHeap /\ NoCoRoutine /\ NoList
     /\ NoClock /\ NoMemory /\ NoRttTimer /\ NoPlic
  \/ /\ part = "stream" /\ Stream!StreamInit
     /\ NoEvent /\ NoTimer /\ NoTimeOut /\ NoHeap /\ NoCoRoutine /\ NoList
     /\ NoClock /\ NoMemory /\ NoRttTimer /\ NoPlic
  \/ /\ part = "event" /\ Event!EventInit
     /\ NoNotify /\ NoStream /\ NoTimer /\ NoTimeOut /\ NoHeap /\ NoCoRoutine /\ NoList
     /\ NoClock /\ NoMemory /\ NoRttTimer /\ NoPlic
  \/ /\ part = "timer" /\ Timer!TimersInit
     /\ NoNotify /\ NoStream /\ NoEvent /\ NoTimeOut /\ NoHeap /\ NoCoRoutine /\ NoList
     /\ NoCall /\ NoMemory /\ NoRttTimer /\ NoPlic
  \/ /\ part = "timeout" /\ TimeOut!TimeOutInit
     /\ NoNotify /\ NoStream /\ NoEvent /\ NoTimer /\ NoHeap /\ NoCoRoutine /\ NoList
     /\ op = 0 /\ NoMemory /\ NoRttTimer /\ NoPlic
  \/ /\ part = "heap" /\ Heap!HeapInit
     /\ NoNotify /\ NoStream /\ NoEvent /\ NoTimer /\ NoTimeOut /\ NoCoRoutine /\ NoList
     /\ NoCall /\ NoClock /\ NoMemory /\ NoRttTimer /\ NoPlic
  \/ /\ part = "coroutine" /\ CoRoutine!CoRoutineInit
     /\ NoNotify /\ NoStream /\ NoEvent /\ NoTimer /\ NoTimeOut /\ NoHeap /\ NoList
     /\ NoCall /\ NoMemory /\ NoRttTimer /\ NoPlic
  \/ /\ part = "list" /\ List!ListInit
     /\ NoNotify /\ NoStream /\ NoEvent /\ NoTimer /\ NoTimeOut /\ NoHeap /\ NoCoRoutine
     /\ NoCall /\ NoClock /\ NoMemory /\ NoRttTimer /\ NoPlic
  \/ /\ part = "mem" /\ Mem!MemInit /\ NoMemHeap
     /\ NoNotify /\ NoStream /\ NoEvent /\ NoTimer /\ NoTimeOut /\ NoHeap /\ NoCoRoutine
     /\ NoList /\ NoCall /\ NoClock /\ NoRttTimer /\ NoPlic
  \/ /\ part = "memheap" /\ MemHeap!MemHeapInit /\ NoMem
     /\ NoNotify /\ NoStream /\ NoEvent /\ NoTimer /\ NoTimeOut /\ NoHeap /\ NoCoRoutine
     /\ NoList /\ NoCall /\ NoClock /\ NoRttTimer /\ NoPlic
  \/ /\ part = "rtt timer" /\ RttTimer!RttTimersInit
     /\ NoNotify /\ NoStream /\ NoEvent /\ NoTimeOut /\ NoHeap /\ NoCoRoutine /\ NoList
     /\ timer = 0 /\ xLastTime = 0 /\ xTimerQueue = 0 /\ daemon = 0 /\ xTicksToWait = 0
     /\ sinceSample = 0 /\ NoCall /\ NoMemory /\ NoPlic
  \/ /\ part = "plic" /\ Plic!PlicInit
     /\ NoNotify /\ NoStream /\ NoEvent /\ NoTimer /\ NoTimeOut /\ NoHeap /\ NoCoRoutine
     /\ NoList /\ NoCall /\ NoClock /\ NoMemory /\ NoRttTimer

NotifyStep ==
  /\ part = "notify" /\ Notify!NotifyNext
  /\ UNCHANGED <<part, streamVars, eventVars, timersVars, timeOutVars, heapVars,
                 coVars, linkVars, xTickCount, memoryVars, rttTimerVars, plicVars>>
StreamStep ==
  /\ part = "stream" /\ Stream!StreamNext
  /\ UNCHANGED <<part, eventVars, timersVars, timeOutVars, heapVars, coVars, linkVars,
                 xTickCount, memoryVars, rttTimerVars, plicVars>>
EventStep ==
  /\ part = "event" /\ Event!EventNext
  /\ UNCHANGED <<part, notifyVars, streamVars, timersVars, timeOutVars, heapVars,
                 coVars, linkVars, xTickCount, memoryVars, rttTimerVars, plicVars>>
TimerStep ==
  /\ part = "timer" /\ Timer!TimersNext
  /\ UNCHANGED <<part, notifyVars, streamVars, eventVars, timeOutVars, heapVars,
                 coVars, linkVars, pc, op, memoryVars, rttTimerVars, plicVars>>
TimeOutStep ==
  /\ part = "timeout" /\ TimeOut!TimeOutNext
  /\ UNCHANGED <<part, notifyVars, streamVars, eventVars, timersVars, heapVars, coVars,
                 linkVars, op, memoryVars, rttTimerVars, plicVars>>
HeapStep ==
  /\ part = "heap" /\ Heap!HeapNext
  /\ UNCHANGED <<part, notifyVars, streamVars, eventVars, timersVars, timeOutVars,
                 coVars, linkVars, callVars, memoryVars, rttTimerVars, plicVars>>
CoRoutineStep ==
  /\ part = "coroutine" /\ CoRoutine!CoRoutineNext
  /\ UNCHANGED <<part, notifyVars, streamVars, eventVars, timersVars, timeOutVars,
                 heapVars, linkVars, pc, op, memoryVars, rttTimerVars, plicVars>>
ListStep ==
  /\ part = "list" /\ List!ListNext
  /\ UNCHANGED <<part, notifyVars, streamVars, eventVars, timersVars, timeOutVars,
                 heapVars, coVars, callVars, memoryVars, rttTimerVars, plicVars>>
MemStep ==
  /\ part = "mem" /\ Mem!MemNext
  /\ UNCHANGED <<part, notifyVars, streamVars, eventVars, timersVars, timeOutVars,
                 heapVars, coVars, linkVars, memHeapVars, callVars,
                 rttTimerVars, plicVars>>
MemHeapStep ==
  /\ part = "memheap" /\ MemHeap!MemHeapNext
  /\ UNCHANGED <<part, notifyVars, streamVars, eventVars, timersVars, timeOutVars,
                 heapVars, coVars, linkVars, memVars, callVars, rttTimerVars, plicVars>>
RttTimerStep ==
  /\ part = "rtt timer" /\ RttTimer!RttTimersNext
  /\ UNCHANGED <<part, notifyVars, streamVars, eventVars, timer, xLastTime, xTimerQueue,
                 daemon, xTicksToWait, sinceSample, timeOutVars, heapVars, coVars,
                 linkVars, pc, op, memoryVars, plicVars>>
PlicStep ==
  /\ part = "plic" /\ Plic!PlicNext
  /\ UNCHANGED <<part, notifyVars, streamVars, eventVars, timersVars, timeOutVars,
                 heapVars, coVars, linkVars, memoryVars, rttTimerVars, callVars>>

Next == \/ NotifyStep \/ StreamStep \/ EventStep \/ TimerStep \/ TimeOutStep \/ HeapStep
        \/ CoRoutineStep \/ ListStep \/ MemStep \/ MemHeapStep \/ RttTimerStep
        \/ PlicStep

Spec == Init /\ [][Next]_vars

\* States go on alike that differ, of a buffer, in bytes that are not in it, in what the
\* last receive delivered, or in what a side that is in a call is done with or about to
\* overwrite; of FreeRTOS's timers, in how long the daemon last slept; of co-routines, in
\* when a ready one was to wake and which ran last; of RT-Thread's timers, in when one
\* that is not in the list was to expire; of interrupts, in what a handler that does not
\* run once saved.
StillWaits(t) == pc[t] \in {"space", "wait", "asleep", "awake", "check"}
ToBeRead(t) ==
  <<IF pc[t] \in {"idle", "written", "sent", "taken"} THEN 0 ELSE op[t].data,
    IF StillWaits(t) THEN <<op[t].wait, op[t].expired>> ELSE <<>>,
    IF pc[t] \in {"write", "read"} \/ (t = writer /\ StillWaits(t) /\ pc[t] # "space")
      THEN told[t] ELSE 0>>
View ==
  IF part = "stream"
    THEN <<use, xHead, Stream!Contained, xTaskWaitingToSend, xTaskWaitingToReceive,
           ucNotifyState, blocked, pc,
           ToBeRead(writer), ToBeRead(reader)>>
  ELSE IF part = "timer"
    THEN <<timerUse, timer, xTickCount, xLastTime, sinceSample, xTimerQueue, daemon,
           IF daemon = "asleep" THEN xTicksToWait ELSE 0>>
  ELSE IF part = "coroutine"
    THEN <<genericList, eventList, uxTopCoRoutineReadyPriority, coTickVars, xTickCount,
           scheduler, uxState, uxMessagesWaiting,
           [t \in {one, two, three} |->
              IF genericList[t] = "ready" THEN 0 ELSE wakeTime[t]],
           IF scheduler = "run" THEN pxCurrentCoRoutine ELSE none>>
  ELSE IF part = "rtt timer"
    THEN <<timerUse, timerList, initTick, activated, periodic, checking, call, wanted,
           {t \in fresh : RttTimer!Listed(t)}, unflagged, xTickCount,
           [t \in {one, two} |->
              IF RttTimer!Listed(t) \/ (call.at = "insert" /\ call.timer = t)
              THEN timeoutTick[t] ELSE 0]>>
  ELSE IF part = "plic"
    THEN <<pending, claimed, threshold, mie, enabled, running, phase, nest,
           IF phase = "entered" THEN mepc ELSE 0,
           [s \in (claimed \cup {running}) \ {0} |-> saved[s]]>>
  ELSE vars
-----------------------------------------------------------------------------
\* The values of all variables (FrNotify and the others).
TypesOK ==
  /\ part = "notify" => Notify!NotifyTypeOK
  /\ part = "stream" => Stream!StreamTypeOK
  /\ part = "event" => Event!EventTypeOK
  /\ part = "timer" => Timer!TimersTypeOK
  /\ part = "timeout" => TimeOut!TimeOutTypeOK
  /\ part = "heap" => Heap!HeapTypeOK
  /\ part = "coroutine" => CoRoutine!CoRoutineTypeOK
  /\ part = "list" => List!ListTypeOK
  /\ part = "mem" => Mem!MemTypeOK
  /\ part = "memheap" => MemHeap!MemHeapTypeOK
  /\ part = "rtt timer" => RttTimer!RttTimersTypeOK
  /\ part = "plic" => Plic!PlicTypeOK

\* No notification is lost or slept through (ulTaskNotifyTake, xTaskNotifyWait).
NotificationsArrive == part = "notify" => Notify!NotificationsArrive

\* Neither side of a buffer sleeps through what it waits for (xStreamBufferSend,
\* xStreamBufferReceive).
SleepersWoken == part = "stream" => Stream!SleepersWoken

\* A buffer delivers what was sent, in order (prvWriteMessageToBuffer,
\* prvReadMessageFromBuffer).
BytesInOrder == [][part = "stream" => Stream!BytesStep]_vars

\* No bit is lost, no waiting task overlooked, no rendezvous left early
\* (xEventGroupSetBits, xEventGroupWaitBits, xEventGroupSync).
EventsArrive == part = "event" => Event!EventsArrive

\* Timers are called when due, once for each period, and block times and periods are kept
\* (prvProcessTimerOrBlockTask, prvProcessReceivedCommands; xTaskCheckForTimeOut,
\* xTaskDelayUntil; rt_timer_check, rt_timer_start, rt_timer_stop).
TimersRight ==
  /\ part = "timer" => Timer!TimersRight
  /\ part = "timeout" => TimeOut!TimesRight
  /\ part = "rtt timer" => RttTimer!RttTimersRight

\* Nested handlers go back to what they interrupted, as it was, and no thread switch
\* comes between (plic_irq_vec_handler_1 to _9).
InterruptsNest == part = "plic" => Plic!InterruptsNest

\* The heaps stay whole (pvPortMalloc, vPortFree; rt_malloc, rt_realloc, rt_free;
\* rt_memheap_alloc, rt_memheap_realloc, rt_memheap_free), and lists stay rings, sorted
\* and in fair turns (vListInsert, vListInsertEnd, uxListRemove).
StructuresRight ==
  /\ part = "heap" => Heap!HeapRight
  /\ part = "list" => List!ListRight
  /\ part = "mem" => Mem!MemRight
  /\ part = "memheap" => MemHeap!MemHeapRight

\* No co-routine is lost between its lists, delayed in the wrong one, or left waiting for
\* an item (vCoRoutineSchedule, xQueueCRReceive).
CoRoutinesRight == part = "coroutine" => CoRoutine!CoRoutinesRight

\* None is left waiting for room (the comment on the critical section of xQueueCRSend).
SendersCovered == part = "coroutine" => CoRoutine!SendersCovered
=============================================================================
