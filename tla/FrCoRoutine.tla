----------------------------- MODULE FrCoRoutine -----------------------------
(***************************************************************************)
(* FreeRTOS co-routines, freertos_test/FreeRTOS/croutine.c, and the queues *)
(* they share with interrupt handlers (xQueueCRSend() and its siblings in  *)
(* freertos_test/FreeRTOS/queue.c).  One task runs them all, each until it *)
(* blocks or yields.                                                       *)
(*                                                                         *)
(* Atomicity.  What is done between portDISABLE_INTERRUPTS() and           *)
(* portENABLE_INTERRUPTS() is one step, together with what only that task  *)
(* sees; ticks and handlers come between steps.  A queue counts its items. *)
(* Which ready co-routine of the highest priority is next is left open.    *)
(***************************************************************************)
EXTENDS Integers, FiniteSets

CONSTANTS
  CoRoutines,
  Priority,      \* of each
  TickMod,       \* width of the tick count
  Delays,        \* ticks to delay, or to wait for a queue; 0 too
  QueueLength,
  MaxBehind      \* bound on the ticks between two calls of vCoRoutineSchedule()

VARIABLES
  genericList,   \* where the generic list item of each is: "ready", "delayed", "overflow"
  eventList,     \* where its event list item is: "null", "receive", "send", "pending"
  wakeTime,
  uxTopCoRoutineReadyPriority,
  xTickCount, xCoRoutineTickCount, xLastTickCount, xPassedTicks,
  scheduler,     \* where vCoRoutineSchedule() is
  pxCurrentCoRoutine,
  uxState,       \* where each co-routine goes on
  uxMessagesWaiting

listVars     == <<genericList, eventList, wakeTime, uxTopCoRoutineReadyPriority>>
tickVars     == <<xCoRoutineTickCount, xLastTickCount, xPassedTicks>>
coRoutineVars == <<listVars, tickVars, xTickCount, scheduler, pxCurrentCoRoutine, uxState,
                   uxMessagesWaiting>>

Ready == {c \in CoRoutines : genericList[c] = "ready"}

\* xCoRoutineCreate() of all, before the first vCoRoutineSchedule().
CoRoutineInit ==
  /\ genericList = [c \in CoRoutines |-> "ready"]
  /\ eventList = [c \in CoRoutines |-> "null"]
  /\ wakeTime = [c \in CoRoutines |-> 0]
  /\ \E c \in CoRoutines : /\ \A d \in CoRoutines : Priority[d] <= Priority[c]
                           /\ uxTopCoRoutineReadyPriority = Priority[c]
  /\ xTickCount = 0 /\ xCoRoutineTickCount = 0 /\ xLastTickCount = 0 /\ xPassedTicks = 0
  /\ scheduler = "pending"
  /\ pxCurrentCoRoutine \in CoRoutines
  /\ uxState = [c \in CoRoutines |-> "begin"]
  /\ uxMessagesWaiting = 0
-----------------------------------------------------------------------------
\* Co-routine c, out of its delayed list, with its event list item then in list, becomes
\* ready: prvAddCoRoutineToReadyQueue().
AddToReady(c, list) ==
  /\ genericList' = [genericList EXCEPT ![c] = "ready"]
  /\ eventList' = [eventList EXCEPT ![c] = list]
  /\ uxTopCoRoutineReadyPriority' =
       IF Priority[c] > uxTopCoRoutineReadyPriority THEN Priority[c]
                                                    ELSE uxTopCoRoutineReadyPriority
  /\ UNCHANGED wakeTime

\* vCoRoutineAddToDelayedList(), of the current one.
AddToDelayed(ticks, list) ==
  LET wake == (xCoRoutineTickCount + ticks) % TickMod
      c    == pxCurrentCoRoutine
  IN /\ genericList' = [genericList EXCEPT ![c] =
                          IF wake < xCoRoutineTickCount THEN "overflow" ELSE "delayed"]
     /\ eventList' = [eventList EXCEPT ![c] = list]
     /\ wakeTime' = [wakeTime EXCEPT ![c] = wake]
     /\ UNCHANGED uxTopCoRoutineReadyPriority

\* xCoRoutineRemoveFromEventList(): the most urgent that waits in list.
Waiting(list) == {c \in CoRoutines : eventList[c] = list}
RemoveFromEventList(list) ==
  /\ \/ Waiting(list) = {} /\ UNCHANGED eventList
     \/ \E c \in Waiting(list) :
          /\ \A d \in Waiting(list) : Priority[d] <= Priority[c]
          /\ eventList' = [eventList EXCEPT ![c] = "pending"]
  /\ UNCHANGED <<genericList, wakeTime, uxTopCoRoutineReadyPriority>>
\* Whether it returns pdTRUE.
YieldRequired == \E c \in CoRoutines : /\ eventList[c] # "pending" /\ eventList'[c] = "pending"
                                       /\ Priority[c] >= Priority[pxCurrentCoRoutine]
-----------------------------------------------------------------------------
\* vCoRoutineSchedule().

\* prvCheckPendingReadyList().
CheckPendingReadyList ==
  /\ scheduler = "pending"
  /\ \/ \E c \in Waiting("pending") : AddToReady(c, "null") /\ UNCHANGED <<tickVars, scheduler>>
     \/ /\ Waiting("pending") = {}
        /\ xPassedTicks' = (xTickCount - xLastTickCount) % TickMod
        /\ scheduler' = "delayed"
        /\ UNCHANGED <<listVars, xCoRoutineTickCount, xLastTickCount>>
  /\ UNCHANGED <<xTickCount, pxCurrentCoRoutine, uxState, uxMessagesWaiting>>

\* prvCheckDelayedList(): who is due is readied, also if it waits for an event or its
\* event came meanwhile; then the next tick.  Mutant: the event list item stays.
Due == {c \in CoRoutines : genericList[c] = "delayed" /\ wakeTime[c] <= xCoRoutineTickCount}
EventListKept(c)  == eventList[c]
EventListAfter(c) == "null"
SwappedLists == [c \in CoRoutines |-> CASE genericList[c] = "overflow" -> "delayed"
                                        [] genericList[c] = "delayed" -> "overflow"
                                        [] genericList[c] = "ready" -> "ready"]
CheckDelayedList ==
  /\ scheduler = "delayed"
  /\ \/ \E c \in Due : AddToReady(c, EventListAfter(c)) /\ UNCHANGED <<tickVars, scheduler>>
     \/ /\ Due = {} /\ xPassedTicks > 0
        /\ xPassedTicks' = xPassedTicks - 1
        /\ xCoRoutineTickCount' = (xCoRoutineTickCount + 1) % TickMod
        /\ genericList' = IF xCoRoutineTickCount' = 0 THEN SwappedLists ELSE genericList
        /\ UNCHANGED <<xLastTickCount, eventList, wakeTime, uxTopCoRoutineReadyPriority,
                       scheduler>>
     \/ /\ Due = {} /\ xPassedTicks = 0
        /\ xLastTickCount' = xCoRoutineTickCount
        /\ scheduler' = "select"
        /\ UNCHANGED <<listVars, xCoRoutineTickCount, xPassedTicks>>
  /\ UNCHANGED <<xTickCount, pxCurrentCoRoutine, uxState, uxMessagesWaiting>>

\* The next co-routine is one of the highest ready priority, searched for downwards.
Select ==
  LET listed(p) == {c \in Ready : Priority[c] = p}
      below     == {p \in 0 .. uxTopCoRoutineReadyPriority : listed(p) # {}}
  IN
  /\ scheduler = "select"
  /\ IF below = {}
       THEN /\ uxTopCoRoutineReadyPriority' = 0 /\ scheduler' = "pending"
            /\ UNCHANGED pxCurrentCoRoutine
       ELSE /\ scheduler' = "run"
            /\ \E p \in below : /\ \A q \in below : q <= p
                                /\ uxTopCoRoutineReadyPriority' = p
                                /\ pxCurrentCoRoutine' \in listed(p)
  /\ UNCHANGED <<genericList, eventList, wakeTime, tickVars, xTickCount, uxState,
                 uxMessagesWaiting>>
-----------------------------------------------------------------------------
\* The current co-routine goes on.

\* It goes on at state, having returned to the scheduler or not.
GoesOn(state, returns) ==
  /\ uxState' = [uxState EXCEPT ![pxCurrentCoRoutine] = state]
  /\ scheduler' = IF returns THEN "pending" ELSE "run"
  /\ UNCHANGED <<tickVars, xTickCount, pxCurrentCoRoutine>>
At(state) == scheduler = "run" /\ uxState[pxCurrentCoRoutine] = state

\* crDELAY().
Delay(ticks) ==
  /\ At("begin")
  /\ IF ticks > 0 THEN AddToDelayed(ticks, "null") ELSE UNCHANGED listVars
  /\ GoesOn("begin", TRUE) /\ UNCHANGED uxMessagesWaiting

\* crQUEUE_SEND(): xQueueCRSend() fails or waits if the queue is full, and is tried once
\* more.  The critical section of prvIsQueueFull() ends with interrupts enabled.
Put ==
  /\ uxMessagesWaiting' = uxMessagesWaiting + 1
  /\ RemoveFromEventList("receive")
Send(ticks) ==
  /\ At("begin")
  /\ GoesOn(CASE uxMessagesWaiting < QueueLength -> "sending"
              [] uxMessagesWaiting = QueueLength /\ ticks > 0 -> "full"
              [] uxMessagesWaiting = QueueLength /\ ticks = 0 -> "begin", FALSE)
  /\ UNCHANGED <<listVars, uxMessagesWaiting>>
SendBlocks(ticks) ==
  /\ At("full") /\ ticks > 0
  /\ AddToDelayed(ticks, "send")
  /\ GoesOn("resend", TRUE) /\ UNCHANGED uxMessagesWaiting
SendNow(state) ==
  /\ state \in {"sending", "resend"} /\ At(state)
  /\ IF uxMessagesWaiting < QueueLength
       THEN Put /\ GoesOn("begin", YieldRequired)
       ELSE GoesOn("begin", FALSE) /\ UNCHANGED <<listVars, uxMessagesWaiting>>

\* crQUEUE_RECEIVE() likewise.
Take ==
  /\ uxMessagesWaiting' = uxMessagesWaiting - 1
  /\ RemoveFromEventList("send")
Receive(ticks) ==
  /\ At("begin")
  /\ \/ /\ uxMessagesWaiting = 0 /\ ticks > 0
        /\ AddToDelayed(ticks, "receive") /\ GoesOn("rereceive", TRUE)
     \/ /\ uxMessagesWaiting = 0 /\ ticks = 0
        /\ GoesOn("begin", FALSE) /\ UNCHANGED listVars
     \/ /\ uxMessagesWaiting > 0
        /\ GoesOn("receiving", FALSE) /\ UNCHANGED listVars
  /\ UNCHANGED uxMessagesWaiting
ReceiveNow(state) ==
  /\ state \in {"receiving", "rereceive"} /\ At(state)
  /\ IF uxMessagesWaiting > 0
       THEN Take /\ GoesOn("begin", YieldRequired)
       ELSE GoesOn("begin", FALSE) /\ UNCHANGED <<listVars, uxMessagesWaiting>>
-----------------------------------------------------------------------------
\* Handlers: xQueueCRSendFromISR() and xQueueCRReceiveFromISR(), once in an interrupt.
SendFromISR ==
  /\ uxMessagesWaiting < QueueLength /\ Put
  /\ UNCHANGED <<tickVars, xTickCount, scheduler, pxCurrentCoRoutine, uxState>>
ReceiveFromISR ==
  /\ uxMessagesWaiting > 0 /\ Take
  /\ UNCHANGED <<tickVars, xTickCount, scheduler, pxCurrentCoRoutine, uxState>>

Tick ==
  /\ (xTickCount - xLastTickCount) % TickMod < MaxBehind
  /\ xTickCount' = (xTickCount + 1) % TickMod
  /\ UNCHANGED <<listVars, tickVars, scheduler, pxCurrentCoRoutine, uxState, uxMessagesWaiting>>

CoRoutineNext ==
  \/ CheckPendingReadyList \/ CheckDelayedList \/ Select \/ Tick
  \/ SendFromISR \/ ReceiveFromISR
  \/ \E ticks \in Delays : Delay(ticks) \/ Send(ticks) \/ SendBlocks(ticks) \/ Receive(ticks)
  \/ \E state \in {"sending", "resend"} : SendNow(state)
  \/ \E state \in {"receiving", "rereceive"} : ReceiveNow(state)

CoRoutineSpec == CoRoutineInit /\ [][CoRoutineNext]_coRoutineVars
-----------------------------------------------------------------------------
CoRoutineTypeOK ==
  /\ genericList \in [CoRoutines -> {"ready", "delayed", "overflow"}]
  /\ eventList \in [CoRoutines -> {"null", "receive", "send", "pending"}]
  /\ wakeTime \in [CoRoutines -> 0 .. TickMod - 1]
  /\ {xTickCount, xCoRoutineTickCount, xLastTickCount, xPassedTicks} \subseteq 0 .. TickMod - 1
  /\ scheduler \in {"pending", "delayed", "select", "run"}
  /\ pxCurrentCoRoutine \in CoRoutines /\ uxMessagesWaiting \in 0 .. QueueLength

\* A co-routine that waits for an event, or for whom it came, is in a delayed list still,
\* one that is ready in no event list, whatever handlers do between the two removals of
\* each; and uxTopCoRoutineReadyPriority hides no ready one.
ItemsAgree ==
  /\ \A c \in CoRoutines : eventList[c] # "null" => c \notin Ready
  /\ \A c \in Ready : Priority[c] <= uxTopCoRoutineReadyPriority
  /\ scheduler = "run" => pxCurrentCoRoutine \in Ready

\* The two delayed lists hold what is due in this cycle of the co-routines' own tick
\* count and in the next, and this count never gets ahead of the scheduler's.
DelaysRight ==
  /\ \A c \in CoRoutines :
       /\ genericList[c] = "delayed" =>
            \/ wakeTime[c] > xCoRoutineTickCount
            \/ wakeTime[c] = xCoRoutineTickCount /\ scheduler = "delayed"
       /\ genericList[c] = "overflow" => wakeTime[c] < xCoRoutineTickCount
  /\ scheduler = "delayed" =>
       (xCoRoutineTickCount + xPassedTicks - xLastTickCount) % TickMod
         <= (xTickCount - xLastTickCount) % TickMod

\* None waits for items that nobody is on the way to.
Coming(states) ==
  {c \in CoRoutines : uxState[c] \in states /\ eventList[c] \in {"pending", "null"}}
ReceiversCovered ==
  Waiting("receive") # {} => uxMessagesWaiting <= Cardinality(Coming({"rereceive", "receiving"}))

CoRoutinesRight == ItemsAgree /\ DelaysRight /\ ReceiversCovered

\* Nor for room: a critical section is to prevent "an interrupt removing something from
\* the queue between the check to see if the queue is full and blocking on the queue"
\* (queue.c:2475-2477, of xQueueCRSend()).
SendersCovered ==
  Waiting("send") # {} =>
    QueueLength - uxMessagesWaiting <= Cardinality(Coming({"resend", "sending"}))
=============================================================================
