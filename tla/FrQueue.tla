------------------------------- MODULE FrQueue -------------------------------
(***************************************************************************)
(* One FreeRTOS queue, freertos_test/FreeRTOS/queue.c: the ring buffer,    *)
(* the calls of tasks that block on it and of interrupt handlers that do   *)
(* not, and the queue lock that keeps the handlers out of the waiting      *)
(* lists while a blocking call works on them.                              *)
(*                                                                         *)
(* Atomicity.  A critical section is one step, and so is what an interrupt *)
(* handler does with the queue.  Between steps an interrupt may fall, and, *)
(* unless a call has suspended the scheduler, any other task may run: which*)
(* ready task the scheduler prefers is left open here (FrTasks).           *)
(*                                                                         *)
(* A task taken out of a waiting list goes back to the top of its call.    *)
(* Which of several waiting tasks of one priority goes first is left open. *)
(***************************************************************************)
EXTENDS Integers, FiniteSets

CONSTANTS
  Tasks,     \* tasks that use the queue
  NoTask,    \* nobody
  Priority,  \* the priority of each task
  Items,     \* what can be queued
  Length,    \* uxLength
  Usages     \* the applications: who uses the queue, and how

Sends    == {"send_back", "send_front", "overwrite"}
Receives == {"receive", "peek"}
BlockTimes == {"none", "finite", "forever"}

ASSUME QueueAssumption ==
  /\ IsFiniteSet(Tasks) /\ NoTask \notin Tasks /\ "isr" \notin Tasks
  /\ Priority \in [Tasks -> Nat]
  /\ Length \in Nat \ {0}
  /\ Usages \subseteq [users : SUBSET Tasks, items : SUBSET Items,
                      calls : SUBSET (Sends \cup Receives),
                      waits : SUBSET BlockTimes, aborts : BOOLEAN, resets : BOOLEAN,
                      maxLock : Nat \ {0}]
  /\ \A u \in Usages : "overwrite" \in u.calls => Length = 1
  /\ Items # {} /\ Items \cap {"none", "pass", "full", "empty"} = {}

VARIABLES
  usage,              \* the application that runs
  pcHead,             \* the storage area
  pcWriteTo,          \* slot of the next item sent to the back
  pcReadFrom,         \* slot of the last item received
  uxMessagesWaiting,
  cTxLock,            \* items sent by handlers while locked, or queueUNLOCKED
  cRxLock,            \* items received by handlers while locked, likewise
  xTasksWaitingToSend, xTasksWaitingToReceive,
  suspender,          \* the task that holds the scheduler suspended
  pc,                 \* where each task is in its call
  op,                 \* that call: operation, item and block time left
  timedOut,           \* what its xTaskCheckForTimeOut() answered
  expired,            \* whether its block time has passed
  ucDelayAborted,
  aborted,            \* history: xTaskAbortDelay() hit this very call
  result              \* what the last finished call of each client returned

ringVars == <<pcHead, pcWriteTo, pcReadFrom, uxMessagesWaiting>>
lockVars == <<cTxLock, cRxLock>>
waitVars == <<xTasksWaitingToSend, xTasksWaitingToReceive>>
timeVars == <<timedOut, expired, ucDelayAborted, aborted>>
callVars == <<pc, op, result>>
vars == <<usage, ringVars, lockVars, waitVars, suspender, timeVars, callVars>>

\* The operations and block times in use, and whether xTaskAbortDelay() is used on
\* waiting tasks, and xQueueReset().
Calls  == usage.calls
Waits  == usage.waits
Aborts == usage.aborts
Resets == usage.resets

\* Bound: how often handlers use a locked queue (queueINT8_MAX, which the lock counts
\* are asserted never to reach).
MaxLock == usage.maxLock

Slots   == 0 .. Length - 1
Waiting == xTasksWaitingToSend \cup xTasksWaitingToReceive
Labels  == {"idle", "top", "lock", "check", "place", "unlock_tx", "unlock_rx",
            "resume", "final"}
Ops     == [call : Sends \cup Receives, item : Items, wait : BlockTimes]
Results == {"none", "pass", "full", "empty"} \cup Items
Clients == Tasks \cup {"isr"}
queueUNLOCKED          == -1
queueLOCKED_UNMODIFIED == 0

Init ==
  /\ usage \in Usages
  /\ pcHead \in [Slots -> Items]
  /\ pcWriteTo = 0 /\ pcReadFrom = Length - 1 /\ uxMessagesWaiting = 0
  /\ cTxLock = queueUNLOCKED /\ cRxLock = queueUNLOCKED
  /\ xTasksWaitingToSend = {} /\ xTasksWaitingToReceive = {}
  /\ suspender = NoTask
  /\ pc = [t \in Tasks |-> "idle"]
  /\ op \in [Tasks -> [call : Calls, item : usage.items, wait : {"none"}]]
  /\ timedOut = [t \in Tasks |-> FALSE] /\ expired = [t \in Tasks |-> FALSE]
  /\ ucDelayAborted = [t \in Tasks |-> FALSE] /\ aborted = [t \in Tasks |-> FALSE]
  /\ result = [c \in Clients |-> "none"]
-----------------------------------------------------------------------------
\* The ring buffer.

\* A cursor one item further.  Mutant: the wrap comes one slot early.
SlotAfterEarly(s) == IF s + 1 >= Length - 1 THEN 0 ELSE s + 1
SlotAfter(s)  == IF s + 1 >= Length THEN 0 ELSE s + 1
SlotBefore(s) == IF s - 1 < 0 THEN Length - 1 ELSE s - 1

\* prvCopyDataToQueue().  Mutant: an overwrite never counts.
CountNoOverwrite(call) ==
  IF call = "overwrite" THEN uxMessagesWaiting ELSE uxMessagesWaiting + 1
CountAfterSend(call) ==
  IF call = "overwrite" /\ uxMessagesWaiting > 0 THEN uxMessagesWaiting
                                                 ELSE uxMessagesWaiting + 1
CopyDataToQueue(call, x) ==
  /\ uxMessagesWaiting' = CountAfterSend(call)
  /\ IF call = "send_back"
       THEN /\ pcHead' = [pcHead EXCEPT ![pcWriteTo] = x]
            /\ pcWriteTo' = SlotAfter(pcWriteTo) /\ UNCHANGED pcReadFrom
       ELSE /\ pcHead' = [pcHead EXCEPT ![pcReadFrom] = x]
            /\ pcReadFrom' = SlotBefore(pcReadFrom) /\ UNCHANGED pcWriteTo

\* prvCopyDataFromQueue(), after which the item is gone.
NextItem == pcHead[SlotAfter(pcReadFrom)]
CopyDataFromQueue ==
  /\ uxMessagesWaiting' = uxMessagesWaiting - 1
  /\ pcReadFrom' = SlotAfter(pcReadFrom)
  /\ UNCHANGED <<pcHead, pcWriteTo>>

\* Mutant: room for one too many.
HasRoomForOneMore(call) == uxMessagesWaiting <= Length \/ call = "overwrite"
HasRoom(call) == uxMessagesWaiting < Length \/ call = "overwrite"
CanProceed(call) == IF call \in Sends THEN HasRoom(call) ELSE uxMessagesWaiting > 0
Refusal(call) == IF call \in Sends THEN "full" ELSE "empty"
-----------------------------------------------------------------------------
\* Waiting lists.

\* xTaskRemoveFromEventList() n times, or until the list is empty: the waiting
\* set becomes left, the most urgent tasks go.
WakeUp(n, waiting, left) ==
  \E gone \in SUBSET waiting :
    /\ left = waiting \ gone
    /\ Cardinality(gone) = IF n < Cardinality(waiting) THEN n ELSE Cardinality(waiting)
    /\ \A g \in gone, s \in left : Priority[g] >= Priority[s]

WakeReceivers(n) ==
  /\ WakeUp(n, xTasksWaitingToReceive, xTasksWaitingToReceive')
  /\ UNCHANGED xTasksWaitingToSend
WakeSenders(n) ==
  /\ WakeUp(n, xTasksWaitingToSend, xTasksWaitingToSend')
  /\ UNCHANGED xTasksWaitingToReceive
-----------------------------------------------------------------------------
\* The calls of tasks.

\* Task t can execute: nobody else holds the scheduler suspended.
CanRun(t) == suspender \in {NoTask, t}

\* Step of task t inside its call, from one label to the next.
Step(t, from, to) == CanRun(t) /\ pc[t] = from /\ pc' = [pc EXCEPT ![t] = to]

Return(c, r) == result' = [result EXCEPT ![c] = r]

\* The critical section at the top of the loop of xQueueGenericSend(),
\* xQueueReceive() and xQueuePeek(), for operation o: do it,
Succeed(t, o) ==
  /\ CanProceed(o.call)
  /\ pc' = [pc EXCEPT ![t] = "idle"]
  /\ \/ /\ o.call \in Sends
        /\ CopyDataToQueue(o.call, o.item) /\ WakeReceivers(1)
        /\ Return(t, "pass")
     \/ /\ o.call = "receive"
        /\ CopyDataFromQueue /\ WakeSenders(1)
        /\ Return(t, NextItem)
     \/ /\ o.call = "peek"
        /\ UNCHANGED ringVars /\ WakeReceivers(1)
        /\ Return(t, NextItem)

\* or give up at once, or set out to block.
Fail(t, o) ==
  /\ ~CanProceed(o.call)
  /\ IF o.wait = "none"
       THEN pc' = [pc EXCEPT ![t] = "idle"] /\ Return(t, Refusal(o.call))
       ELSE pc' = [pc EXCEPT ![t] = "lock"] /\ Return(t, "none")
  /\ UNCHANGED <<ringVars, waitVars>>

\* A task calls the queue.
Call(t, o) ==
  /\ t \in usage.users /\ CanRun(t) /\ pc[t] = "idle"
  /\ Succeed(t, o) \/ Fail(t, o)
  /\ op' = [op EXCEPT ![t] = o]
  /\ expired' = [expired EXCEPT ![t] = FALSE]
  /\ aborted' = [aborted EXCEPT ![t] = FALSE]
  /\ UNCHANGED <<lockVars, suspender, timedOut, ucDelayAborted>>

\* A task that need not or no longer waits is back at the top.
Retry(t) ==
  /\ CanRun(t) /\ pc[t] = "top" /\ t \notin Waiting
  /\ Succeed(t, op[t]) \/ Fail(t, op[t])
  /\ UNCHANGED <<lockVars, suspender, timeVars, op>>

\* vTaskSuspendAll() and prvLockQueue().
LockQueue(t) ==
  /\ Step(t, "lock", "check")
  /\ suspender' = t
  /\ cTxLock' = IF cTxLock = queueUNLOCKED THEN queueLOCKED_UNMODIFIED ELSE cTxLock
  /\ cRxLock' = IF cRxLock = queueUNLOCKED THEN queueLOCKED_UNMODIFIED ELSE cRxLock
  /\ UNCHANGED <<ringVars, waitVars, timeVars, op, result>>

\* xTaskCheckForTimeOut(), which sets the block time to zero when it is over.
\* Mutants: any call that comes round again is over; only an abort ends it.
IsAnyTimeOut(t) == ucDelayAborted[t] \/ op[t].wait = "finite"
IsAbortOnly(t) == ucDelayAborted[t]
IsTimeOut(t) == ucDelayAborted[t] \/ (op[t].wait = "finite" /\ expired[t])

\* It, and prvIsQueueFull() or prvIsQueueEmpty().
Check(t) ==
  /\ Step(t, "check", IF IsTimeOut(t) \/ CanProceed(op[t].call) THEN "unlock_tx" ELSE "place")
  /\ timedOut' = [timedOut EXCEPT ![t] = IsTimeOut(t)]
  /\ ucDelayAborted' = [ucDelayAborted EXCEPT ![t] = FALSE]
  /\ op' = IF IsTimeOut(t) /\ ~ucDelayAborted[t] THEN [op EXCEPT ![t].wait = "none"] ELSE op
  /\ UNCHANGED <<ringVars, lockVars, waitVars, suspender, expired, aborted, result>>

\* vTaskPlaceOnEventList(), interrupts enabled.
Place(t) ==
  /\ Step(t, "place", "unlock_tx")
  /\ IF op[t].call \in Sends
       THEN /\ xTasksWaitingToSend' = xTasksWaitingToSend \cup {t}
            /\ UNCHANGED xTasksWaitingToReceive
       ELSE /\ xTasksWaitingToReceive' = xTasksWaitingToReceive \cup {t}
            /\ UNCHANGED xTasksWaitingToSend
  /\ ucDelayAborted' = [ucDelayAborted EXCEPT ![t] = FALSE]
  /\ UNCHANGED <<ringVars, lockVars, suspender, timedOut, expired, aborted, op, result>>

\* prvUnlockQueue(), first critical section.  Mutants: one wake-up for however
\* many items; the lock is left as it was.
UnlockTxOnce(t) ==
  /\ Step(t, "unlock_tx", "unlock_rx")
  /\ WakeReceivers(IF cTxLock > 0 THEN 1 ELSE 0)
  /\ cTxLock' = queueUNLOCKED
  /\ UNCHANGED <<ringVars, cRxLock, suspender, timeVars, op, result>>

UnlockTxNever(t) ==
  /\ Step(t, "unlock_tx", "unlock_rx")
  /\ WakeReceivers(IF cTxLock > 0 THEN cTxLock ELSE 0)
  /\ UNCHANGED <<ringVars, lockVars, suspender, timeVars, op, result>>

UnlockTx(t) ==
  /\ Step(t, "unlock_tx", "unlock_rx")
  /\ WakeReceivers(IF cTxLock > 0 THEN cTxLock ELSE 0)
  /\ cTxLock' = queueUNLOCKED
  /\ UNCHANGED <<ringVars, cRxLock, suspender, timeVars, op, result>>

\* Second critical section.
UnlockRx(t) ==
  /\ Step(t, "unlock_rx", "resume")
  /\ WakeSenders(IF cRxLock > 0 THEN cRxLock ELSE 0)
  /\ cRxLock' = queueUNLOCKED
  /\ UNCHANGED <<ringVars, cTxLock, suspender, timeVars, op, result>>

\* xTaskResumeAll(); a send that timed out returns, a receive looks again.
Resume(t) ==
  /\ Step(t, "resume", IF ~timedOut[t] THEN "top" ELSE
                       IF op[t].call \in Sends THEN "idle" ELSE "final")
  /\ suspender' = NoTask
  /\ IF timedOut[t] /\ op[t].call \in Sends THEN Return(t, "full") ELSE UNCHANGED result
  /\ UNCHANGED <<ringVars, lockVars, waitVars, timeVars, op>>

\* prvIsQueueEmpty() after a receive or peek timed out.
Final(t) ==
  /\ Step(t, "final", IF uxMessagesWaiting = 0 THEN "idle" ELSE "top")
  /\ IF uxMessagesWaiting = 0 THEN Return(t, "empty") ELSE UNCHANGED result
  /\ UNCHANGED <<ringVars, lockVars, waitVars, suspender, timeVars, op>>

\* xQueueReset(): empties the queue and wakes one sender.
Reset ==
  /\ Resets /\ suspender = NoTask
  /\ uxMessagesWaiting' = 0 /\ pcWriteTo' = 0 /\ pcReadFrom' = Length - 1
  /\ cTxLock' = queueUNLOCKED /\ cRxLock' = queueUNLOCKED
  /\ WakeSenders(1)
  /\ UNCHANGED <<pcHead, suspender, timeVars, callVars>>
-----------------------------------------------------------------------------
\* Interrupt handlers, the tick's included.

\* xQueueGenericSendFromISR().  Mutant: what is sent while the queue is locked
\* is not noted.
SendUnnoted(call, x) ==
  /\ HasRoom(call)
  /\ CopyDataToQueue(call, x)
  /\ IF cTxLock = queueUNLOCKED THEN WakeReceivers(1) ELSE UNCHANGED waitVars
  /\ Return("isr", "pass")
  /\ UNCHANGED <<lockVars, suspender, timeVars, pc, op>>

SendFromISR(call, x) ==
  /\ HasRoom(call)
  /\ CopyDataToQueue(call, x)
  /\ IF cTxLock = queueUNLOCKED
       THEN WakeReceivers(1) /\ UNCHANGED cTxLock
       ELSE cTxLock < MaxLock /\ cTxLock' = cTxLock + 1 /\ UNCHANGED waitVars
  /\ Return("isr", "pass")
  /\ UNCHANGED <<cRxLock, suspender, timeVars, pc, op>>

\* xQueueReceiveFromISR().
ReceiveFromISR ==
  /\ uxMessagesWaiting > 0
  /\ CopyDataFromQueue
  /\ IF cRxLock = queueUNLOCKED
       THEN WakeSenders(1) /\ UNCHANGED cRxLock
       ELSE cRxLock < MaxLock /\ cRxLock' = cRxLock + 1 /\ UNCHANGED waitVars
  /\ Return("isr", NextItem)
  /\ UNCHANGED <<cTxLock, suspender, timeVars, pc, op>>

\* No longer waits.
Leave(t) ==
  /\ xTasksWaitingToSend' = xTasksWaitingToSend \ {t}
  /\ xTasksWaitingToReceive' = xTasksWaitingToReceive \ {t}

\* The tick at which the block time of the call of t is over; ticks are held
\* pending while the scheduler is suspended.
Expire(t) ==
  /\ suspender = NoTask /\ pc[t] # "idle" /\ op[t].wait = "finite" /\ ~expired[t]
  /\ expired' = [expired EXCEPT ![t] = TRUE]
  /\ Leave(t)
  /\ UNCHANGED <<ringVars, lockVars, suspender, timedOut, ucDelayAborted, aborted, callVars>>

\* xTaskAbortDelay(t), by another task.
AbortDelay(t) ==
  /\ Aborts /\ suspender = NoTask /\ t \in Waiting
  /\ ucDelayAborted' = [ucDelayAborted EXCEPT ![t] = TRUE]
  /\ aborted' = [aborted EXCEPT ![t] = TRUE]
  /\ Leave(t)
  /\ UNCHANGED <<ringVars, lockVars, suspender, timedOut, expired, callVars>>
-----------------------------------------------------------------------------
\* The steps of task t inside a call.
Continue(t) ==
  \/ Retry(t) \/ LockQueue(t) \/ Check(t) \/ Place(t)
  \/ UnlockTx(t) \/ UnlockRx(t) \/ Resume(t) \/ Final(t)

Next ==
  /\ UNCHANGED usage
  /\ \/ Reset \/ ReceiveFromISR
     \/ \E call \in Calls \cap Sends, x \in usage.items : SendFromISR(call, x)
     \/ \E t \in Tasks :
          \/ Continue(t) \/ Expire(t) \/ AbortDelay(t)
          \/ \E o \in [call : Calls, item : usage.items, wait : Waits] : Call(t, o)

Spec == Init /\ [][Next]_vars
-----------------------------------------------------------------------------
TypeOK ==
  /\ pcHead \in [Slots -> Items]
  /\ pcWriteTo \in Slots /\ pcReadFrom \in Slots /\ uxMessagesWaiting \in 0 .. Length
  /\ cTxLock \in queueUNLOCKED .. MaxLock /\ cRxLock \in queueUNLOCKED .. MaxLock
  /\ xTasksWaitingToSend \subseteq Tasks /\ xTasksWaitingToReceive \subseteq Tasks
  /\ suspender \in Tasks \cup {NoTask}
  /\ pc \in [Tasks -> Labels] /\ op \in [Tasks -> Ops]
  /\ timedOut \in [Tasks -> BOOLEAN] /\ expired \in [Tasks -> BOOLEAN]
  /\ ucDelayAborted \in [Tasks -> BOOLEAN] /\ aborted \in [Tasks -> BOOLEAN]
  /\ result \in [Clients -> Results]

\* The queue is locked only while the call that locked it holds the scheduler
\* suspended: each half of the lock is taken and given back by the same call,
\* whatever path it takes, so no handler's wake-up is kept in a count that
\* nobody will look at.
LockIsHeld ==
  /\ cTxLock # queueUNLOCKED =>
       suspender # NoTask /\ pc[suspender] \in {"check", "place", "unlock_tx"}
  /\ cRxLock # queueUNLOCKED =>
       suspender # NoTask /\ pc[suspender] \in {"check", "place", "unlock_tx", "unlock_rx"}

\* Tasks on their way to look at the queue again, some woken by the very
\* unlocking after which they wait.
Returning(calls) ==
  {t \in Tasks \ Waiting : /\ op[t].call \in calls
                           /\ \/ pc[t] = "top"
                              \/ pc[t] \in {"unlock_rx", "resume"} /\ ~timedOut[t]}

\* No lost wake-up: while tasks wait to receive, every item in the queue has a
\* woken receiver on its way to it, or is noted in the lock count of the call
\* that will wake one; and likewise, while tasks wait to send, every free slot -
\* unless xQueueReset(), which frees many slots and wakes one sender, is used.
ReceiversCovered ==
  xTasksWaitingToReceive # {} =>
    uxMessagesWaiting <= Cardinality(Returning(Receives))
                         + (IF cTxLock > 0 THEN cTxLock ELSE 0)
SendersCovered ==
  xTasksWaitingToSend # {} =>
    Length - uxMessagesWaiting <= Cardinality(Returning(Sends))
                                  + (IF cRxLock > 0 THEN cRxLock ELSE 0)
WaitersCovered == ~Resets => ReceiversCovered /\ SendersCovered

\* A call that was ready to wait reports a full or empty queue only when its
\* block time has passed or when xTaskAbortDelay() ended this very wait.
TimeOutsJustified ==
  [][\A t \in Tasks :
       pc[t] # "idle" /\ pc'[t] = "idle" /\ result'[t] \in {"full", "empty"}
       => expired[t] \/ aborted[t]]_vars

\* The queue is the double-ended sequence of FrQueueSpec: the items from the
\* slot after pcReadFrom on, as many as uxMessagesWaiting says.
Contents ==
  [i \in 1 .. uxMessagesWaiting |->
     pcHead[IF pcReadFrom + i >= Length THEN pcReadFrom + i - Length ELSE pcReadFrom + i]]
Found ==
  [c \in Clients |-> IF c \in Tasks /\ pc[c] # "idle" THEN Refusal(op[c].call) ELSE "none"]

Abstract == INSTANCE FrQueueSpec WITH contents <- Contents, found <- Found

\* Every call takes effect at once, in the order of the ring buffer, exactly
\* once, and a refusal was true at some moment of the call, whatever tasks and
\* handlers interleave.
IsQueue == Abstract!Spec

\* Tasks of one priority share the hart (configUSE_TIME_SLICING), so a call
\* that can go on does, and the tick goes on.
Fairness ==
  \A t \in Tasks : /\ SF_vars(Continue(t) /\ UNCHANGED usage)
                   /\ SF_vars(Expire(t) /\ UNCHANGED usage)

FairSpec == Spec /\ Fairness

\* A call with a block time that is not portMAX_DELAY returns.
CallsEnd ==
  \A t \in Tasks : pc[t] # "idle" /\ op[t].wait # "forever" ~> pc[t] = "idle"

\* Items do not lie in the queue while tasks wait for them.
ItemsAreTaken ==
  uxMessagesWaiting > 0 /\ xTasksWaitingToReceive # {}
  ~> uxMessagesWaiting = 0 \/ xTasksWaitingToReceive = {}

\* Both, so that nobody who shares a queue is stuck (prvUnlockQueue,
\* xTaskCheckForTimeOut).
QueueGetsOn == CallsEnd /\ ItemsAreTaken
=============================================================================
