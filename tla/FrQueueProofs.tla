---------------------------- MODULE FrQueueProofs ----------------------------
(***************************************************************************)
(* Theorems about one queue, for any number of tasks, items and slots: the *)
(* types, who holds the queue lock, that time-outs are justified, that the *)
(* queue implements the double-ended sequence of FrQueueSpec, and that no  *)
(* wake-up is lost.  Last come the software timers of FrTimers.            *)
(***************************************************************************)
EXTENDS FrQueue, FrTimers, FiniteSetTheorems, SequenceTheorems, WellFoundedInduction, TLAPS

-----------------------------------------------------------------------------
\* Types, and who holds the lock.

\* The labels between vTaskSuspendAll() and xTaskResumeAll().
SuspendedLabels == {"check", "place", "unlock_tx", "unlock_rx", "resume"}

\* Exactly the task at such a label, of which there is one at most, holds the
\* scheduler suspended.
SuspenderRight ==
  /\ suspender # NoTask => pc[suspender] \in SuspendedLabels
  /\ \A t \in Tasks : pc[t] \in SuspendedLabels => suspender = t

\* Calls are those the application uses.
CallsInUse ==
  /\ usage \in Usages
  /\ op \in [Tasks -> [call : Calls, item : usage.items, wait : BlockTimes]]

\* The invariant behind TypeOK and LockIsHeld: a lock count is dropped by the
\* task that holds the suspension, and nobody else is between the labels.
QueueInv == TypeOK /\ CallsInUse /\ SuspenderRight /\ LockIsHeld

\* What the assumption says of the application that runs.
LEMMA UsageFacts ==
  ASSUME usage \in Usages
  PROVE  /\ usage.users \subseteq Tasks /\ usage.items \subseteq Items
         /\ Calls \subseteq Sends \cup Receives /\ Waits \subseteq BlockTimes
         /\ MaxLock \in Nat \ {0}
         /\ "overwrite" \in Calls => Length = 1
  BY QueueAssumption DEF QueueAssumption, Calls, Waits, MaxLock

\* Cursors stay among the slots.
LEMMA SlotFacts ==
  ASSUME NEW s \in Slots
  PROVE  SlotAfter(s) \in Slots /\ SlotBefore(s) \in Slots
  BY QueueAssumption DEF QueueAssumption, Slots, SlotAfter, SlotBefore

\* Copying an item in or out keeps the types of the ring buffer.
RingTypeOK ==
  /\ pcHead \in [Slots -> Items]
  /\ pcWriteTo \in Slots /\ pcReadFrom \in Slots /\ uxMessagesWaiting \in 0 .. Length

LEMMA CopyInTypes ==
  ASSUME RingTypeOK, NEW call \in Sends, NEW x \in Items, HasRoom(call),
         CopyDataToQueue(call, x)
  PROVE  RingTypeOK'
  BY SlotFacts, QueueAssumption
     DEF RingTypeOK, CopyDataToQueue, CountAfterSend, HasRoom, Sends, QueueAssumption

LEMMA CopyOutTypes ==
  ASSUME RingTypeOK, uxMessagesWaiting > 0, CopyDataFromQueue
  PROVE  RingTypeOK' /\ NextItem \in Items
  BY SlotFacts, QueueAssumption
     DEF RingTypeOK, CopyDataFromQueue, NextItem, QueueAssumption

\* Waking tasks only takes them out of the waiting lists.
LEMMA WakeTypes ==
  ASSUME NEW n, WakeReceivers(n) \/ WakeSenders(n)
  PROVE  /\ xTasksWaitingToSend' \subseteq xTasksWaitingToSend
         /\ xTasksWaitingToReceive' \subseteq xTasksWaitingToReceive
  BY DEF WakeReceivers, WakeSenders, WakeUp

LEMMA QueueInit == Init => QueueInv
  <1>. SUFFICES ASSUME Init PROVE QueueInv
    OBVIOUS
  <1>. USE QueueAssumption DEF QueueAssumption, Init
  <1>1. CallsInUse
    BY DEF CallsInUse, BlockTimes
  <1>2. op \in [Tasks -> Ops]
    BY <1>1, UsageFacts DEF CallsInUse, Ops
  <1>3. RingTypeOK
    BY DEF RingTypeOK, Slots
  <1>4. MaxLock \in Nat
    BY UsageFacts
  <1>5. TypeOK
    BY <1>2, <1>3, <1>4 DEF TypeOK, RingTypeOK, Labels, Results, Clients, queueUNLOCKED
  <1>. QED
    BY <1>1, <1>5 DEF QueueInv, SuspenderRight, SuspendedLabels, LockIsHeld

\* The critical section at the top of a call: the types it keeps, and where it
\* leaves the task.
LEMMA TopTypes ==
  ASSUME TypeOK, NEW t \in Tasks, NEW o \in Ops, Succeed(t, o) \/ Fail(t, o)
  PROVE  /\ RingTypeOK'
         /\ xTasksWaitingToSend' \subseteq Tasks /\ xTasksWaitingToReceive' \subseteq Tasks
         /\ pc' \in [Tasks -> Labels] /\ result' \in [Clients -> Results]
         /\ \E l \in {"idle", "lock"} : pc' = [pc EXCEPT ![t] = l]
  <1>. USE DEF Return
  <1>0. RingTypeOK
    BY DEF TypeOK, RingTypeOK
  <1>t. /\ t \in Clients /\ "idle" \in Labels /\ "lock" \in Labels
        /\ pc \in [Tasks -> Labels] /\ result \in [Clients -> Results]
        /\ xTasksWaitingToSend \subseteq Tasks /\ xTasksWaitingToReceive \subseteq Tasks
    BY DEF Clients, Labels, TypeOK
  <1>1. CASE Fail(t, o)
    <2>1. RingTypeOK' /\ waitVars' = waitVars
      BY <1>0, <1>1 DEF Fail, RingTypeOK, ringVars
    <2>2. "none" \in Results /\ Refusal(o.call) \in Results
      BY DEF Refusal, Results
    <2>. QED
      BY <1>1, <1>t, <2>1, <2>2 DEF Fail, waitVars
  <1>2. CASE Succeed(t, o)
    <2>1. CASE /\ o.call \in Sends
               /\ CopyDataToQueue(o.call, o.item) /\ WakeReceivers(1)
               /\ Return(t, "pass")
      <3>1. HasRoom(o.call) /\ o.item \in Items
        BY <1>2, <2>1 DEF Succeed, CanProceed, Ops
      <3>2. RingTypeOK'
        BY <1>0, <2>1, <3>1, CopyInTypes
      <3>. QED
        BY <1>2, <1>t, <2>1, <3>2, WakeTypes DEF Succeed, Results
    <2>2. CASE /\ o.call = "receive"
               /\ CopyDataFromQueue /\ WakeSenders(1)
               /\ Return(t, NextItem)
      <3>1. RingTypeOK' /\ NextItem \in Items
        BY <1>0, <1>2, <2>2, CopyOutTypes DEF Succeed, CanProceed, Sends
      <3>. QED
        BY <1>2, <1>t, <2>2, <3>1, WakeTypes DEF Succeed, Results
    <2>3. CASE /\ o.call = "peek"
               /\ UNCHANGED ringVars /\ WakeReceivers(1)
               /\ Return(t, NextItem)
      <3>1. RingTypeOK' /\ NextItem \in Items
        BY <1>0, <2>3, SlotFacts DEF RingTypeOK, ringVars, NextItem
      <3>. QED
        BY <1>2, <1>t, <2>3, <3>1, WakeTypes DEF Succeed, Results
    <2>. QED
      BY <1>2, <2>1, <2>2, <2>3 DEF Succeed
  <1>. QED
    BY <1>1, <1>2

LEMMA QueueStep == QueueInv /\ [Next]_vars => QueueInv'
  <1>. SUFFICES ASSUME QueueInv, [Next]_vars PROVE QueueInv'
    OBVIOUS
  <1>. USE QueueAssumption DEF QueueInv, queueUNLOCKED, queueLOCKED_UNMODIFIED
  <1>0. /\ RingTypeOK /\ TypeOK /\ CallsInUse /\ SuspenderRight /\ LockIsHeld
        /\ MaxLock \in Nat \ {0} /\ \A s : s \notin Tasks => s # suspender \/ s = NoTask
    BY UsageFacts DEF RingTypeOK, TypeOK, CallsInUse
  <1>u. CASE UNCHANGED vars
    BY <1>u, <1>0 DEF vars, ringVars, lockVars, waitVars, timeVars, callVars, TypeOK,
       CallsInUse, SuspenderRight, LockIsHeld, Calls, MaxLock
  <1>n. ASSUME Next PROVE usage' = usage /\ Calls' = Calls /\ MaxLock' = MaxLock
    BY <1>n DEF Next, Calls, MaxLock
  <1>o. \A o \in [call : Calls, item : usage.items, wait : BlockTimes] : o \in Ops
    BY <1>0, UsageFacts DEF CallsInUse, Ops
  <1>1. ASSUME Next, Reset PROVE QueueInv'
    <2>1. TypeOK'
      BY <1>1, <1>0, <1>n, WakeTypes
         DEF Reset, TypeOK, RingTypeOK, Slots, timeVars, callVars
    <2>. QED
      BY <1>1, <1>0, <1>n, <2>1
         DEF Reset, callVars, CallsInUse, SuspenderRight, LockIsHeld
  <1>2. ASSUME Next, ReceiveFromISR PROVE QueueInv'
    <2>1. RingTypeOK' /\ NextItem \in Items
      BY <1>2, <1>0, CopyOutTypes DEF ReceiveFromISR
    <2>2. TypeOK'
      BY <1>2, <1>0, <1>n, <2>1, WakeTypes
         DEF ReceiveFromISR, TypeOK, RingTypeOK, timeVars, waitVars, Return, Results, Clients
    <2>. QED
      BY <1>2, <1>0, <1>n, <2>2
         DEF ReceiveFromISR, CallsInUse, SuspenderRight, LockIsHeld
  <1>3. ASSUME Next, NEW call \in Calls \cap Sends, NEW x \in usage.items,
               SendFromISR(call, x)
        PROVE  QueueInv'
    <2>1. x \in Items
      BY <1>0, UsageFacts DEF CallsInUse
    <2>2. RingTypeOK'
      BY <1>3, <1>0, <2>1, CopyInTypes DEF SendFromISR
    <2>3. TypeOK'
      BY <1>3, <1>0, <1>n, <2>2, WakeTypes
         DEF SendFromISR, TypeOK, RingTypeOK, timeVars, waitVars, Return, Results, Clients
    <2>. QED
      BY <1>3, <1>0, <1>n, <2>3
         DEF SendFromISR, CallsInUse, SuspenderRight, LockIsHeld
  <1>4. ASSUME Next, NEW t \in Tasks, Continue(t) PROVE QueueInv'
    <2>. t # NoTask
      OBVIOUS
    <2>. USE DEF Step, CanRun
    <2>1. CASE Retry(t)
      <3>1. op[t] \in Ops
        BY <1>0 DEF TypeOK
      <3>2. /\ RingTypeOK'
            /\ xTasksWaitingToSend' \subseteq Tasks /\ xTasksWaitingToReceive' \subseteq Tasks
            /\ pc' \in [Tasks -> Labels] /\ result' \in [Clients -> Results]
            /\ \E l \in {"idle", "lock"} : pc' = [pc EXCEPT ![t] = l]
        BY <1>0, <2>1, <3>1, TopTypes DEF Retry
      <3>3. TypeOK'
        BY <1>0, <1>n, <1>4, <2>1, <3>2 DEF Retry, TypeOK, RingTypeOK, timeVars, lockVars
      <3>. QED
        BY <1>0, <1>n, <1>4, <2>1, <3>2, <3>3
           DEF Retry, TypeOK, CallsInUse, lockVars, SuspenderRight, SuspendedLabels, LockIsHeld
    <2>2. CASE LockQueue(t)
      <3>1. TypeOK'
        BY <1>0, <1>n, <1>4, <2>2
           DEF LockQueue, TypeOK, ringVars, waitVars, timeVars, Labels
      <3>. QED
        BY <1>0, <1>n, <1>4, <2>2, <3>1
           DEF LockQueue, TypeOK, CallsInUse, SuspenderRight, SuspendedLabels, LockIsHeld
    <2>3. CASE Check(t)
      <3>1. op' \in [Tasks -> [call : Calls, item : usage.items, wait : BlockTimes]]
        BY <1>0, <2>3 DEF Check, CallsInUse, BlockTimes
      <3>2. op' \in [Tasks -> Ops]
        BY <3>1, <1>o
      <3>3. TypeOK'
        BY <1>0, <1>n, <1>4, <2>3, <3>2
           DEF Check, TypeOK, ringVars, waitVars, lockVars, Labels, IsTimeOut
      <3>. QED
        BY <1>0, <1>n, <1>4, <2>3, <3>1, <3>3
           DEF Check, TypeOK, CallsInUse, lockVars, SuspenderRight, SuspendedLabels, LockIsHeld
    <2>4. CASE Place(t)
      <3>1. TypeOK'
        BY <1>0, <1>n, <1>4, <2>4 DEF Place, TypeOK, ringVars, lockVars, Labels
      <3>. QED
        BY <1>0, <1>n, <1>4, <2>4, <3>1
           DEF Place, TypeOK, CallsInUse, lockVars, SuspenderRight, SuspendedLabels, LockIsHeld
    <2>5. CASE UnlockTx(t)
      <3>1. TypeOK'
        BY <1>0, <1>n, <1>4, <2>5, WakeTypes DEF UnlockTx, TypeOK, ringVars, timeVars, Labels
      <3>. QED
        BY <1>0, <1>n, <1>4, <2>5, <3>1
           DEF UnlockTx, TypeOK, CallsInUse, SuspenderRight, SuspendedLabels, LockIsHeld
    <2>6. CASE UnlockRx(t)
      <3>1. TypeOK'
        BY <1>0, <1>n, <1>4, <2>6, WakeTypes DEF UnlockRx, TypeOK, ringVars, timeVars, Labels
      <3>. QED
        BY <1>0, <1>n, <1>4, <2>6, <3>1
           DEF UnlockRx, TypeOK, CallsInUse, SuspenderRight, SuspendedLabels, LockIsHeld
    <2>7. CASE Resume(t)
      <3>1. TypeOK'
        BY <1>0, <1>n, <1>4, <2>7
           DEF Resume, TypeOK, ringVars, lockVars, waitVars, timeVars, Labels, Return,
               Results, Clients
      <3>. QED
        BY <1>0, <1>n, <1>4, <2>7, <3>1
           DEF Resume, TypeOK, CallsInUse, lockVars, SuspenderRight, SuspendedLabels, LockIsHeld
    <2>8. CASE Final(t)
      <3>1. TypeOK'
        BY <1>0, <1>n, <1>4, <2>8
           DEF Final, TypeOK, ringVars, lockVars, waitVars, timeVars, Labels, Return,
               Results, Clients
      <3>. QED
        BY <1>0, <1>n, <1>4, <2>8, <3>1
           DEF Final, TypeOK, CallsInUse, lockVars, SuspenderRight, SuspendedLabels, LockIsHeld
    <2>. QED
      BY <1>4, <2>1, <2>2, <2>3, <2>4, <2>5, <2>6, <2>7, <2>8 DEF Continue
  <1>5. ASSUME Next, NEW t \in Tasks, Expire(t) \/ AbortDelay(t) PROVE QueueInv'
    <2>1. TypeOK'
      BY <1>0, <1>n, <1>5
         DEF Expire, AbortDelay, Leave, TypeOK, ringVars, lockVars, callVars
    <2>. QED
      BY <1>0, <1>n, <1>5, <2>1
         DEF Expire, AbortDelay, CallsInUse, lockVars, callVars, SuspenderRight, LockIsHeld
  <1>6. ASSUME Next, NEW t \in Tasks, NEW o \in [call : Calls, item : usage.items, wait : Waits],
               Call(t, o)
        PROVE  QueueInv'
    <2>1. o \in [call : Calls, item : usage.items, wait : BlockTimes]
      BY <1>0, UsageFacts DEF CallsInUse
    <2>2. o \in Ops
      BY <1>o, <2>1
    <2>3. /\ RingTypeOK'
          /\ xTasksWaitingToSend' \subseteq Tasks /\ xTasksWaitingToReceive' \subseteq Tasks
          /\ pc' \in [Tasks -> Labels] /\ result' \in [Clients -> Results]
          /\ \E l \in {"idle", "lock"} : pc' = [pc EXCEPT ![t] = l]
      BY <1>0, <1>6, <2>2, TopTypes DEF Call
    <2>4. TypeOK'
      BY <1>0, <1>n, <1>6, <2>2, <2>3 DEF Call, TypeOK, RingTypeOK, lockVars
    <2>. QED
      BY <1>0, <1>n, <1>6, <2>1, <2>3, <2>4
         DEF Call, TypeOK, CallsInUse, lockVars, SuspenderRight, SuspendedLabels, LockIsHeld
  <1>. QED
    BY <1>u, <1>1, <1>2, <1>3, <1>4, <1>5, <1>6 DEF Next

\* Every variable of a queue keeps its type and range.
THEOREM QueueTypesCorrect == Spec => []TypeOK
  BY QueueInit, QueueStep, PTL DEF Spec, QueueInv

\* The queue is locked only while the call that locked it holds the scheduler
\* suspended (prvLockQueue, prvUnlockQueue).
THEOREM LockIsHeldCorrect == Spec => []LockIsHeld
  BY QueueInit, QueueStep, PTL DEF Spec, QueueInv
-----------------------------------------------------------------------------
\* Time-outs.

\* Behind TimeOutsJustified where no delays are aborted: whatever lets a call give
\* up - no block time left, or a time-out it was told of - came from its deadline.
TimeOutRight ==
  \A t \in Tasks :
    /\ ~ucDelayAborted[t]
    /\ \/ pc[t] = "final"
       \/ pc[t] # "idle" /\ op[t].wait = "none"
       \/ pc[t] \in {"place", "unlock_tx", "unlock_rx", "resume"} /\ timedOut[t]
       => expired[t]

LEMMA TimeOutStep ==
  ASSUME \A u \in Usages : ~u.aborts
  PROVE  QueueInv /\ TimeOutRight /\ [Next]_vars
         => /\ TimeOutRight'
            /\ \A t \in Tasks :
                 pc[t] # "idle" /\ pc'[t] = "idle" /\ result'[t] \in {"full", "empty"}
                 => expired[t]
  <1>. SUFFICES ASSUME QueueInv, TimeOutRight, [Next]_vars
                PROVE  /\ TimeOutRight'
                       /\ \A t \in Tasks :
                            pc[t] # "idle" /\ pc'[t] = "idle" /\ result'[t] \in {"full", "empty"}
                            => expired[t]
    OBVIOUS
  <1>. DEFINE Justified(t) ==
         pc[t] # "idle" /\ pc'[t] = "idle" /\ result'[t] \in {"full", "empty"} => expired[t]
  <1>0. /\ RingTypeOK /\ TypeOK /\ ~Aborts
        /\ \A t \in Tasks : t # "isr" /\ t \in Clients
        /\ \A i \in Items : i \notin {"full", "empty"}
    BY QueueAssumption
       DEF QueueInv, TypeOK, RingTypeOK, CallsInUse, Aborts, Clients, QueueAssumption
  <1>. USE DEF TimeOutRight
  <1>1. CASE UNCHANGED vars
    BY <1>1 DEF vars, timeVars, callVars
  <1>2. ASSUME Reset PROVE TimeOutRight' /\ \A t \in Tasks : Justified(t)
    BY <1>2 DEF Reset, timeVars, callVars
  <1>3. ASSUME NEW call, NEW x, ReceiveFromISR \/ SendFromISR(call, x)
        PROVE  TimeOutRight' /\ \A t \in Tasks : Justified(t)
    BY <1>3 DEF ReceiveFromISR, SendFromISR, timeVars
  <1>4. ASSUME NEW t \in Tasks, NEW o \in Ops, pc[t] \in {"idle", "top"},
               Succeed(t, o) \/ Fail(t, o), ucDelayAborted' = ucDelayAborted,
               \A u \in Tasks \ {t} : op'[u] = op[u] /\ expired'[u] = expired[u],
               op'[t] = o, timedOut' = timedOut,
               pc[t] = "top" => o = op[t] /\ expired'[t] = expired[t]
        PROVE  TimeOutRight' /\ \A u \in Tasks : Justified(u)
    <2>1. \A u \in Tasks \ {t} : pc'[u] = pc[u]
      BY <1>0, <1>4 DEF Succeed, Fail, TypeOK
    <2>2. CASE Fail(t, o)
      <3>1. pc'[t] = IF o.wait = "none" THEN "idle" ELSE "lock"
        BY <1>0, <2>2 DEF Fail, TypeOK
      <3>2. pc[t] = "top" /\ o.wait = "none" => expired[t]
        BY <1>4
      <3>. QED
        BY <1>4, <2>1, <3>1, <3>2
    <2>3. CASE Succeed(t, o)
      <3>1. pc'[t] = "idle"
        BY <1>0, <2>3 DEF Succeed, TypeOK
      <3>2. NextItem \in Items
        BY <1>0, SlotFacts DEF NextItem, RingTypeOK
      <3>3. result'[t] \notin {"full", "empty"}
        BY <1>0, <2>3, <3>2 DEF Succeed, Return, TypeOK
      <3>. QED
        BY <1>4, <2>1, <3>1, <3>3
    <2>. QED
      BY <1>4, <2>2, <2>3
  <1>5. ASSUME NEW t \in Tasks, Continue(t)
        PROVE  TimeOutRight' /\ \A u \in Tasks : Justified(u)
    <2>. USE DEF Step
    <2>1. CASE Retry(t)
      <3>1. op[t] \in Ops
        BY <1>0 DEF TypeOK
      <3>. QED
        BY <2>1, <1>4, <3>1 DEF Retry, timeVars
    <2>2. CASE LockQueue(t) \/ Place(t) \/ UnlockTx(t) \/ UnlockRx(t)
      BY <1>0, <2>2 DEF LockQueue, Place, UnlockTx, UnlockRx, timeVars, TypeOK
    <2>3. CASE Check(t)
      <3>1. \A u \in Tasks \ {t} : op'[u] = op[u] /\ pc'[u] = pc[u] /\ timedOut'[u] = timedOut[u]
        BY <1>0, <2>3 DEF Check, TypeOK
      <3>2. /\ pc[t] = "check" /\ pc'[t] \in {"unlock_tx", "place"}
            /\ timedOut'[t] = IsTimeOut(t) /\ ucDelayAborted' = [ucDelayAborted EXCEPT ![t] = FALSE]
            /\ expired' = expired
        BY <1>0, <2>3 DEF Check, TypeOK
      <3>3. IsTimeOut(t) <=> op[t].wait = "finite" /\ expired[t]
        BY DEF IsTimeOut
      <3>4. op'[t].wait = "none" => op[t].wait = "none" \/ expired[t]
        BY <1>0, <2>3, <3>3 DEF Check
      <3>. QED
        BY <1>0, <3>1, <3>2, <3>3, <3>4 DEF TypeOK
    <2>4. CASE Resume(t) \/ Final(t)
      BY <1>0, <2>4 DEF Resume, Final, timeVars, TypeOK
    <2>. QED
      BY <1>5, <2>1, <2>2, <2>3, <2>4 DEF Continue
  <1>6. ASSUME NEW t \in Tasks, Expire(t) \/ AbortDelay(t)
        PROVE  TimeOutRight' /\ \A u \in Tasks : Justified(u)
    BY <1>0, <1>6 DEF Expire, AbortDelay, callVars, TypeOK
  <1>7. ASSUME NEW t \in Tasks, NEW o \in [call : Calls, item : usage.items, wait : Waits],
               Call(t, o)
        PROVE  TimeOutRight' /\ \A u \in Tasks : Justified(u)
    <2>1. o \in Ops
      BY UsageFacts DEF QueueInv, CallsInUse, Ops
    <2>. QED
      BY <1>0, <1>7, <2>1, <1>4 DEF Call, TypeOK
  <1>. QED
    BY <1>1, <1>2, <1>3, <1>5, <1>6, <1>7 DEF Next

\* Where xTaskAbortDelay() is not used on waiting tasks, a call that was ready to
\* wait reports a full or empty queue only when its block time has passed.  (With
\* it, a later call can: see the run that expects a violation.)
THEOREM TimeOutsCorrect ==
  ASSUME \A u \in Usages : ~u.aborts
  PROVE  Spec => TimeOutsJustified
  <1>1. Init => TimeOutRight
    BY DEF Init, TimeOutRight
  <1>2. QueueInv /\ TimeOutRight /\ [Next]_vars
        => [\A t \in Tasks :
              pc[t] # "idle" /\ pc'[t] = "idle" /\ result'[t] \in {"full", "empty"}
              => expired[t] \/ aborted[t]]_vars
    BY TimeOutStep
  <1>. QED
    BY <1>1, <1>2, QueueInit, QueueStep, TimeOutStep, PTL DEF Spec, TimeOutsJustified
-----------------------------------------------------------------------------
\* The ring buffer as a sequence.

\* Slot i of the storage area, counted on past its end.
InRing(i) ==
  IF i < Length THEN i ELSE IF i < 2 * Length THEN i - Length ELSE i - 2 * Length

\* The two cursors are as far apart as there are items between them.
RingRight == pcWriteTo = InRing(pcReadFrom + 1 + uxMessagesWaiting)

\* The i-th item of the queue, i slots after the one received last.
Cell(s, i) == IF s + i >= Length THEN s + i - Length ELSE s + i
ItemAt(i)  == pcHead[Cell(pcReadFrom, i)]

LEMMA CellFacts ==
  ASSUME NEW s \in Slots, NEW i \in 1 .. Length
  PROVE  Cell(s, i) \in Slots
  BY QueueAssumption DEF QueueAssumption, Slots, Cell

LEMMA ContentsFacts ==
  ASSUME RingTypeOK
  PROVE  /\ Contents \in Seq(Items)
         /\ Len(Contents) = uxMessagesWaiting
         /\ \A i \in 1 .. uxMessagesWaiting : Contents[i] = ItemAt(i)
  <1>1. uxMessagesWaiting \in Nat /\ 1 .. uxMessagesWaiting \subseteq 1 .. Length
    BY QueueAssumption DEF QueueAssumption, RingTypeOK
  <1>2. \A i \in 1 .. uxMessagesWaiting : ItemAt(i) \in Items
    BY <1>1, CellFacts DEF RingTypeOK, ItemAt
  <1>3. Contents = [i \in 1 .. uxMessagesWaiting |-> ItemAt(i)]
    BY DEF Contents, ItemAt, Cell
  <1>4. Contents \in [1 .. uxMessagesWaiting -> Items]
    BY <1>2, <1>3
  <1>. QED
    BY <1>1, <1>3, <1>4, SeqDef

\* The same of the next state.
LEMMA ContentsFactsNext ==
  ASSUME RingTypeOK'
  PROVE  /\ Contents' \in Seq(Items)
         /\ Len(Contents') = uxMessagesWaiting'
         /\ \A i \in 1 .. uxMessagesWaiting' : (Contents')[i] = ItemAt(i)'
  <1>1. uxMessagesWaiting' \in Nat /\ 1 .. uxMessagesWaiting' \subseteq 1 .. Length
    BY QueueAssumption DEF QueueAssumption, RingTypeOK
  <1>2. \A i \in 1 .. uxMessagesWaiting' : ItemAt(i)' \in Items
    BY <1>1, CellFacts DEF RingTypeOK, ItemAt, Cell
  <1>3. Contents' = [i \in 1 .. uxMessagesWaiting' |-> ItemAt(i)']
    BY DEF Contents, ItemAt, Cell
  <1>4. Contents' \in [1 .. uxMessagesWaiting' -> Items]
    BY <1>2, <1>3
  <1>. QED
    BY <1>1, <1>3, <1>4, SeqDef

\* Sending to the back appends,
LEMMA SendBackAppends ==
  ASSUME RingTypeOK, RingRight, NEW x \in Items, uxMessagesWaiting < Length,
         CopyDataToQueue("send_back", x)
  PROVE  Contents' = Append(Contents, x) /\ RingRight'
  <1>. DEFINE n == uxMessagesWaiting
  <1>. USE QueueAssumption DEF QueueAssumption, Slots
  <1>0. /\ n \in Nat /\ n < Length /\ n' = n + 1 /\ pcReadFrom' = pcReadFrom
        /\ pcHead' = [pcHead EXCEPT ![pcWriteTo] = x] /\ pcWriteTo' = SlotAfter(pcWriteTo)
        /\ pcReadFrom \in 0 .. Length - 1 /\ pcWriteTo \in 0 .. Length - 1
        /\ pcHead \in [0 .. Length - 1 -> Items]
    BY DEF RingTypeOK, CopyDataToQueue, CountAfterSend
  <1>1. RingTypeOK'
    BY CopyInTypes DEF Sends, HasRoom
  <1>2. RingRight'
    BY <1>0 DEF RingRight, InRing, SlotAfter
  <1>4. ASSUME NEW i \in 1 .. n PROVE ItemAt(i)' = ItemAt(i)
    BY <1>0 DEF RingRight, InRing, ItemAt, Cell
  <1>5. /\ Append(Contents, x) \in Seq(Items) /\ Len(Append(Contents, x)) = n + 1
        /\ \A i \in 1 .. n : Append(Contents, x)[i] = ItemAt(i)
        /\ Append(Contents, x)[n + 1] = x
    BY ContentsFacts, AppendProperties
  <1>6. ASSUME NEW i \in 1 .. n + 1 PROVE (Contents')[i] = Append(Contents, x)[i]
    <2>1. (Contents')[i] = ItemAt(i)'
      BY <1>0, <1>1, ContentsFactsNext
    <2>2. CASE i = n + 1
      <3>1. ItemAt(i)' = x
        BY <1>0, <2>2 DEF RingRight, InRing, ItemAt, Cell
      <3>. QED
        BY <1>5, <2>1, <2>2, <3>1
    <2>3. CASE i # n + 1
      <3>1. i \in 1 .. n
        BY <1>0, <2>3
      <3>. QED
        BY <1>4, <1>5, <2>1, <3>1
    <2>. QED
      BY <2>2, <2>3
  <1>7. Contents' = Append(Contents, x)
    BY <1>0, <1>1, <1>5, <1>6, ContentsFactsNext, SeqEqual
  <1>. QED
    BY <1>2, <1>7

\* sending to the front puts the item before the others,
LEMMA SendFrontPrepends ==
  ASSUME RingTypeOK, RingRight, NEW x \in Items, uxMessagesWaiting < Length,
         CopyDataToQueue("send_front", x)
  PROVE  Contents' = <<x>> \o Contents /\ RingRight'
  <1>. DEFINE n == uxMessagesWaiting
  <1>. USE QueueAssumption DEF QueueAssumption, Slots
  <1>0. /\ n \in Nat /\ n < Length /\ n' = n + 1 /\ pcWriteTo' = pcWriteTo
        /\ pcHead' = [pcHead EXCEPT ![pcReadFrom] = x] /\ pcReadFrom' = SlotBefore(pcReadFrom)
        /\ pcReadFrom \in 0 .. Length - 1 /\ pcWriteTo \in 0 .. Length - 1
        /\ pcHead \in [0 .. Length - 1 -> Items]
    BY DEF RingTypeOK, CopyDataToQueue, CountAfterSend
  <1>1. RingTypeOK'
    BY CopyInTypes DEF Sends, HasRoom
  <1>2. RingRight'
    BY <1>0 DEF RingRight, InRing, SlotBefore
  <1>3. ItemAt(1)' = x
    BY <1>0 DEF SlotBefore, ItemAt, Cell
  <1>4. ASSUME NEW i \in 1 .. n PROVE ItemAt(i + 1)' = ItemAt(i)
    <2>. DEFINE c == IF pcReadFrom + i >= Length THEN pcReadFrom + i - Length
                                                 ELSE pcReadFrom + i
    <2>1. c \in 0 .. Length - 1 /\ c # pcReadFrom
      BY <1>0
    <2>2. c = IF pcReadFrom' + (i + 1) >= Length THEN pcReadFrom' + (i + 1) - Length
                                                 ELSE pcReadFrom' + (i + 1)
      BY <1>0 DEF SlotBefore
    <2>3. ItemAt(i + 1)' = pcHead'[c] /\ ItemAt(i) = pcHead[c]
      BY <2>2 DEF ItemAt, Cell
    <2>. QED
      BY <1>0, <2>1, <2>3
  <1>5. /\ <<x>> \o Contents \in Seq(Items) /\ Len(<<x>> \o Contents) = n + 1
        /\ \A i \in 1 .. n + 1 :
             (<<x>> \o Contents)[i] = IF i = 1 THEN x ELSE ItemAt(i - 1)
    <2>1. <<x>> \in Seq(Items) /\ Len(<<x>>) = 1 /\ <<x>>[1] = x
      OBVIOUS
    <2>. QED
      BY <1>0, <2>1, ContentsFacts, ConcatProperties
  <1>6. ASSUME NEW i \in 1 .. n + 1 PROVE (Contents')[i] = (<<x>> \o Contents)[i]
    <2>1. CASE i = 1
      BY <1>0, <1>1, <1>3, <1>5, <2>1, ContentsFactsNext
    <2>2. CASE i # 1
      <3>1. i - 1 \in 1 .. n /\ (i - 1) + 1 = i
        BY <1>0, <2>2
      <3>2. ItemAt(i)' = ItemAt(i - 1)
        BY <1>4, <3>1
      <3>. QED
        BY <1>0, <1>1, <1>5, <2>2, <3>2, ContentsFactsNext
    <2>. QED
      BY <2>1, <2>2
  <1>7. Contents' = <<x>> \o Contents
    BY <1>0, <1>1, <1>5, <1>6, ContentsFactsNext, SeqEqual
  <1>. QED
    BY <1>2, <1>7

\* overwriting replaces the only item,
LEMMA OverwriteReplaces ==
  ASSUME RingTypeOK, RingRight, NEW x \in Items, Length = 1,
         CopyDataToQueue("overwrite", x)
  PROVE  Contents' = <<x>> /\ RingRight'
  <1>1. RingTypeOK'
    BY CopyInTypes DEF Sends, HasRoom
  <1>2. /\ uxMessagesWaiting' = 1 /\ pcWriteTo' = 0 /\ pcReadFrom' = 0 /\ pcReadFrom = 0
        /\ pcHead' = [pcHead EXCEPT ![pcReadFrom] = x] /\ 0 \in DOMAIN pcHead
    BY <1>1 DEF RingTypeOK, Slots, CopyDataToQueue, CountAfterSend
  <1>3. RingRight'
    BY <1>2 DEF RingRight, InRing
  <1>4. ItemAt(1)' = x
    BY <1>2 DEF ItemAt, Cell
  <1>5. <<x>> \in Seq(Items) /\ Len(<<x>>) = 1 /\ <<x>>[1] = x
    OBVIOUS
  <1>6. Contents' = <<x>>
    BY <1>1, <1>2, <1>4, <1>5, ContentsFactsNext, SeqEqual
  <1>. QED
    BY <1>3, <1>6

\* and receiving takes the first.
LEMMA ReceiveTakesFirst ==
  ASSUME RingTypeOK, RingRight, uxMessagesWaiting > 0, CopyDataFromQueue
  PROVE  Contents' = Tail(Contents) /\ RingRight'
  <1>. DEFINE n == uxMessagesWaiting
  <1>. USE QueueAssumption DEF QueueAssumption, Slots
  <1>0. /\ n \in Nat /\ n <= Length /\ n' = n - 1 /\ pcWriteTo' = pcWriteTo
        /\ pcHead' = pcHead /\ pcReadFrom' = SlotAfter(pcReadFrom)
        /\ pcReadFrom \in 0 .. Length - 1 /\ pcWriteTo \in 0 .. Length - 1
    BY DEF RingTypeOK, CopyDataFromQueue
  <1>1. RingTypeOK'
    BY CopyOutTypes
  <1>2. RingRight'
    BY <1>0 DEF RingRight, InRing, SlotAfter
  <1>3. ASSUME NEW i \in 1 .. n - 1 PROVE ItemAt(i)' = ItemAt(i + 1)
    BY <1>0 DEF SlotAfter, ItemAt, Cell
  <1>4. Contents # <<>>
    BY <1>0, ContentsFacts
  <1>5. /\ Tail(Contents) \in Seq(Items) /\ Len(Tail(Contents)) = n - 1
        /\ \A i \in 1 .. n - 1 : Tail(Contents)[i] = ItemAt(i + 1)
    BY <1>0, <1>4, ContentsFacts, HeadTailProperties
  <1>6. \A i \in 1 .. n - 1 : (Contents')[i] = Tail(Contents)[i]
    BY <1>0, <1>1, <1>3, <1>5, ContentsFactsNext
  <1>7. Contents' = Tail(Contents)
    BY <1>0, <1>1, <1>5, <1>6, ContentsFactsNext, SeqEqual
  <1>. QED
    BY <1>2, <1>7

\* The next item to be received is the first of the sequence.
LEMMA NextIsHead ==
  ASSUME RingTypeOK, uxMessagesWaiting > 0
  PROVE  Contents # <<>> /\ Head(Contents) = NextItem
  <1>1. /\ Contents \in Seq(Items) /\ Len(Contents) = uxMessagesWaiting
        /\ Contents[1] = ItemAt(1)
    BY ContentsFacts DEF RingTypeOK
  <1>2. ItemAt(1) = NextItem
    BY QueueAssumption DEF QueueAssumption, RingTypeOK, Slots, ItemAt, Cell, NextItem, SlotAfter
  <1>. QED
    BY <1>1, <1>2
-----------------------------------------------------------------------------
\* The refinement of FrQueueSpec.

\* Only a receive or a peek looks at the queue once more after its time-out.
FinalRight == \A t \in Tasks : pc[t] = "final" => op[t].call \in Receives

\* What the steps of the implementation rely on to be steps of the queue promised.
RefinementInv == QueueInv /\ RingRight /\ FinalRight

\* What unfinished calls have found changes with the call of t only.
LEMMA FoundChanges ==
  ASSUME TypeOK, NEW t \in Tasks, NEW l, pc' = [pc EXCEPT ![t] = l],
         \A u \in Tasks \ {t} : op'[u].call = op[u].call
  PROVE  Found' = [Found EXCEPT ![t] = IF l = "idle" THEN "none" ELSE Refusal(op'[t].call)]
  <1>1. \A u \in Tasks \ {t} : pc'[u] = pc[u] /\ pc'[t] = l /\ t \in Clients
    BY DEF TypeOK, Clients
  <1>2. pc'[t] = l /\ t \in Clients
    BY DEF TypeOK, Clients
  <1>. QED
    BY <1>1, <1>2 DEF Found, Refusal

\* A step that begins and ends inside the call of t changes nothing of it.
LEMMA FoundStays ==
  ASSUME TypeOK, NEW t \in Tasks, pc[t] # "idle", NEW l, l # "idle",
         pc' = [pc EXCEPT ![t] = l], \A u \in Tasks : op'[u].call = op[u].call
  PROVE  Found' = Found
  <1>1. \A u \in Tasks : (pc'[u] = "idle" <=> pc[u] = "idle")
    BY DEF TypeOK
  <1>. QED
    BY <1>1 DEF Found, Refusal

\* The contents are those of the ring buffer.
LEMMA ContentsStay ==
  ASSUME UNCHANGED ringVars
  PROVE  Contents' = Contents /\ (RingRight => RingRight')
  BY DEF ringVars, Contents, RingRight, InRing

\* What a sender and a receiver test is what the queue promised says.
LEMMA FullAndEmpty ==
  ASSUME RingTypeOK
  PROVE  /\ Abstract!IsFull <=> uxMessagesWaiting = Length
         /\ Abstract!IsEmpty <=> uxMessagesWaiting = 0
         /\ uxMessagesWaiting \in Nat /\ uxMessagesWaiting <= Length
  <1>1. /\ Contents \in Seq(Items) /\ Len(Contents) = uxMessagesWaiting
        /\ uxMessagesWaiting \in Nat /\ uxMessagesWaiting <= Length
    BY ContentsFacts, QueueAssumption DEF RingTypeOK, QueueAssumption
  <1>2. Contents = <<>> <=> Len(Contents) = 0
    BY <1>1, EmptySeq
  <1>. QED
    BY <1>1, <1>2 DEF Abstract!IsFull, Abstract!IsEmpty

\* An item is sent, by whomever,
LEMMA SendRefines ==
  ASSUME RingTypeOK, RingRight, NEW c \in Clients, NEW call \in Sends, NEW x \in Items,
         call = "overwrite" => Length = 1, HasRoom(call), CopyDataToQueue(call, x),
         Return(c, "pass"), Found' = [Found EXCEPT ![c] = "none"]
  PROVE  RingRight' /\ Abstract!Next
  <1>1. Abstract!Return(c, "pass")
    BY DEF Return, Abstract!Return
  <1>2. /\ Abstract!IsFull <=> uxMessagesWaiting = Length
        /\ uxMessagesWaiting \in Nat /\ uxMessagesWaiting <= Length /\ Length \in Nat
    BY FullAndEmpty, QueueAssumption DEF QueueAssumption
  <1>3. CASE call = "send_back"
    <2>1. uxMessagesWaiting < Length
      BY <1>3 DEF HasRoom
    <2>2. Contents' = Append(Contents, x) /\ RingRight'
      BY <1>3, <2>1, SendBackAppends
    <2>3. Abstract!SendToBack(c, x)
      BY <1>1, <1>2, <2>1, <2>2 DEF Abstract!SendToBack
    <2>. QED
      BY <2>2, <2>3 DEF Abstract!Next
  <1>4. CASE call = "send_front"
    <2>1. uxMessagesWaiting < Length
      BY <1>4 DEF HasRoom
    <2>2. Contents' = <<x>> \o Contents /\ RingRight'
      BY <1>4, <2>1, SendFrontPrepends
    <2>3. Abstract!SendToFront(c, x)
      BY <1>1, <1>2, <2>1, <2>2 DEF Abstract!SendToFront
    <2>. QED
      BY <2>2, <2>3 DEF Abstract!Next
  <1>5. CASE call = "overwrite"
    <2>1. Contents' = <<x>> /\ RingRight'
      BY <1>5, OverwriteReplaces
    <2>2. Abstract!Overwrite(c, x)
      BY <1>1, <1>5, <2>1 DEF Abstract!Overwrite
    <2>. QED
      BY <2>1, <2>2 DEF Abstract!Next
  <1>. QED
    BY <1>3, <1>4, <1>5 DEF Sends

\* received,
LEMMA ReceiveRefines ==
  ASSUME RingTypeOK, RingRight, NEW c \in Clients, uxMessagesWaiting > 0,
         CopyDataFromQueue, Return(c, NextItem), Found' = [Found EXCEPT ![c] = "none"]
  PROVE  RingRight' /\ Abstract!Next
  <1>1. Contents' = Tail(Contents) /\ RingRight'
    BY ReceiveTakesFirst
  <1>2. Contents # <<>> /\ Head(Contents) = NextItem
    BY NextIsHead
  <1>3. Abstract!Receive(c)
    BY <1>1, <1>2 DEF Abstract!Receive, Abstract!IsEmpty, Abstract!Return, Return
  <1>. QED
    BY <1>1, <1>3 DEF Abstract!Next

\* or looked at.
LEMMA PeekRefines ==
  ASSUME RingTypeOK, RingRight, NEW c \in Clients, uxMessagesWaiting > 0,
         UNCHANGED ringVars, Return(c, NextItem), Found' = [Found EXCEPT ![c] = "none"]
  PROVE  RingRight' /\ Abstract!Next
  <1>1. Contents' = Contents /\ RingRight'
    BY ContentsStay
  <1>2. Contents # <<>> /\ Head(Contents) = NextItem
    BY NextIsHead
  <1>3. Abstract!Peek(c)
    BY <1>1, <1>2 DEF Abstract!Peek, Abstract!IsEmpty, Abstract!Return, Return
  <1>. QED
    BY <1>1, <1>3 DEF Abstract!Next

\* The critical section at the top of a call is one step of the queue promised:
\* the operation, a refusal, or the beginning of a wait.
LEMMA TopRefines ==
  ASSUME TypeOK, CallsInUse, RingRight, NEW t \in Tasks,
         NEW o \in [call : Calls, item : usage.items, wait : BlockTimes],
         Succeed(t, o) \/ Fail(t, o), op'[t] = o, \A u \in Tasks \ {t} : op'[u] = op[u]
  PROVE  RingRight' /\ Abstract!Next
  <1>1. /\ RingTypeOK /\ t \in Clients /\ o.item \in Items
        /\ o.call \in Sends \cup Receives /\ (o.call = "overwrite" => Length = 1)
    BY UsageFacts DEF TypeOK, RingTypeOK, Clients, CallsInUse
  <1>2. CASE Succeed(t, o)
    <2>1. Found' = [Found EXCEPT ![t] = "none"]
      BY <1>2, FoundChanges DEF Succeed
    <2>2. CASE /\ o.call \in Sends
               /\ CopyDataToQueue(o.call, o.item) /\ WakeReceivers(1)
               /\ Return(t, "pass")
      <3>1. HasRoom(o.call)
        BY <1>2, <2>2 DEF Succeed, CanProceed
      <3>. QED
        BY <1>1, <2>1, <2>2, <3>1, SendRefines
    <2>3. CASE /\ o.call = "receive"
               /\ CopyDataFromQueue /\ WakeSenders(1)
               /\ Return(t, NextItem)
      <3>1. uxMessagesWaiting > 0
        BY <1>2, <2>3 DEF Succeed, CanProceed, Sends
      <3>. QED
        BY <1>1, <2>1, <2>3, <3>1, ReceiveRefines
    <2>4. CASE /\ o.call = "peek"
               /\ UNCHANGED ringVars /\ WakeReceivers(1)
               /\ Return(t, NextItem)
      <3>1. uxMessagesWaiting > 0
        BY <1>2, <2>4 DEF Succeed, CanProceed, Sends
      <3>. QED
        BY <1>1, <2>1, <2>4, <3>1, PeekRefines
    <2>. QED
      BY <1>2, <2>2, <2>3, <2>4 DEF Succeed
  <1>3. CASE Fail(t, o)
    <2>1. Contents' = Contents /\ RingRight'
      BY <1>3, ContentsStay DEF Fail
    <2>2. Abstract!Finds(Refusal(o.call)) /\ Refusal(o.call) \in Abstract!Refusals
      <3>1. /\ Abstract!IsFull <=> uxMessagesWaiting = Length
            /\ Abstract!IsEmpty <=> uxMessagesWaiting = 0
            /\ uxMessagesWaiting \in Nat /\ uxMessagesWaiting <= Length /\ Length \in Nat
        BY <1>1, FullAndEmpty, QueueAssumption DEF QueueAssumption
      <3>2. IF o.call \in Sends THEN uxMessagesWaiting = Length ELSE uxMessagesWaiting = 0
        BY <1>3, <3>1 DEF Fail, CanProceed, HasRoom
      <3>. QED
        BY <3>1, <3>2 DEF Abstract!Finds, Refusal, Abstract!Refusals
    <2>3. CASE o.wait = "none"
      <3>1. Found' = [Found EXCEPT ![t] = "none"]
        BY <1>3, <2>3, FoundChanges DEF Fail
      <3>2. Abstract!Refuse(t, Refusal(o.call))
        BY <1>3, <2>1, <2>2, <2>3, <3>1 DEF Fail, Return, Abstract!Refuse, Abstract!Return
      <3>. QED
        BY <1>1, <2>1, <2>2, <3>2 DEF Abstract!Next
    <2>4. CASE o.wait # "none"
      <3>1. pc' = [pc EXCEPT ![t] = "lock"] /\ Return(t, "none")
        BY <1>3, <2>4 DEF Fail
      <3>2. Found' = [Found EXCEPT ![t] = IF "lock" = "idle" THEN "none"
                                                            ELSE Refusal(op'[t].call)]
        BY <3>1, FoundChanges, Zenon
      <3>3. Abstract!Wait(t, Refusal(o.call))
        BY <2>1, <2>2, <3>1, <3>2 DEF Return, Refusal, Abstract!Wait
      <3>. QED
        BY <1>1, <2>1, <2>2, <3>3 DEF Abstract!Next
    <2>. QED
      BY <2>3, <2>4
  <1>. QED
    BY <1>2, <1>3

\* A call that waited gives up with what it had found.
LEMMA GiveUpRefines ==
  ASSUME TypeOK, RingRight, NEW t \in Tasks, pc[t] # "idle",
         pc' = [pc EXCEPT ![t] = "idle"], Return(t, Refusal(op[t].call)),
         op' = op, UNCHANGED ringVars
  PROVE  RingRight' /\ Abstract!Next
  <1>1. Contents' = Contents /\ RingRight'
    BY ContentsStay
  <1>2. Found' = [Found EXCEPT ![t] = "none"]
    BY FoundChanges
  <1>3. t \in Clients /\ Found[t] = Refusal(op[t].call)
    BY DEF Found, Clients
  <1>4. Abstract!GiveUp(t)
    BY <1>1, <1>2, <1>3 DEF Abstract!GiveUp, Abstract!Return, Return, Refusal
  <1>. QED
    BY <1>1, <1>3, <1>4 DEF Abstract!Next

\* A call on its way to look again has only ever been told of a time-out of its own
\* kind: the step from "resume" to "final" is one of a receive or a peek.
LEMMA FinalStep == QueueInv /\ FinalRight /\ [Next]_vars => FinalRight'
  <1>. SUFFICES ASSUME QueueInv, FinalRight, [Next]_vars PROVE FinalRight'
    OBVIOUS
  <1>0. /\ TypeOK /\ CallsInUse
        /\ \A o \in Ops : o.call \in Sends \cup Receives
    BY DEF QueueInv, Ops
  <1>. USE DEF FinalRight
  <1>1. CASE UNCHANGED vars
    BY <1>1 DEF vars, callVars
  <1>2. ASSUME NEW call, NEW x, Reset \/ ReceiveFromISR \/ SendFromISR(call, x)
        PROVE  FinalRight'
    BY <1>2 DEF Reset, ReceiveFromISR, SendFromISR, callVars
  <1>3. ASSUME NEW t \in Tasks, Continue(t) PROVE FinalRight'
    <2>. USE DEF Step, TypeOK
    <2>1. CASE Retry(t)
      <3>1. pc'[t] \in {"idle", "lock"} /\ op' = op /\ \A u \in Tasks \ {t} : pc'[u] = pc[u]
        BY <1>0, <2>1 DEF Retry, Succeed, Fail
      <3>. QED
        BY <3>1
    <2>2. CASE LockQueue(t) \/ Place(t) \/ UnlockTx(t) \/ UnlockRx(t) \/ Final(t)
      BY <1>0, <2>2 DEF LockQueue, Place, UnlockTx, UnlockRx, Final
    <2>3. CASE Check(t)
      <3>1. \A u \in Tasks : op'[u].call = op[u].call
        BY <1>0, <2>3 DEF Check, Ops
      <3>2. pc'[t] \in {"unlock_tx", "place"} /\ \A u \in Tasks \ {t} : pc'[u] = pc[u]
        BY <1>0, <2>3 DEF Check
      <3>. QED
        BY <3>1, <3>2
    <2>4. CASE Resume(t)
      <3>1. op[t].call \in Sends \cup Receives
        BY <1>0
      <3>. QED
        BY <1>0, <2>4, <3>1 DEF Resume
    <2>. QED
      BY <1>3, <2>1, <2>2, <2>3, <2>4 DEF Continue
  <1>4. ASSUME NEW t \in Tasks, Expire(t) \/ AbortDelay(t) PROVE FinalRight'
    BY <1>4 DEF Expire, AbortDelay, callVars
  <1>5. ASSUME NEW t \in Tasks, NEW o, Call(t, o) PROVE FinalRight'
    <2>1. pc'[t] \in {"idle", "lock"}
      BY <1>0, <1>5 DEF Call, Succeed, Fail, TypeOK
    <2>2. \A u \in Tasks \ {t} : pc'[u] = pc[u] /\ op'[u] = op[u]
      BY <1>0, <1>5 DEF Call, Succeed, Fail, TypeOK
    <2>. QED
      BY <2>1, <2>2
  <1>. QED
    BY <1>1, <1>2, <1>3, <1>4, <1>5 DEF Next

\* Every step is a step of the queue promised, or changes nothing of it.
LEMMA RefinementStep ==
  RefinementInv /\ [Next]_vars => RingRight' /\ [Abstract!Next]_(Abstract!vars)
  <1>. SUFFICES ASSUME RefinementInv, [Next]_vars
                PROVE  RingRight' /\ [Abstract!Next]_(Abstract!vars)
    OBVIOUS
  <1>0. /\ TypeOK /\ CallsInUse /\ RingTypeOK /\ RingRight /\ FinalRight /\ "isr" \in Clients
        /\ "isr" \notin Tasks
        /\ \A o \in Ops : o.call \in Sends \cup Receives
    BY QueueAssumption
       DEF RefinementInv, QueueInv, TypeOK, RingTypeOK, Clients, QueueAssumption, Ops
  \* What a stutter is.
  <1>s. ASSUME UNCHANGED ringVars, Found' = Found, result' = result
        PROVE  RingRight' /\ [Abstract!Next]_(Abstract!vars)
    BY <1>0, <1>s, ContentsStay DEF Abstract!vars
  \* Interrupt handlers are no unfinished calls.
  <1>i. ASSUME pc' = pc, op' = op PROVE Found' = Found /\ Found' = [Found EXCEPT !["isr"] = "none"]
    BY <1>0, <1>i DEF Found
  <1>1. CASE UNCHANGED vars
    BY <1>1, <1>s, <1>i DEF vars, callVars
  <1>2. CASE Reset
    <2>1. RingTypeOK' /\ uxMessagesWaiting' = 0
      BY <1>0, <1>2, QueueAssumption DEF Reset, RingTypeOK, Slots, QueueAssumption
    <2>2. Contents' = <<>>
      BY <2>1, ContentsFactsNext, EmptySeq
    <2>3. RingRight'
      BY <1>2, QueueAssumption DEF Reset, RingRight, InRing, QueueAssumption
    <2>4. Abstract!Reset
      BY <1>2, <1>i, <2>2 DEF Reset, callVars, Abstract!Reset
    <2>. QED
      BY <2>3, <2>4 DEF Abstract!Next
  <1>3. CASE ReceiveFromISR
    BY <1>0, <1>3, <1>i, ReceiveRefines DEF ReceiveFromISR
  <1>4. ASSUME NEW call \in Calls \cap Sends, NEW x \in usage.items, SendFromISR(call, x)
        PROVE  RingRight' /\ Abstract!Next
    <2>1. x \in Items /\ (call = "overwrite" => Length = 1)
      BY <1>0, UsageFacts DEF CallsInUse
    <2>. QED
      BY <1>0, <1>4, <1>i, <2>1, SendRefines DEF SendFromISR
  <1>5. ASSUME NEW t \in Tasks, Continue(t) PROVE RingRight' /\ [Abstract!Next]_(Abstract!vars)
    <2>. USE DEF Step
    <2>1. CASE Retry(t)
      <3>1. op[t] \in [call : Calls, item : usage.items, wait : BlockTimes]
        BY <1>0 DEF CallsInUse
      <3>. QED
        BY <1>0, <2>1, <3>1, TopRefines DEF Retry
    <2>2. ASSUME NEW l, l # "idle", pc[t] # "idle", pc' = [pc EXCEPT ![t] = l],
                 UNCHANGED ringVars, result' = result,
                 \A u \in Tasks : op'[u].call = op[u].call
          PROVE  RingRight' /\ [Abstract!Next]_(Abstract!vars)
      <3>1. Found' = Found
        BY <1>0, <2>2, FoundStays
      <3>. QED
        BY <1>s, <2>2, <3>1
    <2>3. CASE LockQueue(t) \/ Place(t) \/ UnlockTx(t) \/ UnlockRx(t)
      <3>1. /\ op' = op /\ result' = result /\ UNCHANGED ringVars /\ pc[t] # "idle"
            /\ \E l \in Labels \ {"idle"} : pc' = [pc EXCEPT ![t] = l]
        BY <2>3 DEF LockQueue, Place, UnlockTx, UnlockRx, Labels
      <3>. QED
        BY <2>2, <3>1
    <2>4. CASE Check(t)
      <3>1. \A u \in Tasks : op'[u].call = op[u].call
        BY <1>0, <2>4 DEF Check, TypeOK, Ops
      <3>2. /\ result' = result /\ UNCHANGED ringVars /\ pc[t] # "idle"
            /\ \E l \in Labels \ {"idle"} : pc' = [pc EXCEPT ![t] = l]
        BY <2>4 DEF Check, Labels
      <3>. QED
        BY <2>2, <3>1, <3>2
    <2>5. CASE Resume(t)
      <3>1. op' = op /\ UNCHANGED ringVars /\ pc[t] # "idle"
        BY <2>5 DEF Resume
      <3>2. CASE timedOut[t] /\ op[t].call \in Sends
        <4>1. pc' = [pc EXCEPT ![t] = "idle"] /\ Return(t, Refusal(op[t].call))
          BY <2>5, <3>2 DEF Resume, Refusal
        <4>. QED
          BY <1>0, <3>1, <4>1, GiveUpRefines
      <3>3. CASE ~(timedOut[t] /\ op[t].call \in Sends)
        <4>1. result' = result /\ \E l \in Labels \ {"idle"} : pc' = [pc EXCEPT ![t] = l]
          BY <2>5, <3>3 DEF Resume, Labels
        <4>. QED
          BY <2>2, <3>1, <4>1
      <3>. QED
        BY <3>2, <3>3
    <2>6. CASE Final(t)
      <3>1. op' = op /\ UNCHANGED ringVars /\ pc[t] # "idle" /\ pc[t] = "final"
        BY <2>6 DEF Final
      <3>2. CASE uxMessagesWaiting = 0
        <4>1. Refusal(op[t].call) = "empty"
          BY <1>0, <3>1 DEF FinalRight, Refusal, Sends, Receives
        <4>2. pc' = [pc EXCEPT ![t] = "idle"] /\ Return(t, Refusal(op[t].call))
          BY <2>6, <3>2, <4>1 DEF Final
        <4>. QED
          BY <1>0, <3>1, <4>2, GiveUpRefines
      <3>3. CASE uxMessagesWaiting # 0
        <4>1. result' = result /\ \E l \in Labels \ {"idle"} : pc' = [pc EXCEPT ![t] = l]
          BY <2>6, <3>3 DEF Final, Labels
        <4>. QED
          BY <2>2, <3>1, <4>1
      <3>. QED
        BY <3>2, <3>3
    <2>. QED
      BY <1>5, <2>1, <2>3, <2>4, <2>5, <2>6 DEF Continue
  <1>6. ASSUME NEW t \in Tasks, Expire(t) \/ AbortDelay(t)
        PROVE  RingRight' /\ [Abstract!Next]_(Abstract!vars)
    BY <1>6, <1>s, <1>i DEF Expire, AbortDelay, callVars
  <1>7. ASSUME NEW t \in Tasks, NEW o \in [call : Calls, item : usage.items, wait : Waits],
               Call(t, o)
        PROVE  RingRight' /\ Abstract!Next
    <2>1. o \in [call : Calls, item : usage.items, wait : BlockTimes]
      BY <1>0, UsageFacts DEF CallsInUse
    <2>2. op'[t] = o /\ \A u \in Tasks \ {t} : op'[u] = op[u]
      BY <1>0, <1>7 DEF Call, TypeOK
    <2>. QED
      BY <1>0, <1>7, <2>1, <2>2, TopRefines DEF Call
  <1>. QED
    BY <1>1, <1>2, <1>3, <1>4, <1>5, <1>6, <1>7 DEF Next

\* The queue of queue.c is the queue promised: for any number of tasks, slots and
\* items, whatever calls and interrupt handlers interleave, every call takes effect
\* at once, in the order of the ring buffer and exactly once, and a refusal was true
\* at some moment of the call.
THEOREM QueueRefines == Spec => IsQueue
  <1>1. Init => RefinementInv /\ Abstract!Init
    <2>. SUFFICES ASSUME Init PROVE RefinementInv /\ Abstract!Init
      OBVIOUS
    <2>1. QueueInv
      BY QueueInit
    <2>2. RingRight
      BY QueueAssumption DEF QueueAssumption, Init, RingRight, InRing
    <2>3. FinalRight
      BY DEF Init, FinalRight
    <2>4. RingTypeOK /\ uxMessagesWaiting = 0
      BY <2>1 DEF QueueInv, TypeOK, RingTypeOK, Init
    <2>5. Contents = <<>>
      BY <2>4, ContentsFacts, EmptySeq
    <2>6. Found = [c \in Clients |-> "none"] /\ result = [c \in Clients |-> "none"]
      BY DEF Init, Found
    <2>. QED
      BY <2>1, <2>2, <2>3, <2>5, <2>6 DEF RefinementInv, Abstract!Init
  <1>2. RefinementInv /\ [Next]_vars => RefinementInv' /\ [Abstract!Next]_(Abstract!vars)
    BY QueueStep, FinalStep, RefinementStep DEF RefinementInv
  <1>. QED
    BY <1>1, <1>2, PTL DEF Spec, IsQueue, Abstract!Spec
-----------------------------------------------------------------------------
\* No lost wake-up.

\* Positive part of a lock count: the wake-ups it owes.
Owed(lock) == IF lock > 0 THEN lock ELSE 0

\* Who waits waits for the right thing, and is going to look again.
WaitersRight ==
  /\ \A t \in xTasksWaitingToSend : op[t].call \in Sends
  /\ \A t \in xTasksWaitingToReceive : op[t].call \in Receives
  /\ \A t \in Waiting : \/ pc[t] = "top"
                        \/ pc[t] \in {"unlock_tx", "unlock_rx", "resume"} /\ ~timedOut[t]

\* The converse of LockIsHeld: handlers find the queue locked until the call that
\* locked it has looked at the count.
LockIsTaken ==
  \A t \in Tasks :
    /\ pc[t] \in {"check", "place", "unlock_tx"} => cTxLock >= 0
    /\ pc[t] \in {"check", "place", "unlock_tx", "unlock_rx"} => cRxLock >= 0

\* What happened to the queue since the call found that it must wait is noted.
PlaceCovered ==
  \A t \in Tasks : pc[t] = "place" =>
    /\ ~timedOut[t]
    /\ IF op[t].call \in Sends THEN Length - uxMessagesWaiting <= Owed(cRxLock)
                               ELSE uxMessagesWaiting <= Owed(cTxLock)

\* The invariant behind WaitersCovered.
CoverInv ==
  /\ WaitersRight /\ LockIsTaken /\ PlaceCovered
  /\ ReceiversCovered /\ (~Resets => SendersCovered)

\* Waking n tasks of a waiting list takes n out of it, or leaves none.
LEMMA WakeUpFacts ==
  ASSUME NEW n \in Nat, NEW W \in SUBSET Tasks, NEW L, WakeUp(n, W, L)
  PROVE  L \subseteq W /\ (L # {} => Cardinality(W \ L) = n)
  <1>1. IsFiniteSet(W)
    BY QueueAssumption, FS_Subset DEF QueueAssumption
  <1>2. PICK gone \in SUBSET W :
          /\ L = W \ gone
          /\ Cardinality(gone) = IF n < Cardinality(W) THEN n ELSE Cardinality(W)
    BY DEF WakeUp
  <1>3. gone = W \ L
    BY <1>2
  <1>4. L # {} => Cardinality(gone) # Cardinality(W)
    BY <1>1, <1>2, FS_Subset
  <1>. QED
    BY <1>2, <1>3, <1>4

\* A set that keeps all of another but what is in T, one element at most, and gains
\* those of a third.
LEMMA CardinalityGrows ==
  ASSUME NEW R \in SUBSET Tasks, NEW R2 \in SUBSET Tasks, NEW G \in SUBSET Tasks,
         NEW T, T = {} \/ \E t : T = {t}, R \cap G = {}, R \ T \subseteq R2, G \subseteq R2
  PROVE  /\ Cardinality(R) \in Nat /\ Cardinality(R2) \in Nat /\ Cardinality(G) \in Nat
         /\ Cardinality(R) + Cardinality(G) <= Cardinality(R2) + (IF T = {} THEN 0 ELSE 1)
  <1>1. IsFiniteSet(R) /\ IsFiniteSet(R2) /\ IsFiniteSet(G)
    BY QueueAssumption, FS_Subset DEF QueueAssumption
  <1>2. /\ Cardinality(R) \in Nat /\ Cardinality(R2) \in Nat /\ Cardinality(G) \in Nat
    BY <1>1, FS_CardinalityType
  <1>3. IsFiniteSet(R \cup G) /\ Cardinality(R \cup G) = Cardinality(R) + Cardinality(G)
    <2>1. Cardinality(R \cap G) = 0
      BY FS_EmptySet
    <2>2. Cardinality(R \cup G) = Cardinality(R) + Cardinality(G) - Cardinality(R \cap G)
      BY <1>1, FS_Union
    <2>3. IsFiniteSet(R \cup G)
      BY <1>1, FS_Union
    <2>. QED
      BY <1>2, <2>1, <2>2, <2>3
  <1>4. CASE T = {}
    <2>1. R \cup G \in SUBSET R2
      BY <1>4
    <2>2. Cardinality(R \cup G) <= Cardinality(R2)
      BY <1>1, <2>1, FS_Subset
    <2>. QED
      BY <1>2, <1>3, <1>4, <2>2
  <1>5. ASSUME NEW t, T = {t} PROVE Cardinality(R) + Cardinality(G) <= Cardinality(R2) + 1
    <2>1. R \cup G \in SUBSET (R2 \cup {t})
      BY <1>5
    <2>2. IsFiniteSet(R2 \cup {t}) /\ Cardinality(R2 \cup {t}) <= Cardinality(R2) + 1
      BY <1>1, <1>2, FS_AddElement
    <2>3. Cardinality(R \cup G) <= Cardinality(R2 \cup {t})
      BY <2>1, <2>2, FS_Subset
    <2>4. Cardinality(R2 \cup {t}) \in Nat
      BY <2>2, FS_CardinalityType
    <2>. QED
      BY <1>2, <1>3, <2>2, <2>3, <2>4
  <1>. QED
    BY <1>2, <1>4, <1>5

\* The argument of every step, for receivers and senders alike: R and R2 are the
\* returning tasks before and after it, W and W2 those that wait, owed and owed2 the
\* wake-ups a lock owes, need and need2 what there is to take; n tasks were woken,
\* and the one in T is done.
Moves(R, R2, W, W2, owed, owed2, need, need2, n, T) ==
  /\ T = {} \/ \E t : T = {t}
  /\ R \ T \subseteq R2
  /\ W2 \subseteq W /\ W \ W2 \subseteq R2
  /\ W2 # {} => Cardinality(W \ W2) >= n
  /\ need2 + owed + (IF T = {} THEN 0 ELSE 1) <= need + owed2 + n

LEMMA MovesCover ==
  ASSUME NEW R \in SUBSET Tasks, NEW R2 \in SUBSET Tasks,
         NEW W \in SUBSET Tasks, NEW W2 \in SUBSET Tasks,
         NEW owed \in Nat, NEW owed2 \in Nat, NEW need \in Int, NEW need2 \in Int,
         NEW n \in Nat, NEW T, R \cap W = {},
         Moves(R, R2, W, W2, owed, owed2, need, need2, n, T),
         W # {} => need <= Cardinality(R) + owed
  PROVE  W2 # {} => need2 <= Cardinality(R2) + owed2
  <1>. SUFFICES ASSUME W2 # {} PROVE need2 <= Cardinality(R2) + owed2
    OBVIOUS
  <1>. USE DEF Moves
  <1>. DEFINE G == W \ W2
  <1>1. G \in SUBSET Tasks /\ R \cap G = {} /\ G \subseteq R2
    OBVIOUS
  <1>2. /\ Cardinality(R) \in Nat /\ Cardinality(R2) \in Nat /\ Cardinality(G) \in Nat
        /\ Cardinality(R) + Cardinality(G) <= Cardinality(R2) + (IF T = {} THEN 0 ELSE 1)
    BY <1>1, CardinalityGrows
  <1>3. /\ Cardinality(G) >= n /\ need <= Cardinality(R) + owed
        /\ need2 + owed + (IF T = {} THEN 0 ELSE 1) <= need + owed2 + n
    OBVIOUS
  <1>. HIDE DEF Moves
  <1>4. CASE T = {}
    BY <1>2, <1>3, <1>4
  <1>5. CASE T # {}
    BY <1>2, <1>3, <1>5
  <1>. QED
    BY <1>4, <1>5

\* What the critical section at the top of a call does to the waiting lists.
LEMMA TopWaits ==
  ASSUME NEW t, NEW o, Succeed(t, o) \/ Fail(t, o)
  PROVE  /\ xTasksWaitingToSend' \subseteq xTasksWaitingToSend
         /\ xTasksWaitingToReceive' \subseteq xTasksWaitingToReceive
         /\ \E l \in {"idle", "lock"} : pc' = [pc EXCEPT ![t] = l]
  BY WakeTypes DEF Succeed, Fail, waitVars

\* The first three conjuncts of CoverInv are inductive with QueueInv.
LEMMA WaitersStep ==
  QueueInv /\ WaitersRight /\ LockIsTaken /\ PlaceCovered /\ [Next]_vars
  => WaitersRight' /\ LockIsTaken' /\ PlaceCovered'
  <1>. DEFINE Goal == WaitersRight' /\ LockIsTaken' /\ PlaceCovered'
  <1>. SUFFICES ASSUME QueueInv, WaitersRight, LockIsTaken, PlaceCovered, [Next]_vars
                PROVE  Goal
    OBVIOUS
  <1>0. /\ TypeOK /\ CallsInUse /\ SuspenderRight /\ NoTask \notin Tasks
        /\ uxMessagesWaiting \in Nat /\ uxMessagesWaiting <= Length /\ Length \in Nat
        /\ cTxLock \in Int /\ cRxLock \in Int /\ cTxLock >= -1 /\ cRxLock >= -1
        /\ Waiting \subseteq Tasks
        /\ \A o \in Ops : o.call \in Sends \cup Receives
        /\ xTasksWaitingToSend \subseteq Waiting /\ xTasksWaitingToReceive \subseteq Waiting
        /\ pc \in [Tasks -> Labels]
    BY QueueAssumption, UsageFacts
       DEF QueueInv, CallsInUse, TypeOK, QueueAssumption, queueUNLOCKED, Waiting, Ops
  <1>. USE DEF queueUNLOCKED, queueLOCKED_UNMODIFIED
  <1>1. CASE UNCHANGED vars
    BY <1>1 DEF vars, ringVars, lockVars, waitVars, timeVars, callVars, WaitersRight,
       LockIsTaken, PlaceCovered, Waiting
  \* Steps that only take tasks out of waiting lists, move t between labels outside
  \* the suspension, and leave the locks alone.
  <1>a. ASSUME NEW t \in Tasks, CanRun(t), pc[t] \notin SuspendedLabels,
               NEW l \in {"idle", "lock", "top"}, pc' = [pc EXCEPT ![t] = l],
               xTasksWaitingToSend' \subseteq xTasksWaitingToSend,
               xTasksWaitingToReceive' \subseteq xTasksWaitingToReceive,
               t \notin Waiting, UNCHANGED lockVars, timedOut' = timedOut,
               \A u \in Tasks \ {t} : op'[u] = op[u]
        PROVE  Goal
    <2>1. Waiting' \subseteq Waiting
      BY <1>a DEF Waiting
    <2>2. \A u \in Tasks \ {t} : pc'[u] = pc[u] /\ op'[u] = op[u]
      BY <1>0, <1>a
    <2>3. WaitersRight'
      BY <1>0, <1>a, <2>1, <2>2 DEF WaitersRight
    <2>4. pc'[t] \notin SuspendedLabels
      BY <1>0, <1>a DEF SuspendedLabels
    <2>5. \A u \in Tasks : pc'[u] \notin SuspendedLabels
      BY <1>0, <1>a, <2>2, <2>4 DEF SuspenderRight, CanRun
    <2>. QED
      BY <2>3, <2>5 DEF LockIsTaken, PlaceCovered, SuspendedLabels
  <1>2. CASE Reset
    <2>1. \A u \in Tasks : pc'[u] = pc[u] /\ pc[u] \notin SuspendedLabels
      BY <1>0, <1>2 DEF Reset, callVars, SuspenderRight
    <2>2. /\ xTasksWaitingToSend' \subseteq xTasksWaitingToSend
          /\ xTasksWaitingToReceive' \subseteq xTasksWaitingToReceive
          /\ op' = op /\ timedOut' = timedOut
      BY <1>2, WakeTypes DEF Reset, callVars, timeVars
    <2>3. WaitersRight'
      BY <1>0, <2>1, <2>2 DEF WaitersRight, Waiting
    <2>. QED
      BY <2>1, <2>3 DEF LockIsTaken, PlaceCovered, SuspendedLabels
  <1>3. CASE ReceiveFromISR
    <2>1. /\ xTasksWaitingToSend' \subseteq xTasksWaitingToSend
          /\ xTasksWaitingToReceive' \subseteq xTasksWaitingToReceive
          /\ op' = op /\ timedOut' = timedOut /\ pc' = pc /\ cTxLock' = cTxLock
      BY <1>3, WakeTypes DEF ReceiveFromISR, timeVars, waitVars
    <2>2. WaitersRight'
      BY <1>0, <2>1 DEF WaitersRight, Waiting
    <2>3. /\ cRxLock >= 0 => cRxLock' = cRxLock + 1
          /\ uxMessagesWaiting' = uxMessagesWaiting - 1
      BY <1>3 DEF ReceiveFromISR, CopyDataFromQueue
    <2>4. LockIsTaken'
      BY <1>0, <2>1, <2>3 DEF LockIsTaken
    <2>5. PlaceCovered'
      BY <1>0, <2>1, <2>3 DEF PlaceCovered, LockIsTaken, Owed
    <2>. QED
      BY <2>2, <2>4, <2>5
  <1>4. ASSUME NEW call, NEW x, SendFromISR(call, x) PROVE Goal
    <2>1. /\ xTasksWaitingToSend' \subseteq xTasksWaitingToSend
          /\ xTasksWaitingToReceive' \subseteq xTasksWaitingToReceive
          /\ op' = op /\ timedOut' = timedOut /\ pc' = pc /\ cRxLock' = cRxLock
      BY <1>4, WakeTypes DEF SendFromISR, timeVars, waitVars
    <2>2. WaitersRight'
      BY <1>0, <2>1 DEF WaitersRight, Waiting
    <2>3. /\ cTxLock >= 0 => cTxLock' = cTxLock + 1
          /\ uxMessagesWaiting' \in {uxMessagesWaiting, uxMessagesWaiting + 1}
      BY <1>4 DEF SendFromISR, CopyDataToQueue, CountAfterSend
    <2>4. LockIsTaken'
      BY <1>0, <2>1, <2>3 DEF LockIsTaken
    <2>5. ASSUME NEW u \in Tasks, pc'[u] = "place"
          PROVE  /\ ~timedOut'[u]
                 /\ IF op'[u].call \in Sends THEN Length - uxMessagesWaiting' <= Owed(cRxLock)'
                                             ELSE uxMessagesWaiting' <= Owed(cTxLock)'
      <3>1. /\ cTxLock >= 0 /\ cTxLock' = cTxLock + 1 /\ ~timedOut'[u] /\ op' = op
            /\ Owed(cRxLock)' = Owed(cRxLock) /\ Owed(cRxLock) \in Nat
            /\ Owed(cTxLock) = cTxLock /\ Owed(cTxLock)' = cTxLock + 1
        BY <1>0, <2>1, <2>3, <2>5 DEF PlaceCovered, LockIsTaken, Owed
      <3>2. IF op[u].call \in Sends THEN Length - uxMessagesWaiting <= Owed(cRxLock)
                                    ELSE uxMessagesWaiting <= cTxLock
        BY <2>1, <2>5, <3>1 DEF PlaceCovered
      <3>3. uxMessagesWaiting' = uxMessagesWaiting \/ uxMessagesWaiting' = uxMessagesWaiting + 1
        BY <2>3
      <3>. QED
        BY <1>0, <3>1, <3>2, <3>3
    <2>. QED
      BY <2>2, <2>4, <2>5 DEF PlaceCovered
  <1>5. ASSUME NEW t \in Tasks, Continue(t) PROVE Goal
    <2>. USE DEF Step
    \* Nobody else is inside the suspension.
    <2>0. CanRun(t) => \A u \in Tasks \ {t} : pc[u] \notin SuspendedLabels
      BY <1>0 DEF CanRun, SuspenderRight
    <2>1. CASE Retry(t)
      <3>1. PICK l \in {"idle", "lock"} : pc' = [pc EXCEPT ![t] = l]
        BY <2>1, TopWaits DEF Retry
      <3>. QED
        BY <1>a, <2>1, <3>1, TopWaits DEF Retry, SuspendedLabels, timeVars
    <2>2. CASE LockQueue(t)
      <3>1. /\ pc' = [pc EXCEPT ![t] = "check"] /\ pc[t] = "lock" /\ t \notin Waiting
            /\ cTxLock' >= 0 /\ cRxLock' >= 0 /\ op' = op /\ timedOut' = timedOut
            /\ waitVars' = waitVars /\ CanRun(t)
        BY <1>0, <2>2 DEF LockQueue, timeVars, WaitersRight
      <3>2. \A u \in Tasks \ {t} : pc'[u] = pc[u] /\ pc'[t] = "check"
        BY <1>0, <3>1
      <3>3. WaitersRight'
        BY <1>0, <3>1, <3>2 DEF WaitersRight, Waiting, waitVars
      <3>4. LockIsTaken'
        BY <3>1 DEF LockIsTaken
      <3>5. \A u \in Tasks : pc'[u] # "place"
        BY <1>0, <2>0, <3>1 DEF SuspendedLabels
      <3>. QED
        BY <3>3, <3>4, <3>5 DEF PlaceCovered
    <2>3. CASE Check(t)
      <3>1. /\ pc[t] = "check" /\ t \notin Waiting /\ CanRun(t)
            /\ waitVars' = waitVars /\ lockVars' = lockVars /\ UNCHANGED ringVars
            /\ \A u \in Tasks \ {t} : pc'[u] = pc[u] /\ timedOut'[u] = timedOut[u]
            /\ pc'[t] \in {"unlock_tx", "place"}
            /\ pc'[t] = "place" => ~CanProceed(op[t].call) /\ ~timedOut'[t]
            /\ \A u \in Tasks : op'[u].call = op[u].call
        BY <1>0, <2>3 DEF Check, TypeOK, WaitersRight, Ops
      <3>2. WaitersRight'
        BY <1>0, <3>1 DEF WaitersRight, Waiting, waitVars
      <3>3. LockIsTaken'
        BY <1>0, <3>1 DEF LockIsTaken, lockVars
      <3>4. PlaceCovered'
        <4>1. \A u \in Tasks \ {t} : pc'[u] # "place"
          BY <2>0, <3>1 DEF SuspendedLabels
        <4>2. ASSUME ~CanProceed(op[t].call)
              PROVE  IF op[t].call \in Sends THEN Length - uxMessagesWaiting <= 0
                                             ELSE uxMessagesWaiting <= 0
          BY <1>0, <4>2 DEF CanProceed, HasRoom
        <4>3. cTxLock' = cTxLock /\ cRxLock' = cRxLock /\ uxMessagesWaiting' = uxMessagesWaiting
          BY <3>1 DEF lockVars, ringVars
        <4>. QED
          BY <1>0, <3>1, <4>1, <4>2, <4>3 DEF PlaceCovered, Owed
      <3>. QED
        BY <3>2, <3>3, <3>4
    <2>4. CASE Place(t)
      <3>1. /\ pc[t] = "place" /\ CanRun(t) /\ ~timedOut[t]
            /\ \A u \in Tasks \ {t} : pc'[u] = pc[u]
            /\ pc'[t] = "unlock_tx"
            /\ lockVars' = lockVars /\ op' = op /\ timedOut' = timedOut
        BY <1>0, <2>4 DEF Place, PlaceCovered
      <3>2. /\ xTasksWaitingToSend' \subseteq xTasksWaitingToSend \cup {t}
            /\ xTasksWaitingToReceive' \subseteq xTasksWaitingToReceive \cup {t}
            /\ t \in xTasksWaitingToSend' => op[t].call \in Sends
            /\ t \in xTasksWaitingToReceive' => op[t].call \in Receives
        <4>1. op[t].call \in Sends \cup Receives /\ t \notin Waiting
          BY <1>0, <3>1 DEF TypeOK, WaitersRight
        <4>. QED
          BY <1>0, <2>4, <4>1 DEF Place
      <3>3. WaitersRight'
        BY <1>0, <3>1, <3>2 DEF WaitersRight, Waiting
      <3>4. LockIsTaken'
        BY <3>1 DEF LockIsTaken, lockVars
      <3>5. \A u \in Tasks : pc'[u] # "place"
        BY <2>0, <3>1 DEF SuspendedLabels
      <3>. QED
        BY <3>3, <3>4, <3>5 DEF PlaceCovered
    <2>5. CASE UnlockTx(t)
      <3>1. /\ pc[t] = "unlock_tx" /\ CanRun(t) /\ cRxLock' = cRxLock
            /\ \A u \in Tasks \ {t} : pc'[u] = pc[u]
            /\ pc'[t] = "unlock_rx" /\ op' = op /\ timedOut' = timedOut
            /\ xTasksWaitingToSend' \subseteq xTasksWaitingToSend
            /\ xTasksWaitingToReceive' \subseteq xTasksWaitingToReceive
        BY <1>0, <2>5, WakeTypes DEF UnlockTx, timeVars
      <3>2. WaitersRight'
        BY <1>0, <3>1 DEF WaitersRight, Waiting
      <3>3. \A u \in Tasks : pc'[u] \notin {"check", "place", "unlock_tx"}
        BY <2>0, <3>1 DEF SuspendedLabels
      <3>. QED
        BY <3>1, <3>2, <3>3 DEF LockIsTaken, PlaceCovered
    <2>6. CASE UnlockRx(t)
      <3>1. /\ pc[t] = "unlock_rx" /\ CanRun(t)
            /\ \A u \in Tasks \ {t} : pc'[u] = pc[u]
            /\ pc'[t] = "resume" /\ op' = op /\ timedOut' = timedOut
            /\ xTasksWaitingToSend' \subseteq xTasksWaitingToSend
            /\ xTasksWaitingToReceive' \subseteq xTasksWaitingToReceive
        BY <1>0, <2>6, WakeTypes DEF UnlockRx, timeVars
      <3>2. WaitersRight'
        BY <1>0, <3>1 DEF WaitersRight, Waiting
      <3>3. \A u \in Tasks : pc'[u] \notin {"check", "place", "unlock_tx", "unlock_rx"}
        BY <2>0, <3>1 DEF SuspendedLabels
      <3>. QED
        BY <3>2, <3>3 DEF LockIsTaken, PlaceCovered
    <2>7. CASE Resume(t)
      <3>1. /\ pc[t] = "resume" /\ CanRun(t) /\ waitVars' = waitVars
            /\ \A u \in Tasks \ {t} : pc'[u] = pc[u]
            /\ pc'[t] \in {"top", "idle", "final"} /\ (~timedOut[t] => pc'[t] = "top")
            /\ op' = op /\ timedOut' = timedOut
        BY <1>0, <2>7 DEF Resume, timeVars
      <3>2. WaitersRight'
        BY <1>0, <3>1 DEF WaitersRight, Waiting, waitVars
      <3>3. \A u \in Tasks : pc'[u] \notin SuspendedLabels
        BY <2>0, <3>1 DEF SuspendedLabels
      <3>. QED
        BY <3>2, <3>3 DEF LockIsTaken, PlaceCovered, SuspendedLabels
    <2>8. CASE Final(t)
      <3>1. /\ pc[t] = "final" /\ CanRun(t) /\ waitVars' = waitVars /\ t \notin Waiting
            /\ \A u \in Tasks \ {t} : pc'[u] = pc[u]
            /\ pc'[t] \in {"top", "idle"} /\ op' = op /\ timedOut' = timedOut
        BY <1>0, <2>8 DEF Final, timeVars, WaitersRight
      <3>2. WaitersRight'
        BY <1>0, <3>1 DEF WaitersRight, Waiting, waitVars
      <3>3. \A u \in Tasks : pc'[u] \notin SuspendedLabels
        BY <2>0, <3>1 DEF SuspendedLabels
      <3>. QED
        BY <3>2, <3>3 DEF LockIsTaken, PlaceCovered, SuspendedLabels
    <2>. QED
      BY <1>5, <2>1, <2>2, <2>3, <2>4, <2>5, <2>6, <2>7, <2>8 DEF Continue
  <1>6. ASSUME NEW t \in Tasks, Expire(t) \/ AbortDelay(t) PROVE Goal
    <2>1. /\ op' = op /\ timedOut' = timedOut /\ pc' = pc /\ lockVars' = lockVars
          /\ uxMessagesWaiting' = uxMessagesWaiting
          /\ xTasksWaitingToSend' \subseteq xTasksWaitingToSend
          /\ xTasksWaitingToReceive' \subseteq xTasksWaitingToReceive
      BY <1>6 DEF Expire, AbortDelay, Leave, callVars, ringVars
    <2>2. WaitersRight'
      BY <1>0, <2>1 DEF WaitersRight, Waiting
    <2>. QED
      BY <2>1, <2>2 DEF LockIsTaken, PlaceCovered, lockVars, Owed
  <1>7. ASSUME NEW t \in Tasks, NEW o, Call(t, o) PROVE Goal
    <2>1. PICK l \in {"idle", "lock"} : pc' = [pc EXCEPT ![t] = l]
      BY <1>7, TopWaits DEF Call
    <2>2. t \notin Waiting /\ \A u \in Tasks \ {t} : op'[u] = op[u]
      BY <1>0, <1>7 DEF Call, WaitersRight, TypeOK
    <2>. QED
      BY <1>7, <1>a, <2>1, <2>2, TopWaits DEF Call, SuspendedLabels
  <1>. QED
    BY <1>1, <1>2, <1>3, <1>4, <1>5, <1>6, <1>7 DEF Next

ReceiversMove(n, T) ==
  Moves(Returning(Receives), Returning(Receives)', xTasksWaitingToReceive,
        xTasksWaitingToReceive', Owed(cTxLock), Owed(cTxLock'),
        uxMessagesWaiting, uxMessagesWaiting', n, T)
SendersMove(n, T) ==
  Moves(Returning(Sends), Returning(Sends)', xTasksWaitingToSend, xTasksWaitingToSend',
        Owed(cRxLock), Owed(cRxLock'), Length - uxMessagesWaiting,
        Length - uxMessagesWaiting', n, T)

\* The counts are numbers, and returning tasks do not wait.
LEMMA CountFacts ==
  ASSUME QueueInv
  PROVE  /\ uxMessagesWaiting \in Nat /\ uxMessagesWaiting <= Length /\ Length \in Nat
         /\ cTxLock \in Int /\ cRxLock \in Int /\ cTxLock >= -1 /\ cRxLock >= -1
         /\ Owed(cTxLock) \in Nat /\ Owed(cRxLock) \in Nat
         /\ xTasksWaitingToSend \in SUBSET Tasks /\ xTasksWaitingToReceive \in SUBSET Tasks
         /\ \A calls : /\ Returning(calls) \in SUBSET Tasks
                       /\ Returning(calls) \cap xTasksWaitingToSend = {}
                       /\ Returning(calls) \cap xTasksWaitingToReceive = {}
  BY QueueAssumption, UsageFacts
     DEF QueueInv, CallsInUse, TypeOK, queueUNLOCKED, QueueAssumption, Owed, Returning, Waiting

LEMMA CountFactsNext ==
  ASSUME QueueInv'
  PROVE  /\ uxMessagesWaiting' \in Nat /\ uxMessagesWaiting' <= Length /\ Length \in Nat
         /\ Owed(cTxLock') \in Nat /\ Owed(cRxLock') \in Nat
         /\ xTasksWaitingToSend' \in SUBSET Tasks /\ xTasksWaitingToReceive' \in SUBSET Tasks
         /\ \A calls : Returning(calls)' \in SUBSET Tasks
  BY QueueAssumption, UsageFacts
     DEF QueueInv, CallsInUse, TypeOK, queueUNLOCKED, QueueAssumption, Owed, Returning

LEMMA ReceiversMoveCovers ==
  ASSUME QueueInv, QueueInv', ReceiversCovered, NEW n \in Nat, NEW T, ReceiversMove(n, T)
  PROVE  ReceiversCovered'
  <1>1. Returning(Receives) \cap xTasksWaitingToReceive = {}
    BY CountFacts
  <1>2. xTasksWaitingToReceive # {} =>
          uxMessagesWaiting <= Cardinality(Returning(Receives)) + Owed(cTxLock)
    BY DEF ReceiversCovered, Owed
  <1>3. /\ uxMessagesWaiting \in Int /\ Owed(cTxLock) \in Nat
        /\ xTasksWaitingToReceive \in SUBSET Tasks /\ Returning(Receives) \in SUBSET Tasks
    BY CountFacts
  <1>4. /\ uxMessagesWaiting' \in Int /\ Owed(cTxLock') \in Nat
        /\ xTasksWaitingToReceive' \in SUBSET Tasks /\ Returning(Receives)' \in SUBSET Tasks
    BY CountFactsNext
  <1>5. xTasksWaitingToReceive' # {} =>
          uxMessagesWaiting' <= Cardinality(Returning(Receives)') + Owed(cTxLock')
    BY <1>1, <1>2, <1>3, <1>4, MovesCover DEF ReceiversMove
  <1>. QED
    BY <1>5 DEF ReceiversCovered, Owed

LEMMA SendersMoveCovers ==
  ASSUME QueueInv, QueueInv', SendersCovered, NEW n \in Nat, NEW T, SendersMove(n, T)
  PROVE  SendersCovered'
  <1>1. Returning(Sends) \cap xTasksWaitingToSend = {}
    BY CountFacts
  <1>2. xTasksWaitingToSend # {} =>
          Length - uxMessagesWaiting <= Cardinality(Returning(Sends)) + Owed(cRxLock)
    BY DEF SendersCovered, Owed
  <1>3. /\ Length - uxMessagesWaiting \in Int /\ Owed(cRxLock) \in Nat
        /\ xTasksWaitingToSend \in SUBSET Tasks /\ Returning(Sends) \in SUBSET Tasks
    BY CountFacts
  <1>4. /\ Length - uxMessagesWaiting' \in Int /\ Owed(cRxLock') \in Nat
        /\ xTasksWaitingToSend' \in SUBSET Tasks /\ Returning(Sends)' \in SUBSET Tasks
    BY CountFactsNext
  <1>5. xTasksWaitingToSend' # {} =>
          Length - uxMessagesWaiting' <= Cardinality(Returning(Sends)') + Owed(cRxLock')
    BY <1>1, <1>2, <1>3, <1>4, MovesCover DEF SendersMove
  <1>. QED
    BY <1>5 DEF SendersCovered, Owed

\* Where the tasks other than t stay as they are, those that return still do, and
\* those taken out of a waiting list do too.
LEMMA OthersReturn ==
  ASSUME TypeOK, WaitersRight, NEW t,
         \A u \in Tasks \ {t} : pc'[u] = pc[u] /\ op'[u] = op[u] /\ timedOut'[u] = timedOut[u],
         xTasksWaitingToSend' \subseteq xTasksWaitingToSend \cup {t},
         xTasksWaitingToReceive' \subseteq xTasksWaitingToReceive \cup {t}
  PROVE  /\ \A calls : Returning(calls) \ {t} \subseteq Returning(calls)'
         /\ \A u \in (xTasksWaitingToReceive \ xTasksWaitingToReceive') \ {t} :
              pc[u] # "unlock_tx" => u \in Returning(Receives)'
         /\ \A u \in (xTasksWaitingToSend \ xTasksWaitingToSend') \ {t} :
              pc[u] # "unlock_tx" => u \in Returning(Sends)'
  <1>1. \A calls : Returning(calls) \ {t} \subseteq Returning(calls)'
    BY DEF Returning, Waiting
  <1>2. Sends \cap Receives = {}
    BY DEF Sends, Receives
  <1>3. ASSUME NEW u \in (xTasksWaitingToReceive \ xTasksWaitingToReceive') \ {t},
               pc[u] # "unlock_tx"
        PROVE  u \in Returning(Receives)'
    BY <1>2, <1>3 DEF Returning, Waiting, WaitersRight, TypeOK
  <1>4. ASSUME NEW u \in (xTasksWaitingToSend \ xTasksWaitingToSend') \ {t},
               pc[u] # "unlock_tx"
        PROVE  u \in Returning(Sends)'
    BY <1>2, <1>4 DEF Returning, Waiting, WaitersRight, TypeOK
  <1>. QED
    BY <1>1, <1>3, <1>4

\* A step that wakes n receivers, and one that wakes none.
LEMMA ReceiversWoken ==
  ASSUME QueueInv, QueueInv', ReceiversCovered, NEW n \in Nat, NEW T, T = {} \/ \E t : T = {t},
         WakeUp(n, xTasksWaitingToReceive, xTasksWaitingToReceive'),
         Returning(Receives) \ T \subseteq Returning(Receives)',
         xTasksWaitingToReceive \ xTasksWaitingToReceive' \subseteq Returning(Receives)',
         uxMessagesWaiting' + Owed(cTxLock) + (IF T = {} THEN 0 ELSE 1)
           <= uxMessagesWaiting + Owed(cTxLock') + n
  PROVE  ReceiversCovered'
  <1>1. /\ xTasksWaitingToReceive' \subseteq xTasksWaitingToReceive
        /\ xTasksWaitingToReceive' # {} =>
             Cardinality(xTasksWaitingToReceive \ xTasksWaitingToReceive') = n
    BY CountFacts, WakeUpFacts
  <1>2. ReceiversMove(n, T)
    BY <1>1 DEF ReceiversMove, Moves
  <1>. QED
    BY <1>2, ReceiversMoveCovers

LEMMA ReceiversQuiet ==
  ASSUME QueueInv, QueueInv', ReceiversCovered, NEW T, T = {} \/ \E t : T = {t},
         xTasksWaitingToReceive' \subseteq xTasksWaitingToReceive,
         Returning(Receives) \ T \subseteq Returning(Receives)',
         xTasksWaitingToReceive \ xTasksWaitingToReceive' \subseteq Returning(Receives)',
         uxMessagesWaiting' + Owed(cTxLock) + (IF T = {} THEN 0 ELSE 1)
           <= uxMessagesWaiting + Owed(cTxLock')
  PROVE  ReceiversCovered'
  <1>1. Cardinality(xTasksWaitingToReceive \ xTasksWaitingToReceive') >= 0
    BY CountFacts, QueueAssumption, FS_Subset, FS_CardinalityType DEF QueueAssumption
  <1>2. uxMessagesWaiting' + Owed(cTxLock) + (IF T = {} THEN 0 ELSE 1)
           <= uxMessagesWaiting + Owed(cTxLock') + 0
    BY CountFacts, CountFactsNext
  <1>3. ReceiversMove(0, T)
    BY <1>1, <1>2 DEF ReceiversMove, Moves
  <1>. QED
    BY <1>3, ReceiversMoveCovers

\* The same for senders.
LEMMA SendersWoken ==
  ASSUME QueueInv, QueueInv', SendersCovered, NEW n \in Nat, NEW T, T = {} \/ \E t : T = {t},
         WakeUp(n, xTasksWaitingToSend, xTasksWaitingToSend'),
         Returning(Sends) \ T \subseteq Returning(Sends)',
         xTasksWaitingToSend \ xTasksWaitingToSend' \subseteq Returning(Sends)',
         (Length - uxMessagesWaiting') + Owed(cRxLock) + (IF T = {} THEN 0 ELSE 1)
           <= Length - uxMessagesWaiting + Owed(cRxLock') + n
  PROVE  SendersCovered'
  <1>1. /\ xTasksWaitingToSend' \subseteq xTasksWaitingToSend
        /\ xTasksWaitingToSend' # {} => Cardinality(xTasksWaitingToSend \ xTasksWaitingToSend') = n
    BY CountFacts, WakeUpFacts
  <1>2. xTasksWaitingToSend' # {} =>
          Cardinality(xTasksWaitingToSend \ xTasksWaitingToSend') >= n
    BY <1>1
  <1>3. SendersMove(n, T)
    BY <1>1, <1>2, Zenon DEF SendersMove, Moves
  <1>. QED
    BY <1>3, SendersMoveCovers

LEMMA SendersQuiet ==
  ASSUME QueueInv, QueueInv', SendersCovered, NEW T, T = {} \/ \E t : T = {t},
         xTasksWaitingToSend' \subseteq xTasksWaitingToSend,
         Returning(Sends) \ T \subseteq Returning(Sends)',
         xTasksWaitingToSend \ xTasksWaitingToSend' \subseteq Returning(Sends)',
         (Length - uxMessagesWaiting') + Owed(cRxLock) + (IF T = {} THEN 0 ELSE 1)
           <= Length - uxMessagesWaiting + Owed(cRxLock')
  PROVE  SendersCovered'
  <1>1. Cardinality(xTasksWaitingToSend \ xTasksWaitingToSend') >= 0
    BY CountFacts, QueueAssumption, FS_Subset, FS_CardinalityType DEF QueueAssumption
  <1>2. (Length - uxMessagesWaiting') + Owed(cRxLock) + (IF T = {} THEN 0 ELSE 1)
           <= Length - uxMessagesWaiting + Owed(cRxLock') + 0
    <2>1. Owed(cRxLock) \in Nat /\ Owed(cRxLock') \in Nat /\ Length \in Nat
      BY CountFacts, CountFactsNext
    <2>2. uxMessagesWaiting \in Nat /\ uxMessagesWaiting' \in Nat
      BY CountFacts, CountFactsNext
    <2>. QED
      BY <2>1, <2>2
  <1>3. SendersMove(0, T)
    BY <1>1, <1>2 DEF SendersMove, Moves
  <1>. QED
    BY <1>3, SendersMoveCovers

\* A call at its top: what it takes, or finds missing, its own return stands for.
LEMMA TopCovers ==
  ASSUME QueueInv, QueueInv', WaitersRight, NEW t \in Tasks, NEW o \in Ops,
         CanRun(t), pc[t] \in {"idle", "top"}, pc[t] = "top" => o = op[t], t \notin Waiting,
         o.call = "overwrite" => Length = 1,
         Succeed(t, o) \/ Fail(t, o), UNCHANGED lockVars, timedOut' = timedOut,
         \A u \in Tasks \ {t} : op'[u] = op[u]
  PROVE  /\ ReceiversCovered => ReceiversCovered'
         /\ SendersCovered => SendersCovered'
  <1>0. /\ TypeOK /\ SuspenderRight /\ NoTask \notin Tasks
        /\ pc \in [Tasks -> Labels]
    BY QueueAssumption DEF QueueInv, QueueAssumption, TypeOK
  <1>1. /\ xTasksWaitingToSend' \subseteq xTasksWaitingToSend
        /\ xTasksWaitingToReceive' \subseteq xTasksWaitingToReceive
        /\ \A u \in Tasks \ {t} : pc'[u] = pc[u]
    BY <1>0, TopWaits
  <1>2. \A u \in Tasks : pc[u] # "unlock_tx"
    BY <1>0 DEF SuspenderRight, CanRun, SuspendedLabels
  <1>3. /\ \A calls : Returning(calls) \ {t} \subseteq Returning(calls)'
        /\ xTasksWaitingToReceive \ xTasksWaitingToReceive' \subseteq Returning(Receives)'
        /\ xTasksWaitingToSend \ xTasksWaitingToSend' \subseteq Returning(Sends)'
    <2>1. /\ \A calls : Returning(calls) \ {t} \subseteq Returning(calls)'
          /\ \A u \in (xTasksWaitingToReceive \ xTasksWaitingToReceive') \ {t} :
               pc[u] # "unlock_tx" => u \in Returning(Receives)'
          /\ \A u \in (xTasksWaitingToSend \ xTasksWaitingToSend') \ {t} :
               pc[u] # "unlock_tx" => u \in Returning(Sends)'
      BY <1>0, <1>1, OthersReturn
    <2>. QED
      BY <1>2, <2>1, CountFacts DEF Waiting
  <1>4. \A calls : o.call \notin calls => Returning(calls) \subseteq Returning(calls)'
    <2>1. \A calls : o.call \notin calls => t \notin Returning(calls)
      BY <1>0 DEF Returning
    <2>. QED
      BY <1>3, <2>1
  <1>5. Owed(cTxLock') = Owed(cTxLock) /\ Owed(cRxLock') = Owed(cRxLock)
    BY DEF lockVars
  <1>6. /\ uxMessagesWaiting \in Nat /\ uxMessagesWaiting <= Length /\ Length \in Nat
        /\ Owed(cTxLock) \in Nat /\ Owed(cRxLock) \in Nat /\ uxMessagesWaiting' \in Nat
    BY CountFacts, CountFactsNext
  <1>7. o.call \in Sends \cup Receives /\ Sends \cap Receives = {}
    BY DEF Ops, Sends, Receives
  <1>8. CASE Fail(t, o)
    <2>1. /\ ~CanProceed(o.call) /\ uxMessagesWaiting' = uxMessagesWaiting
          /\ xTasksWaitingToSend' = xTasksWaitingToSend
          /\ xTasksWaitingToReceive' = xTasksWaitingToReceive
      BY <1>8 DEF Fail, ringVars, waitVars
    <2>2. CASE o.call \in Sends
      <3>1. ReceiversCovered => ReceiversCovered'
        <4>1. Returning(Receives) \ {} \subseteq Returning(Receives)'
          BY <1>4, <1>7, <2>2
        <4>2. uxMessagesWaiting' + Owed(cTxLock) + (IF {} = {} THEN 0 ELSE 1)
                <= uxMessagesWaiting + Owed(cTxLock')
          BY <1>5, <1>6, <2>1
        <4>. QED
          BY <1>1, <1>3, <4>1, <4>2, ReceiversQuiet
      <3>2. Length - uxMessagesWaiting' <= 0
        BY <1>6, <2>1, <2>2 DEF CanProceed, HasRoom
      <3>3. Cardinality(Returning(Sends)') \in Nat
        BY CountFactsNext, QueueAssumption, FS_Subset, FS_CardinalityType DEF QueueAssumption
      <3>4. SendersCovered'
        BY <1>5, <1>6, <3>2, <3>3 DEF SendersCovered, Owed
      <3>. QED
        BY <3>1, <3>4
    <2>3. CASE o.call \in Receives
      <3>1. SendersCovered => SendersCovered'
        <4>1. Returning(Sends) \ {} \subseteq Returning(Sends)'
          BY <1>4, <1>7, <2>3
        <4>2. (Length - uxMessagesWaiting') + Owed(cRxLock) + (IF {} = {} THEN 0 ELSE 1)
                <= Length - uxMessagesWaiting + Owed(cRxLock')
          BY <1>5, <1>6, <2>1
        <4>. QED
          BY <1>1, <1>3, <4>1, <4>2, SendersQuiet
      <3>2. uxMessagesWaiting' <= 0
        BY <1>6, <1>7, <2>1, <2>3 DEF CanProceed
      <3>3. Cardinality(Returning(Receives)') \in Nat
        BY CountFactsNext, QueueAssumption, FS_Subset, FS_CardinalityType DEF QueueAssumption
      <3>4. ReceiversCovered'
        BY <1>5, <1>6, <3>2, <3>3 DEF ReceiversCovered, Owed
      <3>. QED
        BY <3>1, <3>4
    <2>. QED
      BY <1>7, <2>2, <2>3
  <1>9. CASE /\ o.call \in Sends /\ CanProceed(o.call)
             /\ CopyDataToQueue(o.call, o.item) /\ WakeReceivers(1)
    <2>1. /\ WakeUp(1, xTasksWaitingToReceive, xTasksWaitingToReceive')
          /\ xTasksWaitingToSend' = xTasksWaitingToSend
      BY <1>9 DEF WakeReceivers
    <2>2. \/ uxMessagesWaiting' = uxMessagesWaiting + 1
          \/ o.call = "overwrite" /\ uxMessagesWaiting' = uxMessagesWaiting /\ uxMessagesWaiting > 0
      BY <1>9 DEF CopyDataToQueue, CountAfterSend
    <2>3. Returning(Receives) \ {} \subseteq Returning(Receives)'
      BY <1>4, <1>7, <1>9
    <2>4. ReceiversCovered => ReceiversCovered'
      <3>1. uxMessagesWaiting' + Owed(cTxLock) + (IF {} = {} THEN 0 ELSE 1)
              <= uxMessagesWaiting + Owed(cTxLock') + 1
        BY <1>5, <1>6, <2>2
      <3>. QED
        BY <1>3, <2>1, <2>3, <3>1, ReceiversWoken
    <2>5. SendersCovered => SendersCovered'
      <3>1. CASE uxMessagesWaiting' = uxMessagesWaiting + 1
        <4>1. (Length - uxMessagesWaiting') + Owed(cRxLock) + (IF {t} = {} THEN 0 ELSE 1)
                <= Length - uxMessagesWaiting + Owed(cRxLock')
          <5>1. (IF {t} = {} THEN 0 ELSE 1) = 1
            OBVIOUS
          <5>. QED
            BY <1>5, <1>6, <3>1, <5>1
        <4>. QED
          BY <1>1, <1>3, <4>1, SendersQuiet
      <3>2. CASE /\ o.call = "overwrite"
                 /\ uxMessagesWaiting' = uxMessagesWaiting /\ uxMessagesWaiting > 0
        <4>1. Length - uxMessagesWaiting' <= 0
          <5>1. Length = 1 /\ uxMessagesWaiting' = uxMessagesWaiting /\ uxMessagesWaiting > 0
            BY <3>2
          <5>. QED
            BY <1>6, <5>1
        <4>2. Cardinality(Returning(Sends)') \in Nat
          BY CountFactsNext, QueueAssumption, FS_Subset, FS_CardinalityType DEF QueueAssumption
        <4>. QED
          BY <1>5, <1>6, <4>1, <4>2 DEF SendersCovered, Owed
      <3>. QED
        BY <2>2, <3>1, <3>2
    <2>. QED
      BY <2>4, <2>5
  <1>10. CASE o.call = "receive" /\ CanProceed(o.call) /\ CopyDataFromQueue /\ WakeSenders(1)
    <2>1. /\ WakeUp(1, xTasksWaitingToSend, xTasksWaitingToSend')
          /\ xTasksWaitingToReceive' = xTasksWaitingToReceive
          /\ uxMessagesWaiting' = uxMessagesWaiting - 1
      BY <1>10 DEF WakeSenders, CopyDataFromQueue
    <2>2. SendersCovered => SendersCovered'
      <3>1. Returning(Sends) \ {} \subseteq Returning(Sends)'
        BY <1>4, <1>10 DEF Sends
      <3>2. (Length - uxMessagesWaiting') + Owed(cRxLock) + (IF {} = {} THEN 0 ELSE 1)
              <= Length - uxMessagesWaiting + Owed(cRxLock') + 1
        BY <1>5, <1>6, <2>1
      <3>. QED
        BY <1>3, <2>1, <3>1, <3>2, SendersWoken
    <2>3. ReceiversCovered => ReceiversCovered'
      <3>1. (IF {t} = {} THEN 0 ELSE 1) = 1
        OBVIOUS
      <3>2. uxMessagesWaiting' + Owed(cTxLock) + (IF {t} = {} THEN 0 ELSE 1)
              <= uxMessagesWaiting + Owed(cTxLock')
        BY <1>5, <1>6, <2>1, <3>1
      <3>. QED
        BY <1>1, <1>3, <3>2, ReceiversQuiet
    <2>. QED
      BY <2>2, <2>3
  <1>11. CASE o.call = "peek" /\ CanProceed(o.call) /\ UNCHANGED ringVars /\ WakeReceivers(1)
    <2>1. /\ WakeUp(1, xTasksWaitingToReceive, xTasksWaitingToReceive')
          /\ xTasksWaitingToSend' = xTasksWaitingToSend
          /\ uxMessagesWaiting' = uxMessagesWaiting
      BY <1>11 DEF WakeReceivers, ringVars
    <2>2. SendersCovered => SendersCovered'
      <3>1. Returning(Sends) \ {} \subseteq Returning(Sends)'
        BY <1>4, <1>11 DEF Sends
      <3>2. (Length - uxMessagesWaiting') + Owed(cRxLock) + (IF {} = {} THEN 0 ELSE 1)
              <= Length - uxMessagesWaiting + Owed(cRxLock')
        BY <1>5, <1>6, <2>1
      <3>. QED
        BY <1>1, <1>3, <3>1, <3>2, SendersQuiet
    <2>3. ReceiversCovered => ReceiversCovered'
      <3>1. (IF {t} = {} THEN 0 ELSE 1) = 1
        OBVIOUS
      <3>2. uxMessagesWaiting' + Owed(cTxLock) + (IF {t} = {} THEN 0 ELSE 1)
              <= uxMessagesWaiting + Owed(cTxLock') + 1
        BY <1>5, <1>6, <2>1, <3>1
      <3>. QED
        BY <1>3, <2>1, <3>2, ReceiversWoken
    <2>. QED
      BY <2>2, <2>3
  <1>. QED
    BY <1>8, <1>9, <1>10, <1>11 DEF Succeed

\* Steps that wake nobody and after which everybody who returned still does, and
\* those that left a waiting list return.
LEMMA QuietCovers ==
  ASSUME QueueInv, QueueInv',
         xTasksWaitingToSend' \subseteq xTasksWaitingToSend,
         xTasksWaitingToReceive' \subseteq xTasksWaitingToReceive,
         \A calls : Returning(calls) \subseteq Returning(calls)',
         xTasksWaitingToReceive \ xTasksWaitingToReceive' \subseteq Returning(Receives)',
         xTasksWaitingToSend \ xTasksWaitingToSend' \subseteq Returning(Sends)',
         uxMessagesWaiting' = uxMessagesWaiting,
         Owed(cTxLock') = Owed(cTxLock), Owed(cRxLock') = Owed(cRxLock)
  PROVE  /\ ReceiversCovered => ReceiversCovered'
         /\ SendersCovered => SendersCovered'
  <1>1. /\ Returning(Receives) \ {} \subseteq Returning(Receives)'
        /\ Returning(Sends) \ {} \subseteq Returning(Sends)'
    OBVIOUS
  <1>2. /\ Owed(cTxLock) \in Nat /\ Owed(cRxLock) \in Nat /\ Length \in Nat
        /\ uxMessagesWaiting \in Nat
    BY CountFacts
  <1>3. uxMessagesWaiting' + Owed(cTxLock) + (IF {} = {} THEN 0 ELSE 1)
          <= uxMessagesWaiting + Owed(cTxLock')
    BY <1>2
  <1>4. (Length - uxMessagesWaiting') + Owed(cRxLock) + (IF {} = {} THEN 0 ELSE 1)
          <= Length - uxMessagesWaiting + Owed(cRxLock')
    BY <1>2
  <1>5. ReceiversCovered => ReceiversCovered'
    BY <1>1, <1>3, ReceiversQuiet
  <1>6. SendersCovered => SendersCovered'
    BY <1>1, <1>4, SendersQuiet
  <1>. QED
    BY <1>5, <1>6

\* A handler's send wakes a receiver or adds to the count of the locked queue.
LEMMA SendISRCovers ==
  ASSUME QueueInv, QueueInv', WaitersRight, LockIsTaken, NEW call, NEW x, SendFromISR(call, x)
  PROVE  /\ ReceiversCovered => ReceiversCovered'
         /\ SendersCovered => SendersCovered'
  <1>0. TypeOK /\ (\A t \in Tasks : pc[t] = "unlock_tx" => cTxLock >= 0)
    BY DEF QueueInv, LockIsTaken
  <1>1. /\ xTasksWaitingToSend' = xTasksWaitingToSend
        /\ xTasksWaitingToReceive' \subseteq xTasksWaitingToReceive
        /\ pc' = pc /\ op' = op /\ timedOut' = timedOut /\ cRxLock' = cRxLock
    BY WakeTypes DEF SendFromISR, timeVars, waitVars, WakeReceivers
  <1>2. /\ \A calls : Returning(calls) \ {NoTask} \subseteq Returning(calls)'
        /\ \A u \in (xTasksWaitingToReceive \ xTasksWaitingToReceive') \ {NoTask} :
             pc[u] # "unlock_tx" => u \in Returning(Receives)'
    BY <1>0, <1>1, OthersReturn
  <1>3. /\ \A calls : Returning(calls) \ {} \subseteq Returning(calls)'
        /\ xTasksWaitingToSend \ xTasksWaitingToSend' \subseteq Returning(Sends)'
    BY <1>1, <1>2, QueueAssumption, CountFacts DEF QueueAssumption
  <1>4. uxMessagesWaiting' = uxMessagesWaiting \/ uxMessagesWaiting' = uxMessagesWaiting + 1
    BY DEF SendFromISR, CopyDataToQueue, CountAfterSend
  <1>5. /\ uxMessagesWaiting \in Nat /\ Length \in Nat /\ cTxLock \in Int /\ cTxLock >= -1
        /\ Owed(cTxLock) \in Nat /\ Owed(cRxLock) \in Nat
    BY CountFacts
  <1>6. SendersCovered => SendersCovered'
    <2>1. (Length - uxMessagesWaiting') + Owed(cRxLock) + (IF {} = {} THEN 0 ELSE 1)
            <= Length - uxMessagesWaiting + Owed(cRxLock')
      BY <1>1, <1>4, <1>5
    <2>. QED
      BY <1>1, <1>3, <2>1, SendersQuiet
  <1>7. CASE cTxLock = queueUNLOCKED
    <2>1. /\ WakeUp(1, xTasksWaitingToReceive, xTasksWaitingToReceive')
          /\ cTxLock' = cTxLock
      BY <1>7 DEF SendFromISR, WakeReceivers
    <2>2. xTasksWaitingToReceive \ xTasksWaitingToReceive' \subseteq Returning(Receives)'
      BY <1>0, <1>2, <1>7, QueueAssumption, CountFacts DEF QueueAssumption, queueUNLOCKED
    <2>3. uxMessagesWaiting' + Owed(cTxLock) + (IF {} = {} THEN 0 ELSE 1)
            <= uxMessagesWaiting + Owed(cTxLock') + 1
      BY <1>4, <1>5, <2>1
    <2>. QED
      BY <1>3, <1>6, <2>1, <2>2, <2>3, ReceiversWoken
  <1>8. CASE cTxLock # queueUNLOCKED
    <2>1. cTxLock' = cTxLock + 1 /\ xTasksWaitingToReceive' = xTasksWaitingToReceive
      BY <1>8 DEF SendFromISR, waitVars
    <2>2. Owed(cTxLock') = Owed(cTxLock) + 1
      BY <1>5, <1>8, <2>1 DEF Owed, queueUNLOCKED
    <2>3. uxMessagesWaiting' + Owed(cTxLock) + (IF {} = {} THEN 0 ELSE 1)
            <= uxMessagesWaiting + Owed(cTxLock')
      BY <1>4, <1>5, <2>2
    <2>. QED
      BY <1>3, <1>6, <2>1, <2>3, ReceiversQuiet
  <1>. QED
    BY <1>7, <1>8

\* And so does its receive, for senders.
LEMMA ReceiveISRCovers ==
  ASSUME QueueInv, QueueInv', WaitersRight, LockIsTaken, ReceiveFromISR
  PROVE  /\ ReceiversCovered => ReceiversCovered'
         /\ SendersCovered => SendersCovered'
  <1>0. TypeOK /\ (\A t \in Tasks : pc[t] = "unlock_tx" => cRxLock >= 0)
    BY DEF QueueInv, LockIsTaken
  <1>1. /\ xTasksWaitingToReceive' = xTasksWaitingToReceive
        /\ xTasksWaitingToSend' \subseteq xTasksWaitingToSend
        /\ pc' = pc /\ op' = op /\ timedOut' = timedOut /\ cTxLock' = cTxLock
    BY WakeTypes DEF ReceiveFromISR, timeVars, waitVars, WakeSenders
  <1>2. /\ \A calls : Returning(calls) \ {NoTask} \subseteq Returning(calls)'
        /\ \A u \in (xTasksWaitingToSend \ xTasksWaitingToSend') \ {NoTask} :
             pc[u] # "unlock_tx" => u \in Returning(Sends)'
    BY <1>0, <1>1, OthersReturn
  <1>3. /\ \A calls : Returning(calls) \ {} \subseteq Returning(calls)'
        /\ xTasksWaitingToReceive \ xTasksWaitingToReceive' \subseteq Returning(Receives)'
    BY <1>1, <1>2, QueueAssumption, CountFacts DEF QueueAssumption
  <1>4. uxMessagesWaiting' = uxMessagesWaiting - 1
    BY DEF ReceiveFromISR, CopyDataFromQueue
  <1>5. /\ uxMessagesWaiting \in Nat /\ Length \in Nat /\ cRxLock \in Int /\ cRxLock >= -1
        /\ Owed(cTxLock) \in Nat /\ Owed(cRxLock) \in Nat
    BY CountFacts
  <1>6. ReceiversCovered => ReceiversCovered'
    <2>1. uxMessagesWaiting' + Owed(cTxLock) + (IF {} = {} THEN 0 ELSE 1)
            <= uxMessagesWaiting + Owed(cTxLock')
      BY <1>1, <1>4, <1>5
    <2>. QED
      BY <1>1, <1>3, <2>1, ReceiversQuiet
  <1>7. CASE cRxLock = queueUNLOCKED
    <2>1. /\ WakeUp(1, xTasksWaitingToSend, xTasksWaitingToSend')
          /\ cRxLock' = cRxLock
      BY <1>7 DEF ReceiveFromISR, WakeSenders
    <2>2. xTasksWaitingToSend \ xTasksWaitingToSend' \subseteq Returning(Sends)'
      BY <1>0, <1>2, <1>7, QueueAssumption, CountFacts DEF QueueAssumption, queueUNLOCKED
    <2>3. (Length - uxMessagesWaiting') + Owed(cRxLock) + (IF {} = {} THEN 0 ELSE 1)
            <= Length - uxMessagesWaiting + Owed(cRxLock') + 1
      BY <1>4, <1>5, <2>1
    <2>. QED
      BY <1>3, <1>6, <2>1, <2>2, <2>3, SendersWoken
  <1>8. CASE cRxLock # queueUNLOCKED
    <2>1. cRxLock' = cRxLock + 1 /\ xTasksWaitingToSend' = xTasksWaitingToSend
      BY <1>8 DEF ReceiveFromISR, waitVars
    <2>2. Owed(cRxLock') = Owed(cRxLock) + 1
      BY <1>5, <1>8, <2>1 DEF Owed, queueUNLOCKED
    <2>3. (Length - uxMessagesWaiting') + Owed(cRxLock) + (IF {} = {} THEN 0 ELSE 1)
            <= Length - uxMessagesWaiting + Owed(cRxLock')
      BY <1>4, <1>5, <2>2
    <2>4. xTasksWaitingToSend \ xTasksWaitingToSend' \subseteq Returning(Sends)'
      BY <2>1
    <2>. QED
      BY <1>3, <1>6, <2>1, <2>3, <2>4, SendersQuiet
  <1>. QED
    BY <1>7, <1>8

\* The first half of prvUnlockQueue() wakes as many receivers as it owes,
LEMMA UnlockTxCovers ==
  ASSUME QueueInv, QueueInv', WaitersRight, NEW t \in Tasks, UnlockTx(t)
  PROVE  /\ ReceiversCovered => ReceiversCovered'
         /\ SendersCovered => SendersCovered'
  <1>0. /\ TypeOK /\ \A u \in Tasks \ {t} : pc[u] # "unlock_tx"
        /\ Sends \cap Receives = {}
    BY QueueAssumption
       DEF QueueInv, SuspenderRight, SuspendedLabels, UnlockTx, Step, Sends, Receives
  <1>1. /\ xTasksWaitingToSend' = xTasksWaitingToSend
        /\ WakeUp(Owed(cTxLock), xTasksWaitingToReceive, xTasksWaitingToReceive')
        /\ cTxLock' = -1 /\ cRxLock' = cRxLock /\ op' = op /\ timedOut' = timedOut
        /\ pc[t] = "unlock_tx" /\ pc'[t] = "unlock_rx" /\ \A u \in Tasks \ {t} : pc'[u] = pc[u]
        /\ uxMessagesWaiting' = uxMessagesWaiting
    BY <1>0 DEF UnlockTx, Step, WakeReceivers, Owed, timeVars, ringVars, queueUNLOCKED, TypeOK
  <1>2. xTasksWaitingToReceive' \subseteq xTasksWaitingToReceive
    BY <1>1 DEF WakeUp
  <1>3. /\ \A calls : Returning(calls) \ {t} \subseteq Returning(calls)'
        /\ \A u \in (xTasksWaitingToReceive \ xTasksWaitingToReceive') \ {t} :
             pc[u] # "unlock_tx" => u \in Returning(Receives)'
    BY <1>0, <1>1, <1>2, OthersReturn
  <1>4. \A calls : Returning(calls) \ {} \subseteq Returning(calls)'
    <2>1. \A calls : t \notin Returning(calls)
      BY <1>1 DEF Returning
    <2>. QED
      BY <1>3, <2>1
  <1>5. t \in xTasksWaitingToReceive \ xTasksWaitingToReceive' => t \in Returning(Receives)'
    BY <1>0, <1>1 DEF WaitersRight, Returning, Waiting
  <1>6. /\ xTasksWaitingToReceive \ xTasksWaitingToReceive' \subseteq Returning(Receives)'
        /\ xTasksWaitingToSend \ xTasksWaitingToSend' \subseteq Returning(Sends)'
    BY <1>0, <1>1, <1>3, <1>5, CountFacts
  <1>7. /\ uxMessagesWaiting \in Nat /\ Length \in Nat
        /\ Owed(cTxLock) \in Nat /\ Owed(cRxLock) \in Nat /\ Owed(cTxLock') = 0
    BY <1>1, CountFacts DEF Owed
  <1>8. uxMessagesWaiting' + Owed(cTxLock) + (IF {} = {} THEN 0 ELSE 1)
          <= uxMessagesWaiting + Owed(cTxLock') + Owed(cTxLock)
    BY <1>1, <1>7
  <1>9. (Length - uxMessagesWaiting') + Owed(cRxLock) + (IF {} = {} THEN 0 ELSE 1)
          <= Length - uxMessagesWaiting + Owed(cRxLock')
    BY <1>1, <1>7
  <1>10. ReceiversCovered => ReceiversCovered'
    BY <1>1, <1>4, <1>6, <1>7, <1>8, ReceiversWoken
  <1>11. SendersCovered => SendersCovered'
    BY <1>1, <1>4, <1>6, <1>9, SendersQuiet
  <1>. QED
    BY <1>10, <1>11

\* and the second half senders.
LEMMA UnlockRxCovers ==
  ASSUME QueueInv, QueueInv', WaitersRight, NEW t \in Tasks, UnlockRx(t)
  PROVE  /\ ReceiversCovered => ReceiversCovered'
         /\ SendersCovered => SendersCovered'
  <1>0. /\ TypeOK /\ \A u \in Tasks \ {t} : pc[u] # "unlock_tx"
        /\ Sends \cap Receives = {}
    BY QueueAssumption
       DEF QueueInv, SuspenderRight, SuspendedLabels, UnlockRx, Step, Sends, Receives
  <1>1. /\ xTasksWaitingToReceive' = xTasksWaitingToReceive
        /\ WakeUp(Owed(cRxLock), xTasksWaitingToSend, xTasksWaitingToSend')
        /\ cRxLock' = -1 /\ cTxLock' = cTxLock /\ op' = op /\ timedOut' = timedOut
        /\ pc[t] = "unlock_rx" /\ pc'[t] = "resume" /\ \A u \in Tasks \ {t} : pc'[u] = pc[u]
        /\ uxMessagesWaiting' = uxMessagesWaiting
    BY <1>0 DEF UnlockRx, Step, WakeSenders, Owed, timeVars, ringVars, queueUNLOCKED, TypeOK
  <1>2. xTasksWaitingToSend' \subseteq xTasksWaitingToSend
    BY <1>1 DEF WakeUp
  <1>3. /\ \A calls : Returning(calls) \ {t} \subseteq Returning(calls)'
        /\ \A u \in (xTasksWaitingToSend \ xTasksWaitingToSend') \ {t} :
             pc[u] # "unlock_tx" => u \in Returning(Sends)'
    BY <1>0, <1>1, <1>2, OthersReturn
  <1>4. \A calls : Returning(calls) \ {} \subseteq Returning(calls)'
    <2>1. \A calls : t \in Returning(calls) => t \in Returning(calls)'
      BY <1>1, <1>2 DEF Returning, Waiting
    <2>. QED
      BY <1>3, <2>1
  <1>5. t \in xTasksWaitingToSend \ xTasksWaitingToSend' => t \in Returning(Sends)'
    BY <1>0, <1>1 DEF WaitersRight, Returning, Waiting
  <1>6. /\ xTasksWaitingToSend \ xTasksWaitingToSend' \subseteq Returning(Sends)'
        /\ xTasksWaitingToReceive \ xTasksWaitingToReceive' \subseteq Returning(Receives)'
    BY <1>0, <1>1, <1>3, <1>5, CountFacts
  <1>7. /\ uxMessagesWaiting \in Nat /\ Length \in Nat
        /\ Owed(cTxLock) \in Nat /\ Owed(cRxLock) \in Nat /\ Owed(cRxLock') = 0
    BY <1>1, CountFacts DEF Owed
  <1>8. (Length - uxMessagesWaiting') + Owed(cRxLock) + (IF {} = {} THEN 0 ELSE 1)
          <= Length - uxMessagesWaiting + Owed(cRxLock') + Owed(cRxLock)
    BY <1>1, <1>7
  <1>9. uxMessagesWaiting' + Owed(cTxLock) + (IF {} = {} THEN 0 ELSE 1)
          <= uxMessagesWaiting + Owed(cTxLock')
    BY <1>1, <1>7
  <1>10. SendersCovered => SendersCovered'
    BY <1>1, <1>4, <1>6, <1>7, <1>8, SendersWoken
  <1>11. ReceiversCovered => ReceiversCovered'
    BY <1>1, <1>4, <1>6, <1>9, ReceiversQuiet
  <1>. QED
    BY <1>10, <1>11
\* A task goes into a waiting list: since it looked, handlers have counted in the
\* lock what they changed.
LEMMA PlaceCovers ==
  ASSUME QueueInv, QueueInv', WaitersRight, PlaceCovered, NEW t \in Tasks, Place(t)
  PROVE  /\ ReceiversCovered => ReceiversCovered'
         /\ SendersCovered => SendersCovered'
  <1>0. /\ TypeOK /\ t \notin Waiting /\ op[t].call \in Sends \cup Receives
    BY DEF QueueInv, TypeOK, WaitersRight, Place, Step, Ops
  <1>1. /\ pc[t] = "place" /\ op' = op /\ timedOut' = timedOut
        /\ \A u \in Tasks \ {t} : pc'[u] = pc[u]
        /\ uxMessagesWaiting' = uxMessagesWaiting
        /\ cTxLock' = cTxLock /\ cRxLock' = cRxLock
    BY <1>0 DEF Place, Step, ringVars, lockVars, TypeOK
  <1>2. /\ uxMessagesWaiting \in Nat /\ Length \in Nat
        /\ Owed(cTxLock) \in Nat /\ Owed(cRxLock) \in Nat
    BY CountFacts
  <1>3. /\ Cardinality(Returning(Sends)') \in Nat
        /\ Cardinality(Returning(Receives)') \in Nat
    BY CountFactsNext, QueueAssumption, FS_Subset, FS_CardinalityType DEF QueueAssumption
  <1>4. /\ xTasksWaitingToSend' \subseteq xTasksWaitingToSend \cup {t}
        /\ xTasksWaitingToReceive' \subseteq xTasksWaitingToReceive \cup {t}
    BY DEF Place
  <1>5. \A calls : Returning(calls) \ {} \subseteq Returning(calls)'
    <2>1. \A calls : Returning(calls) \ {t} \subseteq Returning(calls)'
      BY <1>0, <1>1, <1>4, OthersReturn
    <2>2. \A calls : t \notin Returning(calls)
      BY <1>1 DEF Returning
    <2>. QED
      BY <2>1, <2>2
  <1>6. CASE op[t].call \in Sends
    <2>1. xTasksWaitingToReceive' = xTasksWaitingToReceive
      BY <1>6 DEF Place
    <2>2. uxMessagesWaiting' + Owed(cTxLock) + (IF {} = {} THEN 0 ELSE 1)
            <= uxMessagesWaiting + Owed(cTxLock')
      BY <1>1, <1>2
    <2>3. xTasksWaitingToReceive \ xTasksWaitingToReceive' \subseteq Returning(Receives)'
      BY <2>1
    <2>4. ReceiversCovered => ReceiversCovered'
      BY <1>5, <2>1, <2>2, <2>3, ReceiversQuiet
    <2>5. Length - uxMessagesWaiting' <= Owed(cRxLock')
      BY <1>1, <1>6 DEF PlaceCovered
    <2>6. SendersCovered'
      BY <1>1, <1>2, <1>3, <2>5 DEF SendersCovered, Owed
    <2>. QED
      BY <2>4, <2>6
  <1>7. CASE op[t].call \in Receives
    <2>1. xTasksWaitingToSend' = xTasksWaitingToSend
      BY <1>7 DEF Place, Sends, Receives
    <2>2. (Length - uxMessagesWaiting') + Owed(cRxLock) + (IF {} = {} THEN 0 ELSE 1)
            <= Length - uxMessagesWaiting + Owed(cRxLock')
      BY <1>1, <1>2
    <2>3. xTasksWaitingToSend \ xTasksWaitingToSend' \subseteq Returning(Sends)'
      BY <2>1
    <2>4. SendersCovered => SendersCovered'
      BY <1>5, <2>1, <2>2, <2>3, SendersQuiet
    <2>5. uxMessagesWaiting' <= Owed(cTxLock')
      BY <1>1, <1>7 DEF PlaceCovered, Sends, Receives
    <2>6. ReceiversCovered'
      BY <1>1, <1>2, <1>3, <2>5 DEF ReceiversCovered, Owed
    <2>. QED
      BY <2>4, <2>6
  <1>. QED
    BY <1>0, <1>6, <1>7

\* The steps of a call between its critical sections move no item and wake nobody:
\* who was returning still is.
LEMMA CallStepCovers ==
  ASSUME QueueInv, QueueInv', WaitersRight, NEW t \in Tasks,
         LockQueue(t) \/ Check(t) \/ Resume(t) \/ Final(t)
  PROVE  /\ ReceiversCovered => ReceiversCovered'
         /\ SendersCovered => SendersCovered'
  <1>0. TypeOK
    BY DEF QueueInv
  <1>1. /\ waitVars' = waitVars /\ uxMessagesWaiting' = uxMessagesWaiting
        /\ pc[t] \in {"lock", "check", "resume", "final"}
        /\ \A u \in Tasks \ {t} :
             pc'[u] = pc[u] /\ op'[u] = op[u] /\ timedOut'[u] = timedOut[u]
    BY <1>0 DEF LockQueue, Check, Resume, Final, Step, TypeOK, ringVars, timeVars
  <1>2. Owed(cTxLock') = Owed(cTxLock) /\ Owed(cRxLock') = Owed(cRxLock)
    BY DEF LockQueue, Check, Resume, Final, lockVars, Owed, queueUNLOCKED,
       queueLOCKED_UNMODIFIED
  <1>3. \A calls : Returning(calls) \ {t} \subseteq Returning(calls)'
    BY <1>0, <1>1, OthersReturn DEF waitVars
  <1>4. ASSUME NEW calls, t \in Returning(calls) PROVE t \in Returning(calls)'
    <2>1. pc[t] = "resume" /\ ~timedOut[t] /\ op[t].call \in calls /\ t \notin Waiting
      BY <1>1, <1>4 DEF Returning
    <2>2. Resume(t)
      BY <2>1 DEF LockQueue, Check, Final, Step
    <2>3. pc'[t] = "top" /\ op' = op
      BY <1>0, <2>1, <2>2 DEF Resume, Step, TypeOK
    <2>. QED
      BY <1>1, <2>1, <2>3 DEF Returning, Waiting, waitVars
  <1>5. \A calls : Returning(calls) \subseteq Returning(calls)'
    BY <1>3, <1>4
  <1>. QED
    BY <1>1, <1>2, <1>5, QuietCovers DEF waitVars

\* A task whose wait the tick or xTaskAbortDelay() ends is on its way itself.
LEMMA LeaveCovers ==
  ASSUME QueueInv, QueueInv', WaitersRight, NEW t \in Tasks, Expire(t) \/ AbortDelay(t)
  PROVE  /\ ReceiversCovered => ReceiversCovered'
         /\ SendersCovered => SendersCovered'
  <1>0. TypeOK /\ SuspenderRight /\ suspender = NoTask /\ NoTask \notin Tasks
    BY QueueAssumption DEF QueueInv, Expire, AbortDelay, QueueAssumption
  <1>1. /\ pc' = pc /\ op' = op /\ timedOut' = timedOut /\ lockVars' = lockVars
        /\ uxMessagesWaiting' = uxMessagesWaiting
        /\ xTasksWaitingToSend' = xTasksWaitingToSend \ {t}
        /\ xTasksWaitingToReceive' = xTasksWaitingToReceive \ {t}
    BY DEF Expire, AbortDelay, Leave, callVars, ringVars
  <1>2. \A u \in Tasks : pc[u] # "unlock_tx"
    BY <1>0 DEF SuspenderRight, SuspendedLabels
  <1>3. /\ \A calls : Returning(calls) \ {NoTask} \subseteq Returning(calls)'
        /\ \A u \in (xTasksWaitingToReceive \ xTasksWaitingToReceive') \ {NoTask} :
             pc[u] # "unlock_tx" => u \in Returning(Receives)'
        /\ \A u \in (xTasksWaitingToSend \ xTasksWaitingToSend') \ {NoTask} :
             pc[u] # "unlock_tx" => u \in Returning(Sends)'
    BY <1>0, <1>1, OthersReturn
  <1>4. /\ xTasksWaitingToSend \in SUBSET Tasks /\ xTasksWaitingToReceive \in SUBSET Tasks
        /\ \A calls : Returning(calls) \in SUBSET Tasks
    BY CountFacts
  <1>. QED
    BY <1>0, <1>1, <1>2, <1>3, <1>4, QuietCovers DEF lockVars

LEMMA CoverInit == Init => CoverInv
  <1>. SUFFICES ASSUME Init PROVE CoverInv
    OBVIOUS
  <1>1. \A t \in Tasks : pc[t] = "idle"
    BY DEF Init
  <1>2. xTasksWaitingToSend = {} /\ xTasksWaitingToReceive = {}
    BY DEF Init
  <1>. QED
    BY <1>1, <1>2 DEF CoverInv, WaitersRight, Waiting, LockIsTaken, PlaceCovered,
       ReceiversCovered, SendersCovered

LEMMA CoverStep == QueueInv /\ CoverInv /\ [Next]_vars => CoverInv'
  <1>. DEFINE Goal == /\ ReceiversCovered => ReceiversCovered'
                      /\ ~Resets /\ SendersCovered => SendersCovered'
  <1>. SUFFICES ASSUME QueueInv, CoverInv, [Next]_vars PROVE CoverInv'
    OBVIOUS
  <1>. SUFFICES Goal
    <2>1. WaitersRight' /\ LockIsTaken' /\ PlaceCovered'
      BY WaitersStep DEF CoverInv
    <2>2. Resets' = Resets
      BY DEF Next, vars, Resets
    <2>3. ReceiversCovered /\ (~Resets => SendersCovered)
      BY DEF CoverInv
    <2>. QED
      BY <2>1, <2>2, <2>3 DEF CoverInv
  <1>0. /\ QueueInv' /\ WaitersRight /\ LockIsTaken /\ PlaceCovered
    BY QueueStep DEF CoverInv
  <1>t. TypeOK /\ CallsInUse /\ \A o \in Ops : o.call \in Sends \cup Receives
    BY DEF QueueInv, Ops
  <1>1. CASE UNCHANGED vars
    <2>1. /\ UNCHANGED <<pc, op, timedOut, waitVars, lockVars, uxMessagesWaiting>>
      BY <1>1 DEF vars, callVars, timeVars, ringVars
    <2>2. \A calls : Returning(calls)' = Returning(calls)
      BY <2>1 DEF Returning, Waiting, waitVars
    <2>. QED
      BY <2>1, <2>2 DEF ReceiversCovered, SendersCovered, waitVars, lockVars
  <1>2. CASE Reset
    <2>1. uxMessagesWaiting' = 0 /\ cTxLock' = -1 /\ Resets
      BY <1>2 DEF Reset, queueUNLOCKED
    <2>2. Cardinality(Returning(Receives)') \in Nat
      BY <1>0, CountFactsNext, QueueAssumption, FS_Subset, FS_CardinalityType
         DEF QueueAssumption
    <2>3. ReceiversCovered'
      BY <2>1, <2>2 DEF ReceiversCovered
    <2>. QED
      BY <2>1, <2>3
  <1>3. CASE ReceiveFromISR
    BY <1>0, <1>3, ReceiveISRCovers
  <1>4. ASSUME NEW call, NEW x, SendFromISR(call, x) PROVE Goal
    BY <1>0, <1>4, SendISRCovers
  <1>5. ASSUME NEW t \in Tasks, Continue(t) PROVE Goal
    <2>1. CASE Retry(t)
      <3>1. /\ op[t] \in Ops /\ (op[t].call = "overwrite" => Length = 1)
        BY <1>t, UsageFacts DEF TypeOK, CallsInUse
      <3>2. /\ CanRun(t) /\ pc[t] = "top" /\ t \notin Waiting
            /\ Succeed(t, op[t]) \/ Fail(t, op[t])
            /\ UNCHANGED lockVars /\ timedOut' = timedOut /\ op' = op
        BY <2>1 DEF Retry, timeVars
      <3>. QED
        BY <1>0, <3>1, <3>2, TopCovers
    <2>2. CASE Place(t)
      BY <1>0, <2>2, PlaceCovers
    <2>3. CASE UnlockTx(t)
      BY <1>0, <2>3, UnlockTxCovers
    <2>4. CASE UnlockRx(t)
      BY <1>0, <2>4, UnlockRxCovers
    <2>5. CASE LockQueue(t) \/ Check(t) \/ Resume(t) \/ Final(t)
      BY <1>0, <2>5, CallStepCovers
    <2>. QED
      BY <1>5, <2>1, <2>2, <2>3, <2>4, <2>5 DEF Continue
  <1>6. ASSUME NEW t \in Tasks, Expire(t) \/ AbortDelay(t) PROVE Goal
    BY <1>0, <1>6, LeaveCovers
  <1>7. ASSUME NEW t \in Tasks, NEW o \in [call : Calls, item : usage.items, wait : Waits],
               Call(t, o)
        PROVE  Goal
    <2>1. /\ o \in Ops /\ (o.call = "overwrite" => Length = 1)
      BY <1>t, UsageFacts DEF CallsInUse, Ops
    <2>2. t \notin Waiting /\ \A u \in Tasks \ {t} : op'[u] = op[u]
      BY <1>0, <1>t, <1>7 DEF Call, WaitersRight, TypeOK
    <2>3. /\ CanRun(t) /\ pc[t] = "idle"
          /\ Succeed(t, o) \/ Fail(t, o)
          /\ UNCHANGED lockVars /\ timedOut' = timedOut
      BY <1>7 DEF Call
    <2>. QED
      BY <1>0, <2>1, <2>2, <2>3, TopCovers
  <1>. QED
    BY <1>1, <1>2, <1>3, <1>4, <1>5, <1>6, <1>7 DEF Next

\* No wake-up is lost: while a task waits to receive, every item in the queue has a
\* woken receiver on its way to it or is counted in the lock of the call that will
\* wake one, and likewise for senders and free slots, for any number of tasks and
\* slots and whatever handlers do while the queue is locked - unless the application
\* resets the queue.
THEOREM WaitersCoveredCorrect == Spec => []WaitersCovered
  <1>1. Init => QueueInv /\ CoverInv
    BY QueueInit, CoverInit
  <1>2. QueueInv /\ CoverInv /\ [Next]_vars => (QueueInv /\ CoverInv)'
    BY QueueStep, CoverStep
  <1>3. CoverInv => WaitersCovered
    BY DEF CoverInv, WaitersCovered
  <1>. QED
    BY <1>1, <1>2, <1>3, PTL DEF Spec
-----------------------------------------------------------------------------
\* Software timers, whose daemon is sent commands by a queue.

\* The tick count has values, a period and the lag are shorter than a cycle of it, and the
\* queue has a length.
TimersAssumption ==
  /\ TickMod \in Nat \ {0} /\ MaxLag \in 0 .. TickMod - 1
  /\ Periods \subseteq {p \in Nat \ {0} : p + MaxLag < TickMod}
  /\ \A u \in TimerUses : u.messages \in Nat

TimerRecs == [period : Periods, reload : BOOLEAN, active : BOOLEAN,
              list : {"none", "current", "overflow"}, value : 0 .. MaxTime,
              asked : BOOLEAN, due : -TickMod .. TickMod, early : BOOLEAN]
Commands == [id : {"start", "period", "stop", "call"}, timer : Timers, value : Int, age : Int]

\* A timer that runs, as of now, which counts on beyond the end of the cycle in which the
\* daemon looked at the clock, since ticks ago: no later than the lag, no earlier than a period,
\* and in the list of its cycle.
RunsRight(r, now, since) ==
  /\ r.due >= -MaxLag /\ since + r.due <= r.period
  /\ now + r.due \in 0 .. 2 * TickMod - 1
  /\ r.list = IF now + r.due < TickMod THEN "current" ELSE "overflow"
  /\ r.value = (now + r.due) % TickMod
TimerRight(r, now, since) ==
  /\ r \in TimerRecs /\ ~r.early /\ (r.asked <=> r.active)
  /\ IF r.asked THEN RunsRight(r, now, since) ELSE r.list = "none"

\* A start tells when it was sent.
CommandRight(m, now) ==
  /\ m.id = "start" => m.age \in 0 .. MaxLag /\ m.value = (now - m.age) % TickMod
  /\ m.id = "period" => m.value \in Periods

TimersTyped ==
  /\ timerUse \in TimerUses /\ timer \in [Timers -> TimerRecs]
  /\ xTickCount \in 0 .. MaxTime /\ xLastTime \in 0 .. MaxTime /\ xTicksToWait \in 0 .. Forever
  /\ sinceSample \in 0 .. TickMod
  /\ xTimerQueue \in Seq(Commands) /\ Len(xTimerQueue) <= timerUse.messages
  /\ daemon \in {"loop", "asleep", "commands"}
SampleRight ==
  sinceSample < TickMod => xTickCount = (xLastTime + sinceSample) % TickMod
QueueRight == \A i \in 1 .. Len(xTimerQueue) : CommandRight(xTimerQueue[i], xTickCount)
SleepRight ==
  daemon = "asleep" =>
    /\ xTimerQueue = <<>>
    /\ \A t \in Timers : timer[t].asked => timer[t].due >= 1 /\ timer[t].due >= xTicksToWait
                                           /\ xTicksToWait < Forever
TimersKept == \A t \in Timers : TimerRight(timer[t], xLastTime + sinceSample, sinceSample)
TimersInv == TimersTyped /\ TimersKept /\ SampleRight /\ QueueRight /\ SleepRight

\* Every set of numbers that is not empty has a least one.
LEMMA LeastNumber ==
  ASSUME NEW S \in SUBSET Nat, S # {}
  PROVE  \E n \in S : \A i \in S : n <= i
  <1>1. PICK n \in S : \A i \in S : ~ (<<i, n>> \in OpToRel(<, Nat))
    BY NatLessThanWellFounded, WFMin
  <1>2. \A i \in S : ~ (i < n)
    BY <1>1 DEF OpToRel
  <1>. QED
    BY <1>2

\* Remainders, for numbers not far from the cycle.
LEMMA CycleFacts ==
  ASSUME NEW m \in Nat \ {0}, NEW i \in -m .. 3 * m - 1
  PROVE  /\ i % m \in 0 .. m - 1
         /\ i % m = IF i < 0 THEN i + m ELSE IF i < m THEN i ELSE IF i < 2 * m THEN i - m
                    ELSE i - 2 * m
  OBVIOUS

\* Counting on from a count that wrapped.
LEMMA CycleAdds ==
  ASSUME NEW m \in Nat \ {0}, NEW x \in -m .. m - 1, NEW g \in Nat, x + g < 2 * m
  PROVE  ((x % m) + g) % m = (x + g) % m
  <1>1. x % m = IF x < 0 THEN x + m ELSE x
    <2>1. x \in -m .. 3 * m - 1 /\ x < m
      OBVIOUS
    <2>2. PICK w \in -m .. 3 * m - 1 : w = x
      BY <2>1
    <2>3. w % m = IF w < 0 THEN w + m ELSE IF w < m THEN w ELSE IF w < 2 * m THEN w - m
                  ELSE w - 2 * m
      BY CycleFacts
    <2>. QED
      BY <2>1, <2>2, <2>3
  <1>2. PICK z : z = (x % m) + g
    OBVIOUS
  <1>3. z \in -m .. 3 * m - 1 /\ x + g \in -m .. 3 * m - 1
    BY <1>1, <1>2
  <1>4. z % m = (x + g) % m
    <2>1. z % m = IF z < 0 THEN z + m ELSE IF z < m THEN z ELSE IF z < 2 * m THEN z - m
                  ELSE z - 2 * m
      BY <1>3, CycleFacts
    <2>2. PICK y \in -m .. 3 * m - 1 : y = x + g
      BY <1>3
    <2>3. y % m = IF y < 0 THEN y + m ELSE IF y < m THEN y ELSE IF y < 2 * m THEN y - m
                  ELSE y - 2 * m
      BY CycleFacts
    <2>4. z = IF x < 0 THEN y + m ELSE y
      BY <1>1, <1>2, <2>2
    <2>6. z % m = y % m
      BY <2>1, <2>3, <2>4, <2>2
    <2>. QED
      BY <2>6, <2>2
  <1>. QED
    BY <1>4, <1>2

\* Where prvInsertTimerInActiveList() puts a timer, by the times as they would be if the
\* count did not wrap.
LEMMA PlacedFacts ==
  ASSUME TimersAssumption, NEW now \in 0 .. MaxTime, NEW x \in Int, NEW p \in Periods,
         0 <= now - x, now - x <= MaxLag
  PROVE  Placed((x + p) % TickMod, now, x % TickMod, p) =
           IF x + p <= now THEN "process" ELSE IF x + p < TickMod THEN "current" ELSE "overflow"
  <1>1. /\ TickMod \in Nat \ {0} /\ MaxLag \in 0 .. TickMod - 1 /\ p \in Nat \ {0}
        /\ p + MaxLag < TickMod
    BY DEF TimersAssumption
  <1>2. PICK y : y = x + p
    OBVIOUS
  <1>3. x \in -TickMod .. TickMod - 1 /\ y \in -TickMod .. 2 * TickMod - 1
    BY <1>1, <1>2 DEF MaxTime
  <1>4. PICK t : t = x % TickMod
    OBVIOUS
  <1>5. t = IF x < 0 THEN x + TickMod ELSE x
    <2>1. PICK w \in -TickMod .. 3 * TickMod - 1 : w = x
      BY <1>1, <1>3
    <2>2. w % TickMod = IF w < 0 THEN w + TickMod ELSE IF w < TickMod THEN w
                        ELSE IF w < 2 * TickMod THEN w - TickMod ELSE w - 2 * TickMod
      BY <1>1, CycleFacts
    <2>. QED
      BY <2>1, <2>2, <1>1, <1>3, <1>4
  <1>6. PICK n : n = y % TickMod
    OBVIOUS
  <1>7. n = IF y < 0 THEN y + TickMod ELSE IF y < TickMod THEN y ELSE y - TickMod
    <2>1. y \in -TickMod .. 3 * TickMod - 1 /\ y < 2 * TickMod
      BY <1>1, <1>3
    <2>. QED
      BY <2>1, <1>1, <1>6, CycleFacts
  <1>8. (now - t) % TickMod = now - x
    <2>1. PICK d : d = now - t
      OBVIOUS
    <2>2. d \in -TickMod .. 3 * TickMod - 1
      BY <1>1, <1>3, <1>5, <2>1 DEF MaxTime
    <2>3. d % TickMod = IF d < 0 THEN d + TickMod ELSE IF d < TickMod THEN d
                        ELSE IF d < 2 * TickMod THEN d - TickMod ELSE d - 2 * TickMod
      BY <1>1, <2>2, CycleFacts
    <2>4. d % TickMod = now - x
      BY <1>1, <1>3, <1>5, <2>1, <2>3 DEF MaxTime
    <2>. QED
      BY <2>1, <2>4
  <1>9. Placed(n, now, t, p) =
          IF x + p <= now THEN "process" ELSE IF x + p < TickMod THEN "current" ELSE "overflow"
    <2>1. Placed(n, now, t, p) =
            IF n <= now THEN IF now - x >= p THEN "process" ELSE "overflow"
                        ELSE IF now < t /\ n >= t THEN "process" ELSE "current"
      BY <1>8 DEF Placed
    <2>2. now < TickMod /\ now >= 0
      BY <1>1 DEF MaxTime
    <2>. QED
      BY <2>1, <2>2, <1>1, <1>2, <1>3, <1>5, <1>7
  <1>. QED
    BY <1>2, <1>4, <1>6, <1>9

\* How many periods are over.
LEMMA PeriodsOver ==
  ASSUME NEW d \in Nat, NEW p \in Nat \ {0}
  PROVE  \E k \in 0 .. d : k * p <= d /\ d < (k + 1) * p
  <1>1. d \div p \in 0 .. d /\ (d \div p) * p <= d /\ d < ((d \div p) + 1) * p
    OBVIOUS
  <1>. QED
    BY <1>1

LEMMA TimesOrder ==
  ASSUME NEW j \in Nat, NEW k \in Nat, j <= k, NEW p \in Nat
  PROVE  j * p <= k * p /\ j * p \in Nat /\ k * p \in Nat /\ (j + 1) * p = j * p + p
  OBVIOUS

\* What calling a timer does that was last due at x: g ticks later it is next.
CalledOn(r, now, x, g) ==
  /\ x + g > now /\ x + g <= now + r.period /\ g >= r.period
  /\ Expired(r, now) =
       [r EXCEPT !.value = (x + g) % TickMod,
                 !.list = IF x + g < TickMod THEN "current" ELSE "overflow",
                 !.due = r.due + g,
                 !.early = Early(r) \/ r.due + g - r.period > 0]

\* The timer is called for each period that is over, and is next due with the first that is not.
LEMMA ExpiredFacts ==
  ASSUME TimersAssumption, NEW now \in 0 .. MaxTime, NEW x \in Int,
         0 <= now - x, now - x <= MaxLag,
         NEW r \in TimerRecs, r.reload, r.value = x % TickMod
  PROVE  \E g \in Nat : CalledOn(r, now, x, g)
  <1>. DEFINE p        == r.period
              value(k) == (r.value + k * r.period) % TickMod
              place(k) == Placed(value(k + 1), now, value(k), r.period)
              IsMissed(k) == place(k) # "process" /\ \A j \in 0 .. k - 1 : place(j) = "process"
              missed   == CHOOSE k \in 0 .. TickMod : /\ place(k) # "process"
                                              /\ \A j \in 0 .. k - 1 : place(j) = "process"
              last     == r.due + missed * r.period
  <1>1. /\ TickMod \in Nat \ {0} /\ MaxLag \in 0 .. TickMod - 1 /\ p \in Nat \ {0}
        /\ p + MaxLag < TickMod /\ p \in Periods /\ r.due \in Int
    <2>1. r.period \in Periods /\ r.due \in -TickMod .. TickMod
      BY DEF TimerRecs
    <2>2. TickMod \in Nat \ {0} /\ MaxLag \in 0 .. TickMod - 1
      BY DEF TimersAssumption
    <2>3. p \in Nat \ {0} /\ p + MaxLag < TickMod
      BY <2>1 DEF TimersAssumption
    <2>. QED
      BY <2>1, <2>2, <2>3
  <1>2. Expired(r, now) = [r EXCEPT !.value = value(missed + 1), !.list = place(missed),
                                    !.due = last + r.period, !.early = Early(r) \/ last > 0]
    BY DEF Expired
  <1>3. PICK d \in Nat : d = now - x
    BY DEF MaxTime
  <1>4. PICK n \in 0 .. d : n * p <= d /\ d < (n + 1) * p
    BY <1>1, <1>3, PeriodsOver
  <1>5. \A k \in 0 .. n + 1 : k * p \in Nat /\ value(k) = (x + k * p) % TickMod
    <2>. SUFFICES ASSUME NEW k \in 0 .. n + 1
                  PROVE  k * p \in Nat /\ value(k) = (x + k * p) % TickMod
      OBVIOUS
    <2>1. k * p <= (n + 1) * p /\ k * p \in Nat /\ (n + 1) * p = n * p + p
      <3>1. k \in Nat /\ n \in Nat /\ n + 1 \in Nat /\ k <= n + 1 /\ p \in Nat /\ n <= n
        BY <1>1
      <3>2. k * p <= (n + 1) * p /\ k * p \in Nat
        BY <3>1, TimesOrder
      <3>3. (n + 1) * p = n * p + p
        BY <3>1, TimesOrder
      <3>. QED
        BY <3>2, <3>3
    <2>2. PICK g \in Nat : g = k * p
      BY <2>1
    <2>3. g <= d + p
      BY <2>1, <2>2, <1>4, <1>1
    <2>4. x \in -TickMod .. TickMod - 1 /\ x + g < 2 * TickMod
      BY <2>3, <1>1, <1>3 DEF MaxTime
    <2>5. ((x % TickMod) + g) % TickMod = (x + g) % TickMod
      BY <2>4, <1>1, CycleAdds
    <2>. QED
      BY <2>1, <2>2, <2>5
  <1>6. \A k \in 0 .. n : place(k) = IF k < n THEN "process"
                                     ELSE IF x + (n + 1) * p < TickMod THEN "current"
                                     ELSE "overflow"
    <2>. SUFFICES ASSUME NEW k \in 0 .. n
                  PROVE  place(k) = IF k < n THEN "process"
                                    ELSE IF x + (n + 1) * p < TickMod THEN "current"
                                    ELSE "overflow"
      OBVIOUS
    <2>1. k \in 0 .. n + 1 /\ k + 1 \in 0 .. n + 1
      OBVIOUS
    <2>2. value(k) = (x + k * p) % TickMod /\ value(k + 1) = (x + (k + 1) * p) % TickMod
      BY <1>5, <2>1
    <2>3. k * p \in Nat /\ k * p <= n * p /\ (k + 1) * p = k * p + p /\ n * p \in Nat
      <3>1. k \in Nat /\ n \in Nat /\ k <= n /\ p \in Nat
        BY <1>1
      <3>. QED
        BY <3>1, TimesOrder
    <2>4. k < n => (k + 1) * p <= n * p
      <3>1. k < n => k + 1 \in Nat /\ n \in Nat /\ k + 1 <= n /\ p \in Nat
        BY <1>1
      <3>. QED
        BY <3>1, TimesOrder
    <2>5. PICK g \in Nat : g = k * p
      BY <2>3
    <2>6. PICK y \in Int : y = x + g
      OBVIOUS
    <2>7. 0 <= now - y /\ now - y <= MaxLag
      BY <2>3, <2>5, <2>6, <1>3, <1>4, <1>1 DEF MaxTime
    <2>8. Placed((y + p) % TickMod, now, y % TickMod, p) =
            IF y + p <= now THEN "process" ELSE IF y + p < TickMod THEN "current" ELSE "overflow"
      BY <2>7, <1>1, PlacedFacts
    <2>9. y = x + k * p /\ y + p = x + (k + 1) * p
      BY <2>3, <2>5, <2>6, <1>1
    <2>10. place(k) = IF y + p <= now THEN "process" ELSE IF y + p < TickMod THEN "current"
                      ELSE "overflow"
      BY <2>2, <2>8, <2>9
    <2>11. PICK h \in Int : h = n * p
      BY <2>3
    <2>12. (n + 1) * p = h + p /\ h <= d /\ d < h + p
      <3>1. n \in Nat /\ p \in Nat /\ n <= n
        BY <1>1
      <3>2. (n + 1) * p = n * p + p
        BY <3>1, TimesOrder
      <3>. QED
        BY <3>2, <2>11, <1>4
    <2>13. CASE k < n
      <3>1. y + p <= now
        BY <2>4, <2>13, <2>9, <2>3, <2>5, <2>6, <2>11, <2>12, <1>3, <1>1 DEF MaxTime
      <3>. QED
        BY <3>1, <2>10, <2>13
    <2>14. CASE k = n
      <3>1. g = h
        BY <2>14, <2>5, <2>11
      <3>2. PICK w : w = (n + 1) * p
        OBVIOUS
      <3>3. w = h + p
        BY <3>2, <2>12
      <3>4. d < h + p
        BY <2>12
      <3>5. now \in Int
        BY <1>1 DEF MaxTime
      <3>6. y + p > now /\ y + p = x + w
        BY <3>1, <3>3, <3>4, <3>5, <2>6, <1>3, <1>1
      <3>7. y + p > now /\ y + p = x + (n + 1) * p
        BY <3>2, <3>6
      <3>8. ~(k < n) /\ ~(y + p <= now)
        BY <3>7, <2>14, <1>1 DEF MaxTime
      <3>. QED
        BY <3>7, <3>8, <2>10
    <2>. QED
      BY <2>13, <2>14
  <1>7. missed = n
    <2>1. n \in 0 .. TickMod
      BY <1>1, <1>3
    <2>2. IsMissed(n)
      BY <1>6
    <2>3. \A k \in 0 .. TickMod : IsMissed(k) => k = n
      <3>. SUFFICES ASSUME NEW k \in 0 .. TickMod, IsMissed(k)
                    PROVE  k = n
        OBVIOUS
      <3>1. ~(k < n)
        BY <1>6
      <3>2. ~(n < k)
        <4>1. n < k => n \in 0 .. k - 1
          OBVIOUS
        <4>. QED
          BY <4>1, <1>6
      <3>. QED
        BY <3>1, <3>2
    <2>4. missed = CHOOSE k \in 0 .. TickMod : IsMissed(k)
      OBVIOUS
    <2>. HIDE DEF IsMissed, missed
    <2>5. missed \in 0 .. TickMod /\ IsMissed(missed)
      BY <2>1, <2>2, <2>4
    <2>. QED
      BY <2>3, <2>5
  <1>8. PICK g \in Nat : g = (n + 1) * p
    BY <1>5
  <1>9. g = n * p + p /\ n * p \in Nat
    <2>1. n \in Nat /\ p \in Nat /\ n <= n
      BY <1>1
    <2>. QED
      BY <2>1, <1>8, TimesOrder
  <1>10. x + g > now /\ x + g <= now + p /\ g >= p
    BY <1>1, <1>3, <1>4, <1>8, <1>9 DEF MaxTime
  <1>11. value(n + 1) = (x + g) % TickMod
    <2>1. n + 1 \in 0 .. n + 1
      OBVIOUS
    <2>. QED
      BY <2>1, <1>5, <1>8
  <1>12. place(n) = IF x + g < TickMod THEN "current" ELSE "overflow"
    BY <1>6, <1>8
  <1>13. r.due + n * r.period + r.period = r.due + g
    BY <1>9, <1>1
  <1>14. r.due + n * r.period = r.due + g - r.period
    BY <1>9, <1>1
  <1>. HIDE DEF missed
  <1>15. Expired(r, now) = [r EXCEPT !.value = value(n + 1), !.list = place(n),
                              !.due = r.due + n * r.period + r.period,
                              !.early = Early(r) \/ r.due + n * r.period > 0]
    BY <1>2, <1>7
  <1>. HIDE DEF value, place
  <1>16. Expired(r, now) = [r EXCEPT !.value = (x + g) % TickMod,
                          !.list = IF x + g < TickMod THEN "current" ELSE "overflow",
                          !.due = r.due + g,
                          !.early = Early(r) \/ r.due + g - r.period > 0]
    BY <1>15, <1>11, <1>12, <1>13, <1>14
  <1>. QED
    BY <1>10, <1>16 DEF CalledOn

LEMMA TimerConstants ==
  ASSUME TimersAssumption, NEW r \in TimerRecs
  PROVE  /\ TickMod \in Nat \ {0} /\ MaxLag \in 0 .. TickMod - 1
         /\ r.period \in Periods /\ r.period \in Nat \ {0} /\ r.period + MaxLag < TickMod
         /\ r.due \in Int /\ r.due \in -TickMod .. TickMod
  <1>1. r.period \in Periods /\ r.due \in -TickMod .. TickMod
    BY DEF TimerRecs
  <1>2. TickMod \in Nat \ {0} /\ MaxLag \in 0 .. TickMod - 1
    BY DEF TimersAssumption
  <1>3. r.period \in Nat \ {0} /\ r.period + MaxLag < TickMod
    BY <1>1 DEF TimersAssumption
  <1>. QED
    BY <1>1, <1>2, <1>3

\* A timer that is stopped, and one that is called for the last time.
LEMMA StoppedFacts ==
  ASSUME TimersAssumption, NEW r \in TimerRecs
  PROVE  LET s == Stopped(r) IN
         /\ s \in TimerRecs /\ s.early = r.early /\ s.list = "none" /\ ~s.asked /\ ~s.active
  <1>1. TickMod \in Nat \ {0}
    BY DEF TimersAssumption
  <1>2. 0 \in 0 .. MaxTime /\ 0 \in -TickMod .. TickMod
    BY <1>1 DEF MaxTime
  <1>3. Stopped(r) \in TimerRecs
    BY <1>2 DEF Stopped, TimerRecs
  <1>4. Stopped(r).early = r.early
    BY DEF Stopped, TimerRecs
  <1>5. Stopped(r).list = "none" /\ ~Stopped(r).asked /\ ~Stopped(r).active
    BY DEF Stopped, TimerRecs
  <1>. QED
    BY <1>3, <1>4, <1>5

IsCalled(e, r, now, x) ==
  /\ e \in TimerRecs /\ ~e.early /\ e.period = r.period /\ (e.asked <=> e.active)
  /\ ~e.asked => e.list = "none"
  /\ e.asked => \E g \in Nat :
       /\ x + g > now /\ x + g <= now + r.period /\ g >= r.period
       /\ e.due = r.due + g /\ e.value = (x + g) % TickMod
       /\ e.list = IF x + g < TickMod THEN "current" ELSE "overflow"

\* A timer called at a tick at which, or after which, it was due.  As of then, which is now, it
\* is due with the first period that is not over.
LEMMA ExpiredRight ==
  ASSUME TimersAssumption, NEW now \in 0 .. MaxTime, NEW x \in Int,
         0 <= now - x, now - x <= MaxLag,
         NEW r \in TimerRecs, ~r.early, r.asked, r.active, r.value = x % TickMod,
         r.due >= -MaxLag, r.due <= x - now
  PROVE  IsCalled(Expired(r, now), r, now, x)
  <1>1. CASE r.reload
    <2>1. PICK g \in Nat : CalledOn(r, now, x, g)
      BY <1>1, ExpiredFacts
    <2>2. /\ x + g > now /\ x + g <= now + r.period /\ g >= r.period
          /\ Expired(r, now) =
               [r EXCEPT !.value = (x + g) % TickMod,
                         !.list = IF x + g < TickMod THEN "current" ELSE "overflow",
                         !.due = r.due + g,
                         !.early = Early(r) \/ r.due + g - r.period > 0]
      BY <2>1 DEF CalledOn
    <2>3. /\ TickMod \in Nat \ {0} /\ MaxLag \in 0 .. TickMod - 1
          /\ r.period \in Nat \ {0} /\ r.period + MaxLag < TickMod /\ r.due \in Int
      BY TimerConstants
    <2>4. now \in 0 .. TickMod - 1
      BY DEF MaxTime
    <2>5. r.due + g \in -TickMod .. TickMod /\ ~(r.due + g - r.period > 0) /\ ~(r.due > 0)
      BY <2>2, <2>3, <2>4
    <2>6. (Early(r) \/ r.due + g - r.period > 0) = FALSE
      BY <2>5 DEF Early
    <2>7. PICK v : v = (x + g) % TickMod
      OBVIOUS
    <2>8. v \in 0 .. MaxTime
      <3>1. PICK y \in -TickMod .. 3 * TickMod - 1 : y = x + g
        BY <2>2, <2>3, <2>4
      <3>2. y % TickMod \in 0 .. TickMod - 1
        BY <2>3, CycleFacts
      <3>. QED
        BY <3>1, <3>2, <2>7 DEF MaxTime
    <2>9. PICK l : l = IF x + g < TickMod THEN "current" ELSE "overflow"
      OBVIOUS
    <2>10. l \in {"none", "current", "overflow"}
      BY <2>9
    <2>11. PICK d : d = r.due + g
      OBVIOUS
    <2>12. Expired(r, now) = [r EXCEPT !.value = v, !.list = l, !.due = d, !.early = FALSE]
      BY <2>2, <2>6, <2>7, <2>9, <2>11
    <2>13. d \in -TickMod .. TickMod
      BY <2>5, <2>11
    <2>. DEFINE e == Expired(r, now)
    <2>14. e \in TimerRecs
      BY <2>12, <2>8, <2>10, <2>13 DEF TimerRecs
    <2>15. e.value = v /\ e.list = l /\ e.due = d /\ ~e.early
      BY <2>12, Zenon DEF TimerRecs
    <2>16. e.period = r.period /\ e.asked = r.asked /\ e.active = r.active
      BY <2>12, Zenon DEF TimerRecs
    <2>. QED
      BY <2>2, <2>7, <2>9, <2>11, <2>14, <2>15, <2>16 DEF IsCalled
  <1>2. CASE ~r.reload
    <2>. DEFINE s == Stopped(r)
    <2>1. s \in TimerRecs /\ s.early = r.early /\ s.list = "none" /\ ~s.asked /\ ~s.active
      BY StoppedFacts
    <2>2. Expired(r, now) = [s EXCEPT !.early = Early(r)]
      BY <1>2 DEF Expired
    <2>3. Early(r) = FALSE
      <3>1. TickMod \in Nat \ {0} /\ r.due \in Int
        BY TimerConstants
      <3>2. ~(r.due > 0)
        BY <3>1 DEF MaxTime
      <3>. QED
        BY <3>2 DEF Early
    <2>4. s.period = r.period
      BY DEF Stopped, TimerRecs
    <2>. HIDE DEF s
    <2>5. [s EXCEPT !.early = FALSE] \in TimerRecs
      BY <2>1 DEF TimerRecs
    <2>6. Expired(r, now) = [s EXCEPT !.early = FALSE]
      BY <2>2, <2>3
    <2>. QED
      BY <2>1, <2>4, <2>5, <2>6 DEF TimerRecs, IsCalled
  <1>. QED
    BY <1>1, <1>2

\* A timer that is called when the daemon finds it due.
LEMMA ExpireRight ==
  ASSUME TimersAssumption, NEW now \in 0 .. MaxTime, NEW s \in Nat, NEW r,
         TimerRight(r, now, s), r.asked, r.due <= 0
  PROVE  TimerRight(Expired(r, now), now, 0)
  <1>1. r \in TimerRecs /\ ~r.early /\ r.active /\ RunsRight(r, now, s)
    BY DEF TimerRight
  <1>2. /\ TickMod \in Nat \ {0} /\ MaxLag \in 0 .. TickMod - 1
        /\ r.period \in Nat \ {0} /\ r.period + MaxLag < TickMod /\ r.due \in Int
    BY <1>1, TimerConstants
  <1>3. PICK x \in Int : x = now + r.due
    BY <1>2 DEF MaxTime
  <1>4. 0 <= now - x /\ now - x <= MaxLag /\ r.due >= -MaxLag /\ r.due <= x - now
    BY <1>1, <1>2, <1>3 DEF RunsRight, MaxTime
  <1>5. r.value = x % TickMod
    BY <1>1, <1>3 DEF RunsRight
  <1>6. IsCalled(Expired(r, now), r, now, x)
    BY <1>1, <1>4, <1>5, ExpiredRight
  <1>. DEFINE e == Expired(r, now)
  <1>7. /\ e \in TimerRecs /\ ~e.early /\ e.period = r.period /\ (e.asked <=> e.active)
        /\ ~e.asked => e.list = "none"
    BY <1>6 DEF IsCalled
  <1>8. ASSUME e.asked
        PROVE  RunsRight(e, now, 0)
    <2>1. PICK g \in Nat :
           /\ x + g > now /\ x + g <= now + r.period /\ g >= r.period
           /\ e.due = r.due + g /\ e.value = (x + g) % TickMod
           /\ e.list = IF x + g < TickMod THEN "current" ELSE "overflow"
      BY <1>6, <1>8 DEF IsCalled
    <2>. HIDE DEF e
    <2>2. now + e.due = x + g
      BY <2>1, <1>2, <1>3 DEF MaxTime
    <2>3. e.due >= -MaxLag /\ 0 + e.due <= e.period /\ now + e.due \in 0 .. 2 * TickMod - 1
      BY <2>1, <2>2, <1>2, <1>3, <1>7 DEF MaxTime
    <2>4. /\ e.list = IF now + e.due < TickMod THEN "current" ELSE "overflow"
          /\ e.value = (now + e.due) % TickMod
      BY <2>1, <2>2
    <2>. QED
      BY <2>3, <2>4 DEF RunsRight
  <1>. QED
    BY <1>7, <1>8 DEF TimerRight

\* A timer in prvSwitchTimerLists(), after which the next cycle is the current one.
SwitchedTimer(r) ==
  LET e == IF r.list = "current" THEN Expired(r, MaxTime) ELSE r
  IN [e EXCEPT !.list = IF @ = "overflow" THEN "current" ELSE @]

LEMMA SwitchRight ==
  ASSUME TimersAssumption, NEW now \in Int, NEW s \in Nat, NEW r,
         TimerRight(r, now, s), r.asked => now \in TickMod .. 2 * TickMod - 1
  PROVE  TimerRight(SwitchedTimer(r), now - TickMod, 0) /\ (~r.asked => ~SwitchedTimer(r).asked)
  <1>1. r \in TimerRecs /\ ~r.early /\ (r.asked <=> r.active)
    BY DEF TimerRight
  <1>2. /\ TickMod \in Nat \ {0} /\ MaxLag \in 0 .. TickMod - 1
        /\ r.period \in Nat \ {0} /\ r.period + MaxLag < TickMod /\ r.due \in Int
    BY <1>1, TimerConstants
  <1>3. CASE ~r.asked
    <2>1. r.list = "none"
      BY <1>3 DEF TimerRight
    <2>2. SwitchedTimer(r) = [r EXCEPT !.list = "none"]
      BY <2>1 DEF SwitchedTimer
    <2>3. [r EXCEPT !.list = "none"] \in TimerRecs
      BY <1>1 DEF TimerRecs
    <2>4. /\ [r EXCEPT !.list = "none"].list = "none" /\ [r EXCEPT !.list = "none"].asked = r.asked
          /\ [r EXCEPT !.list = "none"].active = r.active
          /\ [r EXCEPT !.list = "none"].early = r.early
      BY <1>1 DEF TimerRecs
    <2>. QED
      BY <2>2, <2>3, <2>4, <1>1, <1>3 DEF TimerRight
  <1>4. ASSUME r.asked, r.list = "overflow"
        PROVE  TimerRight(SwitchedTimer(r), now - TickMod, 0)
    <2>1. SwitchedTimer(r) = [r EXCEPT !.list = "current"]
      BY <1>4 DEF SwitchedTimer
    <2>. DEFINE e == [r EXCEPT !.list = "current"]
    <2>2. e \in TimerRecs
      BY <1>1 DEF TimerRecs
    <2>3. /\ e.list = "current" /\ e.asked = r.asked /\ e.active = r.active /\ e.early = r.early
          /\ e.due = r.due /\ e.value = r.value /\ e.period = r.period
      BY <1>1 DEF TimerRecs
    <2>. HIDE DEF e
    <2>4. RunsRight(r, now, s)
      BY <1>4 DEF TimerRight
    <2>5. now \in TickMod .. 2 * TickMod - 1
      BY <1>4
    <2>6. ~(now + r.due < TickMod) /\ now + r.due < 2 * TickMod
      BY <2>4, <1>2, <1>4 DEF RunsRight
    <2>7. e.due >= -MaxLag /\ 0 + e.due <= e.period
      BY <2>3, <2>4, <1>2 DEF RunsRight
    <2>8. (now - TickMod) + e.due \in 0 .. 2 * TickMod - 1 /\ (now - TickMod) + e.due < TickMod
      BY <2>3, <2>6, <1>2, <2>5
    <2>9. PICK y \in -TickMod .. 3 * TickMod - 1 : y = now + r.due
      BY <2>6, <1>2, <2>5
    <2>10. PICK z \in -TickMod .. 3 * TickMod - 1 : z = (now - TickMod) + e.due
      BY <2>8, <1>2
    <2>11. z = y - TickMod
      BY <2>3, <2>9, <2>10, <1>2
    <2>12. y % TickMod = IF y < 0 THEN y + TickMod ELSE IF y < TickMod THEN y
                         ELSE IF y < 2 * TickMod THEN y - TickMod ELSE y - 2 * TickMod
      BY <1>2, CycleFacts
    <2>13. z % TickMod = IF z < 0 THEN z + TickMod ELSE IF z < TickMod THEN z
                         ELSE IF z < 2 * TickMod THEN z - TickMod ELSE z - 2 * TickMod
      BY <1>2, CycleFacts
    <2>14. y % TickMod = z % TickMod
      BY <2>6, <2>9, <2>11, <2>12, <2>13, <1>2
    <2>15. e.value = ((now - TickMod) + e.due) % TickMod
      BY <2>3, <2>4, <2>9, <2>10, <2>14 DEF RunsRight
    <2>16. RunsRight(e, now - TickMod, 0)
      BY <2>3, <2>7, <2>8, <2>15 DEF RunsRight
    <2>. QED
      BY <2>1, <2>2, <2>3, <2>16, <1>1, <1>4 DEF TimerRight, e
  <1>5. ASSUME r.asked, r.list = "current"
        PROVE  TimerRight(SwitchedTimer(r), now - TickMod, 0)
    <2>1. RunsRight(r, now, s) /\ now \in TickMod .. 2 * TickMod - 1
      BY <1>5 DEF TimerRight
    <2>2. PICK x \in Int : x = now + r.due
      BY <1>2
    <2>3. x < TickMod /\ x >= 0 /\ r.value = x % TickMod
      BY <2>1, <2>2, <1>2, <1>5 DEF RunsRight
    <2>4. MaxTime \in 0 .. MaxTime /\ MaxTime = TickMod - 1
      BY <1>2 DEF MaxTime
    <2>5. 0 <= MaxTime - x /\ MaxTime - x <= MaxLag /\ r.due >= -MaxLag /\ r.due <= x - MaxTime
      BY <2>1, <2>2, <2>3, <2>4, <1>2 DEF RunsRight
    <2>6. IsCalled(Expired(r, MaxTime), r, MaxTime, x)
      BY <1>1, <1>5, <2>3, <2>4, <2>5, ExpiredRight
    <2>. DEFINE e == Expired(r, MaxTime)
                f == [e EXCEPT !.list = IF @ = "overflow" THEN "current" ELSE @]
    <2>7. /\ e \in TimerRecs /\ ~e.early /\ e.period = r.period /\ (e.asked <=> e.active)
          /\ ~e.asked => e.list = "none"
      BY <2>6 DEF IsCalled
    <2>8. SwitchedTimer(r) = f
      BY <1>5 DEF SwitchedTimer
    <2>. HIDE DEF e
    <2>9. /\ f \in TimerRecs /\ f.early = e.early /\ f.period = e.period
          /\ f.asked = e.asked /\ f.active = e.active /\ f.due = e.due /\ f.value = e.value
          /\ f.list = IF e.list = "overflow" THEN "current" ELSE e.list
      BY <2>7 DEF TimerRecs
    <2>. HIDE DEF f
    <2>10. ASSUME f.asked
           PROVE  RunsRight(f, now - TickMod, 0)
      <3>1. PICK g \in Nat :
             /\ x + g > MaxTime /\ x + g <= MaxTime + r.period /\ g >= r.period
             /\ e.due = r.due + g /\ e.value = (x + g) % TickMod
             /\ e.list = IF x + g < TickMod THEN "current" ELSE "overflow"
        BY <2>6, <2>9, <2>10 DEF IsCalled, e
      <3>2. ~(x + g < TickMod) /\ x + g < 2 * TickMod
        BY <3>1, <2>4, <1>2
      <3>3. (now - TickMod) + f.due = x + g - TickMod
        BY <3>1, <2>2, <2>9, <1>2
      <3>4. f.due >= -MaxLag /\ 0 + f.due <= f.period
        BY <3>1, <2>1, <2>2, <2>4, <2>7, <2>9, <1>2 DEF RunsRight
      <3>5. /\ (now - TickMod) + f.due \in 0 .. 2 * TickMod - 1
            /\ (now - TickMod) + f.due < TickMod
        BY <3>2, <3>3, <1>2
      <3>6. f.list = "current"
        BY <3>1, <3>2, <2>9
      <3>7. PICK y \in -TickMod .. 3 * TickMod - 1 : y = x + g
        BY <3>2, <1>2
      <3>8. PICK z \in -TickMod .. 3 * TickMod - 1 : z = (now - TickMod) + f.due
        BY <3>5, <1>2
      <3>9. y % TickMod = IF y < 0 THEN y + TickMod ELSE IF y < TickMod THEN y
                          ELSE IF y < 2 * TickMod THEN y - TickMod ELSE y - 2 * TickMod
        BY <1>2, CycleFacts
      <3>10. z % TickMod = IF z < 0 THEN z + TickMod ELSE IF z < TickMod THEN z
                           ELSE IF z < 2 * TickMod THEN z - TickMod ELSE z - 2 * TickMod
        BY <1>2, CycleFacts
      <3>11. y % TickMod = z % TickMod
        BY <3>2, <3>3, <3>7, <3>8, <3>9, <3>10, <1>2
      <3>12. f.value = ((now - TickMod) + f.due) % TickMod
        BY <3>1, <3>7, <3>8, <3>11, <2>9
      <3>. QED
        BY <3>4, <3>5, <3>6, <3>12 DEF RunsRight
    <2>. QED
      BY <2>7, <2>8, <2>9, <2>10 DEF TimerRight
  <1>6. r.asked => r.list \in {"current", "overflow"}
    BY DEF TimerRight, RunsRight
  <1>. QED
    BY <1>3, <1>4, <1>5, <1>6

\* The clock is looked at, and has not wrapped.
LEMMA LookedRight ==
  ASSUME TimersAssumption, NEW now, NEW s \in Nat, NEW r, TimerRight(r, now, s)
  PROVE  TimerRight(r, now, 0)
  <1>1. r \in TimerRecs
    BY DEF TimerRight
  <1>2. r.period \in Nat \ {0} /\ r.due \in Int
    BY <1>1, TimerConstants
  <1>3. s + r.due <= r.period => 0 + r.due <= r.period
    BY <1>2
  <1>. QED
    BY <1>3 DEF TimerRight, RunsRight

\* A timer that is started by a message sent age ticks ago.
LEMMA StartedRight ==
  ASSUME TimersAssumption, NEW now \in 0 .. MaxTime, NEW age \in 0 .. MaxLag,
         NEW r \in TimerRecs, ~r.early
  PROVE  TimerRight(Started(r, (now - age) % TickMod, age, now), now, 0)
  <1>1. /\ TickMod \in Nat \ {0} /\ MaxLag \in 0 .. TickMod - 1 /\ r.period \in Periods
        /\ r.period \in Nat \ {0} /\ r.period + MaxLag < TickMod
    BY TimerConstants
  <1>2. PICK x \in Int : x = now - age
    BY <1>1 DEF MaxTime
  <1>3. 0 <= now - x /\ now - x <= MaxLag /\ now \in 0 .. TickMod - 1 /\ age = now - x
    BY <1>1, <1>2 DEF MaxTime
  <1>. DEFINE time == x % TickMod
              next == (time + r.period) % TickMod
              s    == [r EXCEPT !.active = TRUE, !.value = next, !.asked = TRUE,
                        !.due = r.period - age]
              list == Placed(next, now, time, r.period)
  <1>4. Started(r, time, age, now) =
          IF list = "process" THEN Expired(s, now) ELSE [s EXCEPT !.list = list]
    BY DEF Started
  <1>5. next = (x + r.period) % TickMod
    <2>1. x \in -TickMod .. TickMod - 1 /\ r.period \in Nat /\ x + r.period < 2 * TickMod
      BY <1>1, <1>3
    <2>. QED
      BY <2>1, <1>1, CycleAdds
  <1>6. list = IF x + r.period <= now THEN "process" ELSE IF x + r.period < TickMod THEN "current"
               ELSE "overflow"
    BY <1>1, <1>3, <1>5, PlacedFacts
  <1>7. PICK y \in Int : y = x + r.period
    BY <1>1
  <1>8. PICK d \in Int : d = r.period - age
    BY <1>1, <1>3
  <1>9. d = y - now /\ d \in -TickMod .. TickMod /\ d >= -MaxLag /\ d <= r.period
    BY <1>1, <1>3, <1>7, <1>8
  <1>10. next \in 0 .. MaxTime /\ next = y % TickMod
    <2>1. y \in -TickMod .. 3 * TickMod - 1
      BY <1>1, <1>3, <1>7
    <2>2. y % TickMod \in 0 .. TickMod - 1
      BY <2>1, <1>1, CycleFacts
    <2>. HIDE DEF next
    <2>. QED
      BY <2>2, <1>5, <1>7 DEF MaxTime
  <1>. HIDE DEF next
  <1>11. s = [r EXCEPT !.active = TRUE, !.value = next, !.asked = TRUE, !.due = d]
    BY <1>8
  <1>12. s \in TimerRecs
    BY <1>9, <1>10, <1>11 DEF TimerRecs
  <1>13. s.active /\ s.asked /\ s.value = next /\ s.due = d
    BY <1>11, Zenon DEF TimerRecs
  <1>14. s.early = r.early /\ s.period = r.period
    BY <1>11, Zenon DEF TimerRecs
  <1>. HIDE DEF s, list
  <1>15. ASSUME list = "process"
         PROVE  TimerRight(Expired(s, now), now, 0)
    <2>1. y <= now
      BY <1>6, <1>7, <1>15
    <2>2. 0 <= now - y /\ now - y <= MaxLag /\ s.due >= -MaxLag /\ s.due <= y - now
      BY <2>1, <1>1, <1>3, <1>9, <1>13
    <2>3. IsCalled(Expired(s, now), s, now, y)
      BY <2>2, <1>10, <1>12, <1>13, <1>14, ExpiredRight
    <2>. DEFINE e == Expired(s, now)
    <2>4. /\ e \in TimerRecs /\ ~e.early /\ e.period = s.period /\ (e.asked <=> e.active)
          /\ ~e.asked => e.list = "none"
      BY <2>3 DEF IsCalled
    <2>5. ASSUME e.asked
          PROVE  RunsRight(e, now, 0)
      <3>1. PICK g \in Nat :
             /\ y + g > now /\ y + g <= now + s.period /\ g >= s.period
             /\ e.due = s.due + g /\ e.value = (y + g) % TickMod
             /\ e.list = IF y + g < TickMod THEN "current" ELSE "overflow"
        BY <2>3, <2>5 DEF IsCalled
      <3>. HIDE DEF e
      <3>2. now + e.due = y + g
        BY <3>1, <1>3, <1>9, <1>13
      <3>3. e.due >= -MaxLag /\ 0 + e.due <= e.period /\ now + e.due \in 0 .. 2 * TickMod - 1
        BY <3>1, <3>2, <2>4, <1>1, <1>3, <1>9, <1>13, <1>14
      <3>4. /\ e.list = IF now + e.due < TickMod THEN "current" ELSE "overflow"
            /\ e.value = (now + e.due) % TickMod
        BY <3>1, <3>2
      <3>. QED
        BY <3>3, <3>4 DEF RunsRight
    <2>. QED
      BY <2>4, <2>5 DEF TimerRight
  <1>16. ASSUME list # "process"
         PROVE  TimerRight([s EXCEPT !.list = list], now, 0)
    <2>1. y > now /\ list = IF y < TickMod THEN "current" ELSE "overflow"
      BY <1>3, <1>6, <1>7, <1>16
    <2>2. list \in {"none", "current", "overflow"}
      BY <2>1
    <2>. DEFINE e == [s EXCEPT !.list = list]
    <2>3. /\ e \in TimerRecs /\ e.list = list /\ e.early = s.early /\ e.period = s.period
          /\ e.asked = s.asked /\ e.active = s.active /\ e.due = s.due /\ e.value = s.value
      BY <2>2, <1>12 DEF TimerRecs
    <2>. HIDE DEF e
    <2>4. now + e.due = y
      BY <2>3, <1>3, <1>9, <1>13
    <2>5. e.due >= -MaxLag /\ 0 + e.due <= e.period /\ now + e.due \in 0 .. 2 * TickMod - 1
      BY <2>1, <2>3, <2>4, <1>1, <1>3, <1>7, <1>9, <1>13, <1>14
    <2>6. /\ e.list = IF now + e.due < TickMod THEN "current" ELSE "overflow"
          /\ e.value = (now + e.due) % TickMod
      BY <2>1, <2>3, <2>4, <1>10, <1>13
    <2>7. RunsRight(e, now, 0)
      BY <2>5, <2>6 DEF RunsRight
    <2>. QED
      BY <2>3, <2>7, <1>13, <1>14 DEF TimerRight, e
  <1>17. Started(r, (now - age) % TickMod, age, now) = Started(r, time, age, now)
    BY <1>2
  <1>. HIDE DEF time
  <1>. QED
    BY <1>4, <1>15, <1>16, <1>17

LEMMA UnaskedRight ==
  ASSUME NEW r, ~r.asked, NEW a, NEW b, TimerRight(r, a, b), NEW c, NEW d
  PROVE  TimerRight(r, c, d)
  BY DEF TimerRight

\* What the clock tells of time that does not wrap, while timers run.
LEMMA NowFacts ==
  ASSUME TimersAssumption, TimersInv
  PROVE  /\ TickMod \in Nat \ {0} /\ MaxTime = TickMod - 1 /\ 0 \in 0 .. MaxTime
         /\ \A t \in Timers : timer[t].asked => sinceSample < TickMod
         /\ sinceSample < TickMod =>
              /\ xLastTime + sinceSample \in 0 .. 2 * TickMod - 1
              /\ Wrapped => /\ xLastTime + sinceSample \in TickMod .. 2 * TickMod - 1
                            /\ xTickCount = xLastTime + sinceSample - TickMod
              /\ ~Wrapped => xTickCount = xLastTime + sinceSample
  <1>1. TickMod \in Nat \ {0} /\ MaxTime = TickMod - 1 /\ 0 \in 0 .. MaxTime
    BY DEF TimersAssumption, MaxTime
  <1>2. ASSUME NEW t \in Timers, timer[t].asked
        PROVE  sinceSample < TickMod
    <2>1. timer[t] \in TimerRecs /\ RunsRight(timer[t], xLastTime + sinceSample, sinceSample)
      BY <1>2 DEF TimersInv, TimersKept, TimerRight
    <2>2. /\ MaxLag \in 0 .. TickMod - 1 /\ timer[t].period \in Nat
          /\ timer[t].period + MaxLag < TickMod /\ timer[t].due \in Int
      BY <2>1, TimerConstants
    <2>3. sinceSample \in Nat
      BY <1>1 DEF TimersInv, TimersTyped
    <2>. QED
      BY <2>1, <2>2, <2>3, <1>1 DEF RunsRight
  <1>3. ASSUME sinceSample < TickMod
        PROVE  /\ xLastTime + sinceSample \in 0 .. 2 * TickMod - 1
               /\ Wrapped => /\ xLastTime + sinceSample \in TickMod .. 2 * TickMod - 1
                             /\ xTickCount = xLastTime + sinceSample - TickMod
               /\ ~Wrapped => xTickCount = xLastTime + sinceSample
    <2>1. /\ xTickCount \in 0 .. TickMod - 1 /\ xLastTime \in 0 .. TickMod - 1
          /\ sinceSample \in 0 .. TickMod - 1
      BY <1>1, <1>3 DEF TimersInv, TimersTyped
    <2>2. PICK y \in -TickMod .. 3 * TickMod - 1 : y = xLastTime + sinceSample
      BY <2>1, <1>1
    <2>3. y % TickMod = IF y < 0 THEN y + TickMod ELSE IF y < TickMod THEN y
                        ELSE IF y < 2 * TickMod THEN y - TickMod ELSE y - 2 * TickMod
      BY <1>1, CycleFacts
    <2>4. xTickCount = y % TickMod
      BY <2>2, <1>3 DEF TimersInv, SampleRight
    <2>5. xTickCount = IF y < TickMod THEN y ELSE y - TickMod
      BY <2>1, <2>2, <2>3, <2>4, <1>1
    <2>. QED
      BY <2>1, <2>2, <2>5, <1>1 DEF Wrapped
  <1>. QED
    BY <1>1, <1>2, <1>3

LEMMA SwitchedIs ==
  ASSUME NEW ts
  PROVE  Switched(ts) = [t \in Timers |-> SwitchedTimer(ts[t])]
  BY DEF Switched, SwitchedTimer

\* prvSampleTimeNow() leaves all timers right as of the tick it returns.
LEMMA AfterSampleRight ==
  ASSUME TimersAssumption, TimersInv, NEW ts \in [Timers -> TimerRecs],
         \A t \in Timers : TimerRight(ts[t], xLastTime + sinceSample, sinceSample),
         \A t \in Timers : ts[t].asked => sinceSample < TickMod
  PROVE  /\ AfterSample(ts) \in [Timers -> TimerRecs]
         /\ \A t \in Timers : /\ TimerRight(AfterSample(ts)[t], xTickCount, 0)
                              /\ ~ts[t].asked => ~AfterSample(ts)[t].asked
  <1>. DEFINE now == xLastTime + sinceSample
  <1>1. sinceSample \in Nat /\ xLastTime \in Int /\ xTickCount \in Int
    BY NowFacts DEF TimersInv, TimersTyped
  <1>2. CASE Wrapped
    <2>1. AfterSample(ts) = [t \in Timers |-> SwitchedTimer(ts[t])]
      BY <1>2, SwitchedIs DEF AfterSample
    <2>2. ASSUME NEW t \in Timers
          PROVE  /\ TimerRight(SwitchedTimer(ts[t]), xTickCount, 0)
                 /\ ~ts[t].asked => ~SwitchedTimer(ts[t]).asked
      <3>1. now \in Int /\ TimerRight(ts[t], now, sinceSample)
        BY <1>1
      <3>2. ts[t].asked => now \in TickMod .. 2 * TickMod - 1 /\ now - TickMod = xTickCount
        <4>1. ts[t].asked => sinceSample < TickMod
          OBVIOUS
        <4>2. /\ TickMod \in Nat \ {0}
              /\ sinceSample < TickMod =>
                   /\ Wrapped => /\ xLastTime + sinceSample \in TickMod .. 2 * TickMod - 1
                                 /\ xTickCount = xLastTime + sinceSample - TickMod
          BY NowFacts
        <4>3. xLastTime + sinceSample \in Int
          BY <1>1
        <4>. QED
          BY <4>1, <4>2, <4>3, <1>1, <1>2
      <3>. HIDE DEF now
      <3>3. /\ TimerRight(SwitchedTimer(ts[t]), now - TickMod, 0)
            /\ ~ts[t].asked => ~SwitchedTimer(ts[t]).asked
        BY <3>1, <3>2, <1>1, SwitchRight
      <3>4. CASE ts[t].asked
        BY <3>2, <3>3, <3>4
      <3>5. CASE ~ts[t].asked
        BY <3>3, <3>5, UnaskedRight
      <3>. QED
        BY <3>4, <3>5
    <2>3. \A t \in Timers : SwitchedTimer(ts[t]) \in TimerRecs
      BY <2>2 DEF TimerRight
    <2>. QED
      BY <2>1, <2>2, <2>3
  <1>3. CASE ~Wrapped
    <2>1. AfterSample(ts) = ts
      BY <1>3 DEF AfterSample
    <2>2. ASSUME NEW t \in Timers
          PROVE  TimerRight(ts[t], xTickCount, 0)
      <3>1. TimerRight(ts[t], now, sinceSample)
        OBVIOUS
      <3>2. ts[t].asked => now = xTickCount
        BY <1>3, NowFacts
      <3>. HIDE DEF now
      <3>3. TimerRight(ts[t], now, 0)
        BY <3>1, <1>1, LookedRight
      <3>4. CASE ts[t].asked
        BY <3>2, <3>3, <3>4
      <3>5. CASE ~ts[t].asked
        BY <3>3, <3>5, UnaskedRight
      <3>. QED
        BY <3>4, <3>5
    <2>. QED
      BY <2>1, <2>2
  <1>. QED
    BY <1>2, <1>3

LEMMA TimersKeptAgain ==
  ASSUME TimersAssumption, TimersInv, Sampled, timerUse' = timerUse,
         timer' \in [Timers -> TimerRecs],
         \A t \in Timers : TimerRight(timer'[t], xTickCount, 0)
  PROVE  /\ TimersKept' /\ SampleRight' /\ Timers' = Timers
         /\ timer' \in [Timers' -> TimerRecs]
         /\ xTickCount' = xTickCount /\ xTickCount' \in 0 .. MaxTime
         /\ xLastTime' \in 0 .. MaxTime /\ sinceSample' \in 0 .. TickMod
  <1>1. /\ xTickCount \in 0 .. MaxTime /\ xTickCount' = xTickCount /\ xLastTime' = xTickCount
        /\ sinceSample' = 0
    BY DEF TimersInv, TimersTyped, Sampled
  <1>2. TickMod \in Nat \ {0} /\ MaxTime = TickMod - 1
    BY NowFacts
  <1>3. Timers' = Timers
    BY DEF Timers
  <1>4. xLastTime' + sinceSample' = xTickCount
    BY <1>1, <1>2
  <1>5. TimersKept'
    BY <1>1, <1>3, <1>4 DEF TimersKept
  <1>6. xTickCount % TickMod = xTickCount
    <2>1. PICK y \in -TickMod .. 3 * TickMod - 1 : y = xTickCount
      BY <1>1, <1>2
    <2>2. y % TickMod = IF y < 0 THEN y + TickMod ELSE IF y < TickMod THEN y
                        ELSE IF y < 2 * TickMod THEN y - TickMod ELSE y - 2 * TickMod
      BY <1>2, CycleFacts
    <2>. QED
      BY <2>1, <2>2, <1>1, <1>2
  <1>7. SampleRight'
    BY <1>1, <1>4, <1>6 DEF SampleRight
  <1>8. 0 \in 0 .. TickMod
    BY <1>2
  <1>. QED
    BY <1>1, <1>3, <1>5, <1>7, <1>8

LEMMA QueueLeft ==
  ASSUME TimersInv, xTickCount' = xTickCount, timerUse' = timerUse, xTimerQueue' = xTimerQueue
  PROVE  /\ QueueRight' /\ xTimerQueue' \in Seq(Commands)'
         /\ Len(xTimerQueue') <= timerUse'.messages
         /\ timerUse' \in TimerUses
  <1>1. Commands' = Commands
    BY DEF Commands, Timers
  <1>. QED
    BY <1>1 DEF TimersInv, TimersTyped, QueueRight

LEMMA HeadFacts ==
  ASSUME TimersInv, NEW t \in Timers, IsHead(t)
  PROVE  NextExpireTime = timer[t].value /\ timer[t].list = "current"
  <1>. DEFINE h == CHOOSE u \in Current : IsHead(u)
  <1>1. t \in Current /\ timer[t].list = "current"
    BY DEF IsHead, Current
  <1>2. h \in Current /\ IsHead(h)
    BY <1>1
  <1>. HIDE DEF h
  <1>3. timer[t].value <= timer[h].value /\ timer[h].value <= timer[t].value
    BY <1>1, <1>2 DEF IsHead
  <1>4. timer[t].value \in Int /\ timer[h].value \in Int
    <2>1. t \in Timers /\ h \in Timers
      BY <1>1, <1>2 DEF Current
    <2>2. timer[t] \in TimerRecs /\ timer[h] \in TimerRecs
      BY <2>1 DEF TimersInv, TimersTyped
    <2>. QED
      BY <2>2 DEF TimerRecs, MaxTime
  <1>5. NextExpireTime = timer[h].value
    BY <1>1 DEF NextExpireTime, h
  <1>. QED
    BY <1>1, <1>3, <1>4, <1>5

\* The steps of the daemon, of those that send to it, and of time.
LEMMA ExpireKeeps ==
  ASSUME TimersAssumption, TimersInv, timerUse' = timerUse, NEW t \in Timers, ExpireTimer(t)
  PROVE  TimersInv'
  <1>. DEFINE now == xLastTime + sinceSample
  <1>1. timer \in [Timers -> TimerRecs] /\ timer[t] \in TimerRecs /\ sinceSample \in Nat
    BY NowFacts DEF TimersInv, TimersTyped
  <1>2. TimerRight(timer[t], now, sinceSample)
    BY DEF TimersInv, TimersKept
  <1>3. NextExpireTime = timer[t].value /\ timer[t].list = "current"
    BY HeadFacts DEF ExpireTimer
  <1>4. timer[t].asked
    BY <1>2, <1>3 DEF TimerRight
  <1>5. now = xTickCount /\ now \in 0 .. MaxTime
    BY <1>4, NowFacts DEF ExpireTimer, TimersInv, TimersTyped
  <1>6. timer[t].due <= 0
    <2>1. TickMod \in Nat \ {0} /\ timer[t].due \in Int
      BY <1>1, TimerConstants
    <2>. HIDE DEF now
    <2>2. /\ now + timer[t].due \in 0 .. TickMod - 1 
          /\ timer[t].value = (now + timer[t].due) % TickMod
      BY <1>2, <1>3, <1>4, <2>1, <1>5 DEF TimerRight, RunsRight, MaxTime
    <2>3. PICK y \in -TickMod .. 3 * TickMod - 1 : y = now + timer[t].due
      BY <2>1, <2>2
    <2>4. y % TickMod = IF y < 0 THEN y + TickMod ELSE IF y < TickMod THEN y
                        ELSE IF y < 2 * TickMod THEN y - TickMod ELSE y - 2 * TickMod
      BY <2>1, CycleFacts
    <2>5. timer[t].value = y
      BY <2>1, <2>2, <2>3, <2>4
    <2>6. timer[t].value <= now
      BY <1>3, <1>5 DEF ExpireTimer
    <2>. QED
      BY <2>1, <2>3, <2>5, <2>6, <1>5 DEF MaxTime
  <1>7. TimerRight(Expired(timer[t], xTickCount), xTickCount, 0)
    <2>. HIDE DEF now
    <2>. QED
      BY <1>1, <1>2, <1>4, <1>5, <1>6, ExpireRight
  <1>8. timer' = [timer EXCEPT ![t] = Expired(timer[t], xTickCount)] /\ Sampled
        /\ daemon' = "commands" /\ UNCHANGED <<xTimerQueue, xTicksToWait>>
    BY DEF ExpireTimer
  <1>9. AfterSample(timer) = timer
    BY DEF AfterSample, ExpireTimer
  <1>10. \A u \in Timers : TimerRight(timer[u], xTickCount, 0)
    <2>1. \A u \in Timers : TimerRight(timer[u], xLastTime + sinceSample, sinceSample)
      BY DEF TimersInv, TimersKept
    <2>2. \A u \in Timers : timer[u].asked => sinceSample < TickMod
      BY NowFacts
    <2>. QED
      BY <2>1, <2>2, <1>1, <1>9, AfterSampleRight
  <1>11. Expired(timer[t], xTickCount) \in TimerRecs
    BY <1>7 DEF TimerRight
  <1>12. /\ timer' \in [Timers -> TimerRecs]
         /\ \A u \in Timers : TimerRight(timer'[u], xTickCount, 0)
    BY <1>1, <1>7, <1>8, <1>10, <1>11
  <1>13. /\ TimersKept' /\ SampleRight' /\ Timers' = Timers
         /\ timer' \in [Timers' -> TimerRecs]
         /\ xTickCount' = xTickCount /\ xTickCount' \in 0 .. MaxTime
         /\ xLastTime' \in 0 .. MaxTime /\ sinceSample' \in 0 .. TickMod
    BY <1>8, <1>12, TimersKeptAgain
  <1>14. /\ QueueRight' /\ xTimerQueue' \in Seq(Commands)' /\ timerUse' \in TimerUses
         /\ Len(xTimerQueue') <= timerUse'.messages
    BY <1>8, <1>13, QueueLeft
  <1>15. SleepRight'
    BY <1>8 DEF SleepRight
  <1>16. xTicksToWait' \in 0 .. Forever
    BY <1>8 DEF TimersInv, TimersTyped
  <1>. QED
    BY <1>8, <1>13, <1>14, <1>15, <1>16 DEF TimersInv, TimersTyped

LEMMA SwitchKeeps ==
  ASSUME TimersAssumption, TimersInv, timerUse' = timerUse, SwitchTimerLists
  PROVE  TimersInv'
  <1>1. timer \in [Timers -> TimerRecs]
    BY DEF TimersInv, TimersTyped
  <1>2. timer' = AfterSample(timer) /\ Sampled /\ daemon' = "commands"
        /\ UNCHANGED <<xTimerQueue, xTicksToWait>>
    BY DEF SwitchTimerLists, AfterSample
  <1>3. \A u \in Timers : TimerRight(timer[u], xLastTime + sinceSample, sinceSample)
    BY DEF TimersInv, TimersKept
  <1>4. \A u \in Timers : timer[u].asked => sinceSample < TickMod
    BY NowFacts
  <1>5. /\ timer' \in [Timers -> TimerRecs]
        /\ \A u \in Timers : TimerRight(timer'[u], xTickCount, 0)
    BY <1>1, <1>2, <1>3, <1>4, AfterSampleRight
  <1>6. /\ TimersKept' /\ SampleRight' /\ Timers' = Timers
        /\ timer' \in [Timers' -> TimerRecs]
        /\ xTickCount' = xTickCount /\ xTickCount' \in 0 .. MaxTime
        /\ xLastTime' \in 0 .. MaxTime /\ sinceSample' \in 0 .. TickMod
    BY <1>2, <1>5, TimersKeptAgain
  <1>7. /\ QueueRight' /\ xTimerQueue' \in Seq(Commands)' /\ timerUse' \in TimerUses
        /\ Len(xTimerQueue') <= timerUse'.messages
    BY <1>2, <1>6, QueueLeft
  <1>8. SleepRight'
    BY <1>2 DEF SleepRight
  <1>9. xTicksToWait' \in 0 .. Forever
    BY <1>2 DEF TimersInv, TimersTyped
  <1>. QED
    BY <1>2, <1>6, <1>7, <1>8, <1>9 DEF TimersInv, TimersTyped

\* How long the daemon sleeps: until a timer is due or the count wraps, whichever is first.
LEMMA WaitFacts ==
  ASSUME TimersAssumption, TimersInv, ~Wrapped, Current = {} \/ NextExpireTime > xTickCount,
         NEW t \in Timers, timer[t].asked
  PROVE  /\ ~(Current = {} /\ Overflow = {})
         /\ (NextExpireTime - xTickCount) % TickMod \in 0 .. TickMod - 1
         /\ timer[t].due >= 1 /\ timer[t].due >= (NextExpireTime - xTickCount) % TickMod
  <1>. DEFINE now == xLastTime + sinceSample
  <1>1. timer[t] \in TimerRecs /\ RunsRight(timer[t], now, sinceSample)
    BY DEF TimersInv, TimersKept, TimerRight
  <1>2. TickMod \in Nat \ {0} /\ timer[t].due \in Int
    BY <1>1, TimerConstants
  <1>3. now = xTickCount /\ now \in 0 .. TickMod - 1
    BY NowFacts DEF TimersInv, TimersTyped
  <1>. HIDE DEF now
  <1>4. timer[t].list = IF now + timer[t].due < TickMod THEN "current" ELSE "overflow"
    BY <1>1 DEF RunsRight
  <1>5. t \in Current \/ t \in Overflow
    BY <1>4 DEF Current, Overflow
  <1>6. now + timer[t].due \in 0 .. 2 * TickMod - 1
    BY <1>1 DEF RunsRight
  <1>7. t \in Current => timer[t].value = now + timer[t].due
    <2>. SUFFICES ASSUME t \in Current
                  PROVE  timer[t].value = now + timer[t].due
      OBVIOUS
    <2>1. now + timer[t].due < TickMod
      BY <1>4 DEF Current
    <2>2. PICK y \in -TickMod .. 3 * TickMod - 1 : y = now + timer[t].due
      BY <1>2, <1>6
    <2>3. y % TickMod = IF y < 0 THEN y + TickMod ELSE IF y < TickMod THEN y
                        ELSE IF y < 2 * TickMod THEN y - TickMod ELSE y - 2 * TickMod
      BY <1>2, CycleFacts
    <2>4. timer[t].value = y % TickMod
      BY <1>1, <2>2 DEF RunsRight
    <2>. QED
      BY <2>1, <2>2, <2>3, <2>4, <1>2, <1>6
  <1>8. t \notin Current => now + timer[t].due >= TickMod
    BY <1>1, <1>2, <1>3, <1>4 DEF Current, RunsRight
  <1>9. CASE Current = {}
    <2>1. NextExpireTime = 0
      BY <1>9 DEF NextExpireTime
    <2>2. PICK y \in -TickMod .. 3 * TickMod - 1 : y = 0 - now
      BY <1>2, <1>3
    <2>3. y % TickMod = IF y < 0 THEN y + TickMod ELSE IF y < TickMod THEN y
                        ELSE IF y < 2 * TickMod THEN y - TickMod ELSE y - 2 * TickMod
      BY <1>2, CycleFacts
    <2>4. (NextExpireTime - xTickCount) % TickMod = y % TickMod
      BY <2>1, <2>2, <1>3
    <2>5. now + timer[t].due >= TickMod
      BY <1>8, <1>9
    <2>. QED
      BY <2>2, <2>3, <2>4, <2>5, <1>2, <1>3, <1>5, <1>9
  <1>10. CASE Current # {}
    <2>. DEFINE Values == {timer[u].value : u \in Current}
                h == CHOOSE u \in Current : IsHead(u)
    <2>1. \E u \in Current : IsHead(u)
      <3>1. \A u \in Current : timer[u].value \in Nat
        <4>1. \A u \in Current : timer[u] \in TimerRecs
          BY DEF TimersInv, TimersTyped, Current
        <4>. QED
          BY <4>1, <1>2 DEF TimerRecs, MaxTime
      <3>2. PICK n \in Values : \A k \in Values : n <= k
        <4>1. Values \in SUBSET Nat /\ Values # {}
          BY <3>1, <1>10
        <4>. HIDE DEF Values
        <4>. QED
          BY <4>1, LeastNumber
      <3>3. PICK u \in Current : timer[u].value = n
        BY <3>2
      <3>4. \A v \in Current : timer[u].value <= timer[v].value
        BY <3>2, <3>3
      <3>. QED
        BY <3>3, <3>4 DEF IsHead
    <2>2. h \in Current /\ IsHead(h)
      BY <2>1
    <2>. HIDE DEF h
    <2>3. NextExpireTime = timer[h].value
      BY <1>10 DEF NextExpireTime, h
    <2>4. timer[h].value \in 0 .. TickMod - 1
      <3>1. h \in Timers
        BY <2>2 DEF Current
      <3>2. timer[h] \in TimerRecs
        BY <3>1 DEF TimersInv, TimersTyped
      <3>. QED
        BY <3>2 DEF TimerRecs, MaxTime
    <2>5. PICK y \in -TickMod .. 3 * TickMod - 1 : y = timer[h].value - now
      BY <2>4, <1>2, <1>3
    <2>6. y % TickMod = IF y < 0 THEN y + TickMod ELSE IF y < TickMod THEN y
                        ELSE IF y < 2 * TickMod THEN y - TickMod ELSE y - 2 * TickMod
      BY <1>2, CycleFacts
    <2>7. timer[h].value > now
      BY <2>3, <1>3, <1>10
    <2>8. (NextExpireTime - xTickCount) % TickMod = y /\ y \in 1 .. TickMod - 1
      BY <2>3, <2>4, <2>5, <2>6, <2>7, <1>2, <1>3
    <2>9. CASE t \in Current
      <3>1. timer[h].value <= timer[t].value
        BY <2>2, <2>9 DEF IsHead
      <3>2. timer[t].value = now + timer[t].due
        BY <1>7, <2>9
      <3>. QED
        BY <3>1, <3>2, <2>4, <2>5, <2>8, <1>2, <1>3, <1>10
    <2>10. CASE t \notin Current
      <3>1. now + timer[t].due >= TickMod
        BY <1>8, <2>10
      <3>. QED
        BY <3>1, <2>4, <2>5, <2>8, <1>2, <1>3, <1>10
    <2>. QED
      BY <2>9, <2>10
  <1>. QED
    BY <1>9, <1>10

LEMMA BlockKeeps ==
  ASSUME TimersAssumption, TimersInv, timerUse' = timerUse, Block
  PROVE  TimersInv'
  <1>1. timer \in [Timers -> TimerRecs] /\ xTicksToWait \in 0 .. Forever
    BY DEF TimersInv, TimersTyped
  <1>2. /\ timer' = timer /\ Sampled /\ xTimerQueue' = xTimerQueue /\ ~Wrapped
        /\ Current = {} \/ NextExpireTime > xTickCount
    BY DEF Block
  <1>3. timer = AfterSample(timer)
    BY <1>2 DEF AfterSample
  <1>4. \A u \in Timers : TimerRight(timer[u], xLastTime + sinceSample, sinceSample)
    BY DEF TimersInv, TimersKept
  <1>5. \A u \in Timers : timer[u].asked => sinceSample < TickMod
    BY NowFacts
  <1>6. \A u \in Timers : TimerRight(timer[u], xTickCount, 0)
    BY <1>1, <1>3, <1>4, <1>5, AfterSampleRight
  <1>7. /\ TimersKept' /\ SampleRight' /\ Timers' = Timers
        /\ timer' \in [Timers' -> TimerRecs]
        /\ xTickCount' = xTickCount /\ xTickCount' \in 0 .. MaxTime
        /\ xLastTime' \in 0 .. MaxTime /\ sinceSample' \in 0 .. TickMod
    BY <1>1, <1>2, <1>6, TimersKeptAgain
  <1>8. /\ QueueRight' /\ xTimerQueue' \in Seq(Commands)' /\ timerUse' \in TimerUses
        /\ Len(xTimerQueue') <= timerUse'.messages
    BY <1>2, <1>7, QueueLeft
  <1>9. CASE xTimerQueue = <<>>
    <2>. DEFINE wait == (NextExpireTime - xTickCount) % TickMod
    <2>1. /\ daemon' = "asleep"
          /\ xTicksToWait' = IF Current = {} /\ Overflow = {} THEN Forever ELSE wait
      BY <1>9 DEF Block
    <2>2. \A t \in Timers : timer[t].asked =>
            /\ ~(Current = {} /\ Overflow = {}) /\ wait \in 0 .. TickMod - 1
            /\ timer[t].due >= 1 /\ timer[t].due >= wait
      BY <1>2, WaitFacts
    <2>3. \A t \in Timers : timer[t].list # "none" => timer[t].asked
      BY <1>4 DEF TimerRight
    <2>4. (\E t \in Timers : timer[t].asked) <=> ~(Current = {} /\ Overflow = {})
      BY <2>2, <2>3 DEF Current, Overflow
    <2>5. TickMod \in Nat \ {0}
      BY NowFacts
    <2>. HIDE DEF wait
    <2>6. xTicksToWait' \in 0 .. Forever
      BY <2>1, <2>2, <2>4, <2>5 DEF Forever
    <2>7. SleepRight'
      <3>1. \A t \in Timers : timer[t].asked => /\ timer[t].due >= 1
                                                /\ timer[t].due >= xTicksToWait'
                                                /\ xTicksToWait' < Forever
        BY <2>1, <2>2, <2>5 DEF Forever
      <3>. QED
        BY <3>1, <1>2, <1>7, <1>9 DEF SleepRight, Forever
    <2>. QED
      BY <2>1, <2>6, <2>7, <1>7, <1>8 DEF TimersInv, TimersTyped, Forever
  <1>10. CASE xTimerQueue # <<>>
    <2>1. daemon' = "commands" /\ xTicksToWait' = xTicksToWait
      BY <1>10 DEF Block
    <2>2. SleepRight'
      BY <2>1 DEF SleepRight
    <2>. QED
      BY <2>1, <2>2, <1>1, <1>7, <1>8 DEF TimersInv, TimersTyped, Forever
  <1>. QED
    BY <1>9, <1>10

\* What is taken from the queue, and what stays in it.
LEMMA CommandsStay ==
  ASSUME TimersInv, xTimerQueue # <<>>
  PROVE  /\ Head(xTimerQueue) \in Commands /\ CommandRight(Head(xTimerQueue), xTickCount)
         /\ Tail(xTimerQueue) \in Seq(Commands)
         /\ Len(Tail(xTimerQueue)) = Len(xTimerQueue) - 1 /\ Len(xTimerQueue) \in Nat \ {0}
         /\ \A i \in 1 .. Len(Tail(xTimerQueue)) : CommandRight(Tail(xTimerQueue)[i], xTickCount)
  <1>. DEFINE q == xTimerQueue
  <1>1. q \in Seq(Commands) /\ \A i \in 1 .. Len(q) : CommandRight(q[i], xTickCount)
    BY DEF TimersInv, TimersTyped, QueueRight
  <1>. HIDE DEF q
  <1>2. q # <<>>
    BY DEF q
  <1>3. /\ Len(q) \in Nat \ {0} /\ Head(q) = q[1] /\ Head(q) \in Commands
        /\ Tail(q) \in Seq(Commands) /\ Len(Tail(q)) = Len(q) - 1
        /\ \A i \in 1 .. Len(Tail(q)) : Tail(q)[i] = q[i + 1]
    BY <1>1, <1>2
  <1>4. CommandRight(q[1], xTickCount)
    BY <1>1, <1>3
  <1>5. \A i \in 1 .. Len(Tail(q)) : i + 1 \in 1 .. Len(q)
    BY <1>3
  <1>6. \A i \in 1 .. Len(Tail(q)) : CommandRight(Tail(q)[i], xTickCount)
    BY <1>1, <1>3, <1>5
  <1>. QED
    BY <1>3, <1>4, <1>6 DEF q

\* The command at the head is obeyed, with its timer taken out of its list first.
LEMMA ObeyedRight ==
  ASSUME TimersAssumption, TimersInv, NEW m \in Commands, CommandRight(m, xTickCount),
         m.id # "call",
         NEW r, TimerRight(r, xTickCount, 0), ~r.asked
  PROVE  TimerRight(Obeyed(r, m), xTickCount, 0)
  <1>1. r \in TimerRecs /\ ~r.early
    BY DEF TimerRight
  <1>2. xTickCount \in 0 .. MaxTime
    BY DEF TimersInv, TimersTyped
  <1>3. m.id \in {"start", "period", "stop"}
    BY DEF Commands
  <1>4. CASE m.id = "start"
    <2>1. m.age \in 0 .. MaxLag /\ m.value = (xTickCount - m.age) % TickMod
      BY <1>4 DEF CommandRight
    <2>2. Obeyed(r, m) = Started(r, m.value, m.age, xTickCount)
      BY <1>4 DEF Obeyed
    <2>. QED
      BY <2>1, <2>2, <1>1, <1>2, StartedRight
  <1>5. CASE m.id = "stop"
    BY <1>5 DEF Obeyed
  <1>6. CASE m.id = "period"
    <2>. DEFINE e == [r EXCEPT !.period = m.value]
    <2>1. Obeyed(r, m) = Started(e, xTickCount, 0, xTickCount)
      BY <1>6 DEF Obeyed
    <2>2. m.value \in Periods
      BY <1>6 DEF CommandRight
    <2>3. e \in TimerRecs /\ e.early = r.early
      BY <1>1, <2>2 DEF TimerRecs
    <2>. HIDE DEF e
    <2>4. TickMod \in Nat \ {0} /\ MaxTime = TickMod - 1 /\ MaxLag \in 0 .. TickMod - 1
      BY NowFacts DEF TimersAssumption
    <2>5. (xTickCount - 0) % TickMod = xTickCount
      <3>1. PICK y \in -TickMod .. 3 * TickMod - 1 : y = xTickCount - 0
        BY <1>2, <2>4
      <3>2. y % TickMod = IF y < 0 THEN y + TickMod ELSE IF y < TickMod THEN y
                          ELSE IF y < 2 * TickMod THEN y - TickMod ELSE y - 2 * TickMod
        BY <2>4, CycleFacts
      <3>. QED
        BY <3>1, <3>2, <1>2, <2>4
    <2>6. 0 \in 0 .. MaxLag
      BY <2>4
    <2>7. TimerRight(Started(e, (xTickCount - 0) % TickMod, 0, xTickCount), xTickCount, 0)
      BY <2>3, <2>6, <1>1, <1>2, StartedRight
    <2>. QED
      BY <2>1, <2>5, <2>7
  <1>. QED
    BY <1>3, <1>4, <1>5, <1>6

LEMMA ProcessKeeps ==
  ASSUME TimersAssumption, TimersInv, timerUse' = timerUse, ProcessCommand
  PROVE  TimersInv'
  <1>. DEFINE m == Head(xTimerQueue)
  <1>1. timer \in [Timers -> TimerRecs] /\ xTicksToWait \in 0 .. Forever /\ timerUse \in TimerUses
        /\ Len(xTimerQueue) <= timerUse.messages
    BY DEF TimersInv, TimersTyped
  <1>2. /\ daemon = "commands" /\ daemon' = daemon /\ xTicksToWait' = xTicksToWait
        /\ xTimerQueue # <<>> /\ xTimerQueue' = Tail(xTimerQueue)
    BY DEF ProcessCommand
  <1>3. /\ m \in Commands /\ CommandRight(m, xTickCount) /\ Tail(xTimerQueue) \in Seq(Commands)
        /\ Len(Tail(xTimerQueue)) = Len(xTimerQueue) - 1 /\ Len(xTimerQueue) \in Nat \ {0}
        /\ \A i \in 1 .. Len(Tail(xTimerQueue)) : CommandRight(Tail(xTimerQueue)[i], xTickCount)
    BY <1>2, CommandsStay
  <1>4. Timers' = Timers /\ Commands' = Commands
    BY DEF Timers, Commands
  <1>5. xTickCount' = xTickCount
    BY DEF ProcessCommand, Sampled, clockVars
  <1>6. /\ xTimerQueue' \in Seq(Commands)' /\ Len(xTimerQueue') <= timerUse'.messages
        /\ timerUse' \in TimerUses
    <2>1. timerUse.messages \in Nat
      BY <1>1 DEF TimersAssumption
    <2>. QED
      BY <2>1, <1>1, <1>2, <1>3, <1>4
  <1>7. QueueRight'
    <2>1. \A i \in 1 .. Len(xTimerQueue') : CommandRight(xTimerQueue'[i], xTickCount)
      BY <1>2, <1>3
    <2>. QED
      BY <2>1, <1>5 DEF QueueRight
  <1>8. SleepRight'
    BY <1>2 DEF SleepRight
  <1>9. CASE m.id = "call"
    <2>1. UNCHANGED <<timer, xTickCount, xLastTime, sinceSample>>
      BY <1>9 DEF ProcessCommand, clockVars
    <2>. QED
      BY <2>1, <1>1, <1>2, <1>4, <1>6, <1>7, <1>8
         DEF TimersInv, TimersTyped, TimersKept, SampleRight, Forever
  <1>10. CASE m.id # "call"
    <2>. DEFINE t  == m.timer
                t0 == [timer EXCEPT ![t] = Stopped(timer[t])]
                ts == AfterSample(t0)
    <2>1. timer' = [ts EXCEPT ![t] = Obeyed(ts[t], m)] /\ Sampled
      BY <1>10 DEF ProcessCommand
    <2>2. t \in Timers
      BY <1>3 DEF Commands
    <2>. HIDE DEF t, m
    <2>3. /\ timer[t] \in TimerRecs /\ ~timer[t].early
          /\ \A u \in Timers : TimerRight(timer[u], xLastTime + sinceSample, sinceSample)
      BY <2>2 DEF TimersInv, TimersKept, TimerRight
    <2>4. LET s == Stopped(timer[t]) IN
          s \in TimerRecs /\ s.early = timer[t].early /\ s.list = "none" /\ ~s.asked /\ ~s.active
      BY <2>3, StoppedFacts
    <2>5. TimerRight(Stopped(timer[t]), xLastTime + sinceSample, sinceSample)
      BY <2>3, <2>4 DEF TimerRight
    <2>6. t0 \in [Timers -> TimerRecs] /\ t0[t] = Stopped(timer[t])
          /\ \A u \in Timers \ {t} : t0[u] = timer[u]
      BY <1>1, <2>2, <2>4
    <2>. HIDE DEF t0
    <2>7. \A u \in Timers : TimerRight(t0[u], xLastTime + sinceSample, sinceSample)
      BY <2>3, <2>5, <2>6
    <2>8. \A u \in Timers : t0[u].asked => sinceSample < TickMod
      <3>1. \A u \in Timers : timer[u].asked => sinceSample < TickMod
        BY NowFacts
      <3>. QED
        BY <3>1, <2>4, <2>6
    <2>9. /\ ts \in [Timers -> TimerRecs]
          /\ \A u \in Timers : /\ TimerRight(ts[u], xTickCount, 0)
                               /\ ~t0[u].asked => ~ts[u].asked
      BY <2>6, <2>7, <2>8, AfterSampleRight
    <2>. HIDE DEF ts
    <2>10. TimerRight(ts[t], xTickCount, 0) /\ ~ts[t].asked
      BY <2>2, <2>4, <2>6, <2>9
    <2>11. TimerRight(Obeyed(ts[t], m), xTickCount, 0)
      BY <2>10, <1>3, <1>10, ObeyedRight
    <2>12. Obeyed(ts[t], m) \in TimerRecs
      BY <2>11 DEF TimerRight
    <2>13. /\ timer' \in [Timers -> TimerRecs]
           /\ \A u \in Timers : TimerRight(timer'[u], xTickCount, 0)
      BY <2>1, <2>9, <2>11, <2>12
    <2>14. /\ TimersKept' /\ SampleRight' /\ timer' \in [Timers' -> TimerRecs]
           /\ xTickCount' = xTickCount /\ xTickCount' \in 0 .. MaxTime
           /\ xLastTime' \in 0 .. MaxTime /\ sinceSample' \in 0 .. TickMod
      BY <2>1, <2>13, TimersKeptAgain
    <2>. QED
      BY <2>14, <1>1, <1>2, <1>6, <1>7, <1>8 DEF TimersInv, TimersTyped, Forever
  <1>. QED
    BY <1>9, <1>10

LEMMA NoMoreKeeps ==
  ASSUME TimersAssumption, TimersInv, timerUse' = timerUse, NoMoreCommands
  PROVE  TimersInv'
  <1>1. /\ UNCHANGED <<timer, xTickCount, xLastTime, sinceSample, xTimerQueue, xTicksToWait>>
        /\ daemon' = "loop"
    BY DEF NoMoreCommands, clockVars
  <1>2. Timers' = Timers
    BY DEF Timers
  <1>3. /\ QueueRight' /\ xTimerQueue' \in Seq(Commands)' /\ timerUse' \in TimerUses
        /\ Len(xTimerQueue') <= timerUse'.messages
    BY <1>1, QueueLeft
  <1>. QED
    BY <1>1, <1>2, <1>3
       DEF TimersInv, TimersTyped, TimersKept, SampleRight, SleepRight, Forever

\* What is sent is right when it is.
LEMMA SentRight ==
  ASSUME TimersAssumption, TimersInv, NEW t \in Timers, NEW m \in Messages(t)
  PROVE  m \in Commands /\ CommandRight(m, xTickCount)
  <1>1. /\ TickMod \in Nat \ {0} /\ MaxLag \in 0 .. TickMod - 1 /\ Periods \subseteq Int
        /\ xTickCount \in 0 .. TickMod - 1
    BY DEF TimersAssumption, TimersInv, TimersTyped, MaxTime
  <1>2. ASSUME NEW age \in 0 .. MaxLag, m = [id |-> "start", timer |-> t,
                 value |-> (xTickCount - age) % TickMod, age |-> age]
        PROVE  m \in Commands /\ CommandRight(m, xTickCount)
    <2>1. PICK v : v = (xTickCount - age) % TickMod
      OBVIOUS
    <2>2. v \in Int
      <3>1. PICK y \in -TickMod .. 3 * TickMod - 1 : y = xTickCount - age
        BY <1>1
      <3>2. y % TickMod \in 0 .. TickMod - 1
        BY <1>1, CycleFacts
      <3>. QED
        BY <3>1, <3>2, <2>1, <1>1
    <2>3. m = [id |-> "start", timer |-> t, value |-> v, age |-> age]
      BY <1>2, <2>1
    <2>4. m \in Commands
      BY <2>2, <2>3, <1>1 DEF Commands
    <2>5. m.id = "start" /\ m.value = v /\ m.age = age
      BY <2>3
    <2>. QED
      BY <2>1, <2>4, <2>5 DEF CommandRight
  <1>3. ASSUME NEW p \in Periods, m = [id |-> "period", timer |-> t, value |-> p, age |-> 0]
        PROVE  m \in Commands /\ CommandRight(m, xTickCount)
    BY <1>1, <1>3 DEF Commands, CommandRight
  <1>4. ASSUME NEW id \in {"stop", "call"}, m = [id |-> id, timer |-> t, value |-> 0, age |-> 0]
        PROVE  m \in Commands /\ CommandRight(m, xTickCount)
    BY <1>4 DEF Commands, CommandRight
  <1>5. \/ \E age \in 0 .. MaxLag : m = [id |-> "start", timer |-> t,
                                     value |-> (xTickCount - age) % TickMod, age |-> age]
        \/ \E p \in Periods : m = [id |-> "period", timer |-> t, value |-> p, age |-> 0]
        \/ \E id \in {"stop", "call"} : m = [id |-> id, timer |-> t, value |-> 0, age |-> 0]
    BY DEF Messages
  <1>. QED
    BY <1>2, <1>3, <1>4, <1>5

LEMMA SendKeeps ==
  ASSUME TimersAssumption, TimersInv, timerUse' = timerUse, NEW t \in Timers,
         NEW m \in Messages(t), Send(m)
  PROVE  TimersInv'
  <1>1. /\ UNCHANGED <<timer, xTickCount, xLastTime, sinceSample, xTicksToWait>>
        /\ xTimerQueue' = Append(xTimerQueue, m) /\ Len(xTimerQueue) < timerUse.messages
        /\ daemon' = IF daemon = "asleep" THEN "commands" ELSE daemon
    BY DEF Send, clockVars
  <1>2. Timers' = Timers /\ Commands' = Commands
    BY DEF Timers, Commands
  <1>3. m \in Commands /\ CommandRight(m, xTickCount)
    BY SentRight
  <1>4. xTimerQueue \in Seq(Commands) /\ timerUse \in TimerUses
    BY DEF TimersInv, TimersTyped
  <1>5. /\ xTimerQueue' \in Seq(Commands) /\ Len(xTimerQueue') = Len(xTimerQueue) + 1
        /\ Len(xTimerQueue) \in Nat
        /\ \A i \in 1 .. Len(xTimerQueue) : xTimerQueue'[i] = xTimerQueue[i]
        /\ xTimerQueue'[Len(xTimerQueue) + 1] = m
    BY <1>1, <1>3, <1>4
  <1>6. Len(xTimerQueue') <= timerUse'.messages
    <2>1. timerUse.messages \in Nat
      BY <1>4 DEF TimersAssumption
    <2>. QED
      BY <2>1, <1>1, <1>5
  <1>7. QueueRight'
    <2>1. \A i \in 1 .. Len(xTimerQueue) : CommandRight(xTimerQueue[i], xTickCount)
      BY DEF TimersInv, QueueRight
    <2>2. \A i \in 1 .. Len(xTimerQueue') : i \in 1 .. Len(xTimerQueue) \/ i = Len(xTimerQueue) + 1
      BY <1>5
    <2>3. \A i \in 1 .. Len(xTimerQueue') : CommandRight(xTimerQueue'[i], xTickCount)
      BY <2>1, <2>2, <1>3, <1>5
    <2>. QED
      BY <2>3, <1>1 DEF QueueRight
  <1>8. daemon' # "asleep" /\ daemon' \in {"loop", "asleep", "commands"}
    BY <1>1 DEF TimersInv, TimersTyped
  <1>. QED
    BY <1>1, <1>2, <1>4, <1>5, <1>6, <1>7, <1>8
       DEF TimersInv, TimersTyped, TimersKept, SampleRight, SleepRight, Forever

LEMMA ReloadKeeps ==
  ASSUME TimersAssumption, TimersInv, timerUse' = timerUse, NEW t \in Timers,
         NEW reload \in BOOLEAN, SetReloadMode(t, reload)
  PROVE  TimersInv'
  <1>1. /\ UNCHANGED <<xTickCount, xLastTime, sinceSample, xTimerQueue, daemon, xTicksToWait>>
        /\ timer' = [timer EXCEPT ![t].reload = reload]
    BY DEF SetReloadMode, clockVars
  <1>2. Timers' = Timers
    BY DEF Timers
  <1>3. /\ QueueRight' /\ xTimerQueue' \in Seq(Commands)' /\ timerUse' \in TimerUses
        /\ Len(xTimerQueue') <= timerUse'.messages
    BY <1>1, QueueLeft
  <1>4. timer \in [Timers -> TimerRecs] /\ timer[t] \in TimerRecs
    BY DEF TimersInv, TimersTyped
  <1>. DEFINE r == timer[t]
              e == [r EXCEPT !.reload = reload]
  <1>5. timer' = [timer EXCEPT ![t] = e]
    BY <1>1, <1>4
  <1>6. /\ e \in TimerRecs /\ e.list = r.list /\ e.early = r.early /\ e.period = r.period
        /\ e.asked = r.asked /\ e.active = r.active /\ e.due = r.due /\ e.value = r.value
    BY <1>4 DEF TimerRecs
  <1>. HIDE DEF e
  <1>7. /\ timer' \in [Timers -> TimerRecs] /\ timer'[t] = e
        /\ \A u \in Timers \ {t} : timer'[u] = timer[u]
    BY <1>4, <1>5, <1>6
  <1>8. \A a, b : TimerRight(r, a, b) => TimerRight(e, a, b)
    BY <1>6 DEF TimerRight, RunsRight
  <1>9. \A u \in Timers : TimerRight(timer'[u], xLastTime + sinceSample, sinceSample)
    BY <1>7, <1>8 DEF TimersInv, TimersKept
  <1>10. TimersKept'
    BY <1>1, <1>2, <1>9 DEF TimersKept
  <1>11. SleepRight'
    <2>1. \A u \in Timers : timer'[u].asked = timer[u].asked /\ timer'[u].due = timer[u].due
      BY <1>6, <1>7
    <2>. QED
      BY <2>1, <1>1, <1>2 DEF TimersInv, SleepRight, Forever
  <1>. QED
    BY <1>1, <1>2, <1>3, <1>7, <1>10, <1>11 DEF TimersInv, TimersTyped, SampleRight, Forever

\* A message is a tick older, and so is the tick count.
LEMMA OlderFacts ==
  ASSUME NEW m \in Nat \ {0}, NEW now \in 0 .. m - 1, NEW age \in 0 .. m - 2
  PROVE  (((now + 1) % m) - (age + 1)) % m = (now - age) % m
  <1>1. PICK y \in -m .. 3 * m - 1 : y = now + 1
    OBVIOUS
  <1>2. y % m = IF y < 0 THEN y + m ELSE IF y < m THEN y ELSE IF y < 2 * m THEN y - m
                ELSE y - 2 * m
    BY CycleFacts
  <1>3. PICK n : n = (now + 1) % m
    OBVIOUS
  <1>4. n = IF now = m - 1 THEN 0 ELSE now + 1
    BY <1>1, <1>2, <1>3
  <1>5. PICK a \in -m .. 3 * m - 1 : a = n - (age + 1)
    BY <1>4
  <1>6. a % m = IF a < 0 THEN a + m ELSE IF a < m THEN a ELSE IF a < 2 * m THEN a - m
                ELSE a - 2 * m
    BY CycleFacts
  <1>7. PICK b \in -m .. 3 * m - 1 : b = now - age
    OBVIOUS
  <1>8. b % m = IF b < 0 THEN b + m ELSE IF b < m THEN b ELSE IF b < 2 * m THEN b - m
                ELSE b - 2 * m
    BY CycleFacts
  <1>9. a % m = b % m
    BY <1>4, <1>5, <1>6, <1>7, <1>8
  <1>. QED
    BY <1>3, <1>5, <1>7, <1>9

LEMMA TickKeeps ==
  ASSUME TimersAssumption, TimersInv, timerUse' = timerUse, Tick
  PROVE  TimersInv'
  <1>. DEFINE q == xTimerQueue
              Older(i) == IF q[i].id = "start" THEN [q[i] EXCEPT !.age = @ + 1] ELSE q[i]
              Nearer(t) == IF timer[t].asked THEN [timer[t] EXCEPT !.due = @ - 1] ELSE timer[t]
  <1>1. /\ TickMod \in Nat \ {0} /\ MaxTime = TickMod - 1 /\ MaxLag \in 0 .. TickMod - 1
        /\ xTickCount \in 0 .. TickMod - 1 /\ xLastTime \in 0 .. TickMod - 1
        /\ sinceSample \in 0 .. TickMod /\ xTicksToWait \in 0 .. TickMod
    BY NowFacts DEF TimersAssumption, TimersInv, TimersTyped, Forever
  <1>2. /\ xTickCount' = (xTickCount + 1) % TickMod /\ xLastTime' = xLastTime
        /\ sinceSample' = IF sinceSample = TickMod THEN TickMod ELSE sinceSample + 1
        /\ timer' = [t \in Timers |-> Nearer(t)]
        /\ xTimerQueue' = [i \in 1 .. Len(q) |-> Older(i)]
    BY DEF Tick
  <1>3. /\ daemon' = IF daemon = "asleep" /\ xTicksToWait <= 1 THEN "commands" ELSE daemon
        /\ xTicksToWait' = IF daemon = "asleep" /\ xTicksToWait \in 1 .. Forever - 1
                             THEN xTicksToWait - 1 ELSE xTicksToWait
    BY DEF Tick
  <1>4. Timers' = Timers /\ Commands' = Commands /\ Forever = TickMod /\ Forever' = TickMod
    BY DEF Timers, Commands, Forever
  <1>5. sinceSample' \in 0 .. TickMod
    BY <1>1, <1>2
  <1>6. PICK n : n = (xTickCount + 1) % TickMod
    OBVIOUS
  <1>7. n = IF xTickCount = TickMod - 1 THEN 0 ELSE xTickCount + 1
    <2>1. PICK y \in -TickMod .. 3 * TickMod - 1 : y = xTickCount + 1
      BY <1>1
    <2>2. y % TickMod = IF y < 0 THEN y + TickMod ELSE IF y < TickMod THEN y
                        ELSE IF y < 2 * TickMod THEN y - TickMod ELSE y - 2 * TickMod
      BY <1>1, CycleFacts
    <2>. QED
      BY <2>1, <2>2, <1>1, <1>6
  <1>8. xTickCount' \in 0 .. MaxTime
    BY <1>1, <1>2, <1>6, <1>7
  <1>9. SampleRight'
    <2>. SUFFICES ASSUME sinceSample' < TickMod
                  PROVE  xTickCount' = (xLastTime' + sinceSample') % TickMod
      BY DEF SampleRight
    <2>1. sinceSample < TickMod /\ sinceSample' = sinceSample + 1
      BY <1>1, <1>2
    <2>2. xTickCount = (xLastTime + sinceSample) % TickMod
      BY <2>1 DEF TimersInv, SampleRight
    <2>3. PICK y \in -TickMod .. 3 * TickMod - 1 : y = xLastTime + sinceSample
      BY <2>1, <1>1
    <2>4. PICK z \in -TickMod .. 3 * TickMod - 1 : z = xLastTime' + sinceSample'
      BY <2>1, <1>1, <1>2
    <2>5. z = y + 1 /\ y < 2 * TickMod - 1
      <3>1. xLastTime' = xLastTime
        BY <1>2
      <3>2. xLastTime \in Nat /\ sinceSample \in Nat /\ xLastTime <= TickMod - 1
        BY <1>1
      <3>. QED
        BY <3>1, <3>2, <2>1, <2>3, <2>4, <1>1
    <2>6. y % TickMod = IF y < 0 THEN y + TickMod ELSE IF y < TickMod THEN y
                        ELSE IF y < 2 * TickMod THEN y - TickMod ELSE y - 2 * TickMod
      BY <1>1, CycleFacts
    <2>7. z % TickMod = IF z < 0 THEN z + TickMod ELSE IF z < TickMod THEN z
                        ELSE IF z < 2 * TickMod THEN z - TickMod ELSE z - 2 * TickMod
      BY <1>1, CycleFacts
    <2>8. xTickCount = IF y < TickMod THEN y ELSE y - TickMod
      BY <2>1, <2>2, <2>3, <2>6, <1>1
    <2>9. n = z % TickMod
      BY <2>1, <2>3, <2>5, <2>7, <2>8, <1>1, <1>7
    <2>. QED
      BY <2>4, <2>9, <1>2, <1>6
  <1>10. ASSUME NEW t \in Timers
         PROVE  /\ TimerRight(Nearer(t), xLastTime' + sinceSample', sinceSample')
                /\ Nearer(t) \in TimerRecs /\ Nearer(t).asked = timer[t].asked
                /\ timer[t].asked => Nearer(t).due = timer[t].due - 1
    <2>1. TimerRight(timer[t], xLastTime + sinceSample, sinceSample)
      BY DEF TimersInv, TimersKept
    <2>2. timer[t] \in TimerRecs
      BY <2>1 DEF TimerRight
    <2>3. CASE ~timer[t].asked
      <3>1. Nearer(t) = timer[t]
        BY <2>3
      <3>. HIDE DEF Nearer
      <3>2. TimerRight(timer[t], xLastTime' + sinceSample', sinceSample')
        BY <2>1, <2>3, UnaskedRight
      <3>. QED
        BY <3>1, <3>2, <2>2, <2>3
    <2>4. CASE timer[t].asked
      <3>1. sinceSample < TickMod /\ sinceSample' = sinceSample + 1
        BY <2>4, <1>1, <1>2, NowFacts
      <3>2. timer[t].due > -MaxLag
        BY <2>4 DEF Tick
      <3>3. RunsRight(timer[t], xLastTime + sinceSample, sinceSample)
        BY <2>1, <2>4 DEF TimerRight
      <3>4. /\ timer[t].due \in -TickMod .. TickMod /\ timer[t].due \in Int
            /\ timer[t].period \in Nat
        BY <2>2, TimerConstants
      <3>5. PICK d : d = timer[t].due - 1
        OBVIOUS
      <3>6. d \in -TickMod .. TickMod /\ d >= -MaxLag
        BY <3>2, <3>4, <3>5, <1>1
      <3>7. Nearer(t) = [timer[t] EXCEPT !.due = d]
        BY <2>4, <3>5
      <3>. DEFINE e == [timer[t] EXCEPT !.due = d]
      <3>8. /\ e \in TimerRecs /\ e.due = d /\ e.list = timer[t].list /\ e.early = timer[t].early
            /\ e.period = timer[t].period /\ e.asked = timer[t].asked
            /\ e.active = timer[t].active /\ e.value = timer[t].value
        BY <2>2, <3>6 DEF TimerRecs
      <3>. HIDE DEF e, Nearer
      <3>9. (xLastTime' + sinceSample') + e.due = (xLastTime + sinceSample) + timer[t].due
        BY <3>1, <3>4, <3>5, <3>8, <1>1, <1>2
      <3>10. sinceSample' + e.due <= e.period
        BY <3>1, <3>3, <3>4, <3>5, <3>8, <1>1 DEF RunsRight
      <3>11. RunsRight(e, xLastTime' + sinceSample', sinceSample')
        BY <3>3, <3>6, <3>8, <3>9, <3>10 DEF RunsRight
      <3>12. TimerRight(e, xLastTime' + sinceSample', sinceSample')
        BY <3>8, <3>11, <2>1, <2>4 DEF TimerRight
      <3>. QED
        BY <3>5, <3>7, <3>8, <3>12 DEF e
    <2>. QED
      BY <2>3, <2>4
  <1>. HIDE DEF Nearer
  <1>11. timer' \in [Timers -> TimerRecs] /\ TimersKept'
    BY <1>2, <1>4, <1>10 DEF TimersKept
  <1>12. q \in Seq(Commands) /\ Len(q) \in Nat /\ Len(q) <= timerUse.messages
         /\ timerUse \in TimerUses
    BY DEF TimersInv, TimersTyped
  <1>13. \A i \in 1 .. Len(q) : /\ q[i] \in Commands /\ CommandRight(q[i], xTickCount)
                                /\ q[i].age < MaxLag
    BY <1>12 DEF TimersInv, QueueRight, Tick
  <1>14. ASSUME NEW i \in 1 .. Len(q)
         PROVE  Older(i) \in Commands /\ CommandRight(Older(i), xTickCount')
    <2>1. /\ q[i] \in Commands /\ CommandRight(q[i], xTickCount)
          /\ q[i].age < MaxLag /\ q[i].age \in Int
      BY <1>13 DEF Commands
    <2>2. CASE q[i].id = "start"
      <3>1. q[i].age \in 0 .. MaxLag /\ q[i].value = (xTickCount - q[i].age) % TickMod
        BY <2>1, <2>2 DEF CommandRight
      <3>2. PICK a : a = q[i].age + 1
        OBVIOUS
      <3>3. a \in 0 .. MaxLag /\ q[i].age \in 0 .. TickMod - 2
        <4>1. PICK b \in Int : b = q[i].age
          BY <2>1
        <4>2. b \in 0 .. MaxLag /\ b < MaxLag /\ a = b + 1
          BY <4>1, <2>1, <3>1, <3>2
        <4>. QED
          BY <4>1, <4>2, <1>1
      <3>4. Older(i) = [q[i] EXCEPT !.age = a]
        BY <2>2, <3>2
      <3>. DEFINE e == [q[i] EXCEPT !.age = a]
      <3>5. e \in Commands /\ e.id = q[i].id /\ e.value = q[i].value /\ e.age = a
        BY <2>1, <3>3 DEF Commands
      <3>. HIDE DEF e, Older
      <3>6. (((xTickCount + 1) % TickMod) - (q[i].age + 1)) % TickMod
              = (xTickCount - q[i].age) % TickMod
        BY <3>3, <1>1, OlderFacts
      <3>7. e.value = (xTickCount' - e.age) % TickMod
        BY <3>1, <3>2, <3>5, <3>6, <1>2
      <3>8. CommandRight(e, xTickCount')
        BY <3>3, <3>5, <3>7, <2>2 DEF CommandRight
      <3>. QED
        BY <3>4, <3>5, <3>8 DEF e
    <2>3. CASE q[i].id # "start"
      <3>1. Older(i) = q[i]
        BY <2>3
      <3>2. \A now : q[i].id = "start" \/ CommandRight(q[i], now)
        BY <2>1, <2>3 DEF CommandRight
      <3>. HIDE DEF Older
      <3>. QED
        BY <3>1, <3>2, <2>1, <2>3
    <2>. QED
      BY <2>2, <2>3
  <1>15. /\ xTimerQueue' \in Seq(Commands) /\ Len(xTimerQueue') = Len(q)
         /\ \A i \in 1 .. Len(q) : xTimerQueue'[i] = Older(i)
    <2>. HIDE DEF q, Older
    <2>1. [i \in 1 .. Len(q) |-> Older(i)] \in Seq(Commands)
      BY <1>12, <1>14, IsASeq
    <2>. QED
      BY <2>1, <1>2, <1>12
  <1>16. QueueRight'
    <2>. HIDE DEF q, Older
    <2>. QED
      BY <1>14, <1>15 DEF QueueRight
  <1>17. daemon' \in {"loop", "asleep", "commands"} /\ xTicksToWait' \in 0 .. TickMod
    BY <1>1, <1>3, <1>4 DEF TimersInv, TimersTyped
  <1>18. SleepRight'
    <2>. SUFFICES ASSUME daemon' = "asleep"
                  PROVE  /\ xTimerQueue' = <<>>
                         /\ \A t \in Timers : timer'[t].asked =>
                              /\ timer'[t].due >= 1 /\ timer'[t].due >= xTicksToWait'
                              /\ xTicksToWait' < TickMod
      BY <1>4 DEF SleepRight
    <2>1. daemon = "asleep" /\ ~(xTicksToWait <= 1)
      BY <1>3
    <2>2. /\ q = <<>>
          /\ \A t \in Timers : timer[t].asked => timer[t].due >= 1 /\ timer[t].due >= xTicksToWait
                                                 /\ xTicksToWait < TickMod
      BY <2>1, <1>4 DEF TimersInv, SleepRight
    <2>3. xTimerQueue' = <<>>
      BY <2>2, <1>15
    <2>4. ASSUME NEW t \in Timers, timer'[t].asked
          PROVE  timer'[t].due >= 1 /\ timer'[t].due >= xTicksToWait' /\ xTicksToWait' < TickMod
      <3>1. timer'[t] = Nearer(t)
        BY <1>2
      <3>2. timer[t].asked /\ timer'[t].due = timer[t].due - 1
        BY <3>1, <2>4, <1>10
      <3>3. timer[t].due \in Int
        BY TimerConstants DEF TimersInv, TimersTyped
      <3>4. timer[t].due >= xTicksToWait /\ xTicksToWait < TickMod
        BY <3>2, <2>2
      <3>5. xTicksToWait' = xTicksToWait - 1
        BY <3>4, <2>1, <1>1, <1>3, <1>4
      <3>. QED
        BY <3>2, <3>3, <3>4, <3>5, <2>1, <1>1
    <2>. QED
      BY <2>3, <2>4
  <1>19. Len(xTimerQueue') <= timerUse'.messages /\ timerUse' \in TimerUses
    BY <1>12, <1>15
  <1>20. xLastTime' \in 0 .. MaxTime
    BY <1>1, <1>2
  <1>. QED
    BY <1>4, <1>5, <1>8, <1>9, <1>11, <1>15, <1>16, <1>17, <1>18, <1>19, <1>20
       DEF TimersInv, TimersTyped

LEMMA TimersStart ==
  ASSUME TimersAssumption, TimersInit
  PROVE  TimersInv
  <1>1. /\ TickMod \in Nat \ {0} /\ 0 \in 0 .. MaxTime /\ 0 \in -TickMod .. TickMod
        /\ 0 \in 0 .. TickMod
    BY DEF TimersAssumption, MaxTime
  <1>2. timerUse \in TimerUses /\ timerUse.messages \in Nat
    BY DEF TimersInit, TimersAssumption
  <1>3. ASSUME NEW p \in Periods, NEW reload \in BOOLEAN, NEW a, NEW b
        PROVE  Created(p, reload) \in TimerRecs /\ TimerRight(Created(p, reload), a, b)
               /\ ~Created(p, reload).asked
    BY <1>1 DEF Created, TimerRecs, TimerRight
  <1>4. timer \in [Timers -> {Created(p, reload) : p \in Periods, reload \in BOOLEAN}]
    BY DEF TimersInit
  <1>5. timer \in [Timers -> TimerRecs]
    BY <1>3, <1>4
  <1>6. TimersKept
    BY <1>3, <1>4 DEF TimersKept
  <1>7. SampleRight
    <2>1. xTickCount = 0 /\ xLastTime + sinceSample = 0
      BY DEF TimersInit
    <2>2. 0 % TickMod = 0
      <3>1. 0 \in -TickMod .. 3 * TickMod - 1 /\ 0 < TickMod
        BY <1>1
      <3>. QED
        BY <3>1, <1>1, CycleFacts
    <2>. QED
      BY <2>1, <2>2 DEF SampleRight
  <1>8. xTimerQueue = <<>> /\ daemon = "loop"
    BY DEF TimersInit
  <1>9. xTimerQueue \in Seq(Commands) /\ Len(xTimerQueue) = 0
    BY <1>8
  <1>10. QueueRight /\ SleepRight
    BY <1>8, <1>9 DEF QueueRight, SleepRight
  <1>. QED
    BY <1>1, <1>2, <1>5, <1>6, <1>7, <1>8, <1>9, <1>10
       DEF TimersInv, TimersTyped, TimersInit, Forever

LEMMA TimersStep ==
  ASSUME TimersAssumption, TimersInv, [TimersNext]_timersVars
  PROVE  TimersInv'
  <1>1. CASE UNCHANGED timersVars
    <2>1. Timers' = Timers /\ Commands' = Commands /\ Forever' = Forever
      BY <1>1 DEF timersVars, Timers, Commands, Forever
    <2>2. /\ UNCHANGED <<timerUse, timer, xTickCount, xLastTime, sinceSample, xTimerQueue, daemon,
                         xTicksToWait>>
      BY <1>1 DEF timersVars, clockVars
    <2>3. /\ QueueRight' /\ xTimerQueue' \in Seq(Commands)' /\ timerUse' \in TimerUses
          /\ Len(xTimerQueue') <= timerUse'.messages
      BY <2>2, QueueLeft
    <2>. QED
      BY <2>1, <2>2, <2>3 DEF TimersInv, TimersTyped, TimersKept, SampleRight, SleepRight
  <1>2. CASE TimersNext
    <2>1. timerUse' = timerUse
      BY <1>2 DEF TimersNext
    <2>2. CASE SwitchTimerLists
      BY <2>1, <2>2, SwitchKeeps
    <2>3. CASE Block
      BY <2>1, <2>3, BlockKeeps
    <2>4. CASE ProcessCommand
      BY <2>1, <2>4, ProcessKeeps
    <2>5. CASE NoMoreCommands
      BY <2>1, <2>5, NoMoreKeeps
    <2>6. CASE Tick
      BY <2>1, <2>6, TickKeeps
    <2>7. ASSUME NEW t \in Timers, ExpireTimer(t)
          PROVE  TimersInv'
      BY <2>1, <2>7, ExpireKeeps
    <2>8. ASSUME NEW t \in Timers, NEW m \in Messages(t), Send(m)
          PROVE  TimersInv'
      BY <2>1, <2>8, SendKeeps
    <2>9. ASSUME NEW t \in Timers, NEW reload \in BOOLEAN, SetReloadMode(t, reload)
          PROVE  TimersInv'
      BY <2>1, <2>9, ReloadKeeps
    <2>. QED
      BY <1>2, <2>2, <2>3, <2>4, <2>5, <2>6, <2>7, <2>8, <2>9 DEF TimersNext
  <1>. QED
    BY <1>1, <1>2

LEMMA TimersImplied ==
  ASSUME TimersAssumption, TimersInv
  PROVE  TimersTypeOK /\ TimersRight
  <1>1. \A t \in Timers : TimerRight(timer[t], xLastTime + sinceSample, sinceSample)
    BY DEF TimersInv, TimersKept
  <1>2. TimersTypeOK
    <2>1. {xTickCount, xLastTime} \subseteq 0 .. MaxTime
      BY DEF TimersInv, TimersTyped
    <2>. QED
      BY <2>1 DEF TimersInv, TimersTyped, TimersTypeOK, TimerRecs
  <1>3. CalledWhenDue
    BY <1>1 DEF CalledWhenDue, TimerRight
  <1>4. ListedRight
    BY <1>1 DEF ListedRight, TimerRight, RunsRight
  <1>5. SleepsInTime
    <2>1. \A t \in Timers : timer[t].asked => (timer[t].due >= 1 => timer[t].due > 0)
      <3>1. \A t \in Timers : timer[t] \in TimerRecs
        BY DEF TimersInv, TimersTyped
      <3>2. \A t \in Timers : timer[t].due \in Int
        BY <3>1, TimerConstants
      <3>. QED
        BY <3>2
    <2>. QED
      BY <2>1 DEF SleepsInTime, TimersInv, SleepRight
  <1>. QED
    BY <1>2, <1>3, <1>4, <1>5 DEF TimersRight

\* Software timers are called when they are due and never early, once for each period,
\* however late the daemon and the messages are and wherever the tick count wraps; each is in the
\* list of the cycle in which it is due, and the daemon does not sleep beyond the next
\* (prvProcessTimerOrBlockTask(), prvSampleTimeNow(), prvInsertTimerInActiveList()).
THEOREM SoftwareTimersCorrect ==
  ASSUME TimersAssumption
  PROVE  TimersSpec => [](TimersTypeOK /\ TimersRight)
  <1>1. TimersInit => TimersInv
    BY TimersStart
  <1>2. TimersInv /\ [TimersNext]_timersVars => TimersInv'
    BY TimersStep
  <1>3. TimersInv => TimersTypeOK /\ TimersRight
    BY TimersImplied
  <1>. QED
    BY <1>1, <1>2, <1>3, PTL DEF TimersSpec
=============================================================================
