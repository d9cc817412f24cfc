------------------------------- MODULE FrMutex -------------------------------
(***************************************************************************)
(* FreeRTOS mutexes with priority inheritance, plain and recursive:        *)
(* freertos_test/FreeRTOS/queue.c (xQueueSemaphoreTake, xQueueGenericSend  *)
(* on a mutex, the recursive calls) and the priority functions of tasks.c. *)
(*                                                                         *)
(* Atomicity.  No interrupt handler gives or takes a mutex, and ticks that *)
(* fall into a scheduler suspension are held pending, so that everything a *)
(* call does between vTaskSuspendAll() and xTaskResumeAll() is one step.   *)
(* A task in the middle of a call runs only if no other such task is more  *)
(* urgent (HighestPriorityRuns of FrTasks); an idle task, one outside these*)
(* calls, may be doing anything else, or sleeping, and starts a call when  *)
(* it gets to run.  A configASSERT() that fails stops the hart.            *)
(***************************************************************************)
EXTENDS Naturals, Sequences, FiniteSets

CONSTANTS
  Tasks,          \* tasks that use mutexes
  NoTask,         \* nobody (NULL)
  Mutexes,
  Recursive,      \* those created by xSemaphoreCreateRecursiveMutex()
  MaxPrio,        \* configMAX_PRIORITIES - 1
  MaxDepth,       \* bound: takes of a mutex by a task, not yet given back
  Usages          \* the applications: who uses what, and how

ASSUME MutexAssumption ==
  /\ IsFiniteSet(Tasks) /\ IsFiniteSet(Mutexes) /\ NoTask \notin Tasks
  /\ Recursive \subseteq Mutexes
  /\ MaxPrio \in Nat /\ MaxDepth \in Nat \ {0}
  /\ Usages \subseteq [users : SUBSET Tasks, mutexes : SUBSET Mutexes,
                      nested : BOOLEAN, sets : BOOLEAN, careless : BOOLEAN]
  \* A give makes the holder ready: not modelled for a holder that is waiting.
  /\ \A u \in Usages : ~(u.nested /\ u.careless)

VARIABLES
  usage,                  \* the application that runs
  xMutexHolder,           \* holder of each mutex
  uxRecursiveCallCount,
  waiting,                \* xTasksWaitingToReceive of each mutex, in order
  uxPriority, uxBasePriority,
  eventPriority,          \* configMAX_PRIORITIES - value of xEventListItem
  uxMutexesHeld,
  pc,                     \* where each task is in its call
  op,                     \* that call: mutex and block time left
  expired,                \* whether its block time has passed
  xInheritanceOccurred,
  depth                   \* history: takes by each task not yet given back

mutexVars == <<xMutexHolder, uxRecursiveCallCount>>
prioVars  == <<uxPriority, uxBasePriority, eventPriority>>
vars == <<usage, mutexVars, waiting, prioVars, uxMutexesHeld, pc, op, expired,
          xInheritanceOccurred, depth>>

\* Whether a task that holds a mutex may wait for one, whether vTaskPrioritySet() is
\* used, and whether a task gives a mutex it failed to take.
Nested         == usage.nested
SetsPriority   == usage.sets
IgnoresFailure == usage.careless

Prios  == 0 .. MaxPrio
Waits  == {"none", "finite", "forever"}
Labels == {"idle", "top", "block", "final", "disinherit", "count", "give",
           "halt_time", "halt_own"}
Halts  == {"halt_time", "halt_own"}
Larger(a, b) == IF a > b THEN a ELSE b

Waiters(m) == {waiting[m][i] : i \in 1 .. Len(waiting[m])}
IsWaiting(t) == \E m \in Mutexes : t \in Waiters(m)

\* vTaskSwitchContext(): nobody who is ready is more urgent than t.
Runs(t) ==
  /\ ~IsWaiting(t)
  /\ \A u \in Tasks :
       pc[u] # "idle" /\ ~IsWaiting(u) => uxPriority[u] <= uxPriority[t]

Init ==
  /\ usage \in Usages
  /\ xMutexHolder = [m \in Mutexes |-> NoTask]
  /\ uxRecursiveCallCount = [m \in Mutexes |-> 0]
  /\ waiting = [m \in Mutexes |-> <<>>]
  /\ uxBasePriority \in {f \in [Tasks -> Prios] : \A t \in Tasks \ usage.users : f[t] = 0}
  /\ uxPriority = uxBasePriority /\ eventPriority = uxBasePriority
  /\ uxMutexesHeld = [t \in Tasks |-> 0]
  /\ pc = [t \in Tasks |-> "idle"]
  /\ op \in [Tasks -> [mutex : Mutexes, wait : {"none"}]]
  /\ expired = [t \in Tasks |-> FALSE]
  /\ xInheritanceOccurred = [t \in Tasks |-> FALSE]
  /\ depth = [t \in Tasks |-> [m \in Mutexes |-> 0]]
-----------------------------------------------------------------------------
\* Priorities of holders.

\* Task h gets priority p, also for its place in waiting lists it will enter.
SetBoth(h, p) ==
  /\ uxPriority' = [uxPriority EXCEPT ![h] = p]
  /\ eventPriority' = [eventPriority EXCEPT ![h] = p]
  /\ UNCHANGED uxBasePriority

\* xTaskPriorityInherit(h), called by t.
PriorityInherit(h, t) ==
  /\ IF uxPriority[h] < uxPriority[t] THEN SetBoth(h, uxPriority[t]) ELSE UNCHANGED prioVars
  /\ xInheritanceOccurred' = [xInheritanceOccurred EXCEPT ![t] =
       uxPriority[h] < uxPriority[t] \/ uxBasePriority[h] < uxPriority[t]]

\* xTaskPriorityDisinherit(h).  Mutants: the priority goes back with the first
\* of several mutexes; the count is looked at before it is decremented.
PriorityDisinheritEarly(h) ==
  IF h # NoTask
    THEN /\ uxMutexesHeld' = [uxMutexesHeld EXCEPT ![h] = @ - 1]
         /\ SetBoth(h, uxBasePriority[h])
    ELSE UNCHANGED <<uxMutexesHeld, prioVars>>

PriorityDisinheritNever(h) ==
  IF h # NoTask
    THEN /\ uxMutexesHeld' = [uxMutexesHeld EXCEPT ![h] = @ - 1]
         /\ IF uxMutexesHeld[h] = 0 THEN SetBoth(h, uxBasePriority[h])
                                    ELSE UNCHANGED prioVars
    ELSE UNCHANGED <<uxMutexesHeld, prioVars>>

PriorityDisinherit(h) ==
  IF h # NoTask
    THEN /\ uxMutexesHeld' = [uxMutexesHeld EXCEPT ![h] = @ - 1]
         /\ IF uxPriority[h] # uxBasePriority[h] /\ uxMutexesHeld[h] = 1
              THEN SetBoth(h, uxBasePriority[h])
              ELSE UNCHANGED prioVars
    ELSE UNCHANGED <<uxMutexesHeld, prioVars>>

\* prvGetDisinheritPriorityAfterTimeout(): what the head of the list says.
HighestPriorityWaiting(m) ==
  IF waiting[m] = <<>> THEN 0 ELSE eventPriority[Head(waiting[m])]

\* vTaskPriorityDisinheritAfterTimeout() for the holder h of mutex m.  Mutant:
\* the mutex itself is not counted.
PriorityToUse(m, h) == Larger(uxBasePriority[h], HighestPriorityWaiting(m))
MustLowerNever(m, h) ==
  h # NoTask /\ uxPriority[h] # PriorityToUse(m, h) /\ uxMutexesHeld[h] = 0
MustLower(m, h) ==
  h # NoTask /\ uxPriority[h] # PriorityToUse(m, h) /\ uxMutexesHeld[h] = 1

\* vListInsert() by the task's event list item: after the entries that are at
\* least as urgent, up to the first that is not.  Mutant: at the end.
InsertedLast(m, t) == [waiting EXCEPT ![m] = Append(@, t)]
Inserted(m, t) ==
  LET w == waiting[m]
      k == CHOOSE k \in 0 .. Len(w) :
             /\ \A i \in 1 .. k : eventPriority[w[i]] >= eventPriority[t]
             /\ k < Len(w) => eventPriority[w[k + 1]] < eventPriority[t]
  IN [waiting EXCEPT ![m] = SubSeq(w, 1, k) \o <<t>> \o SubSeq(w, k + 1, Len(w))]

\* uxListRemove(): the list w without the event list item of t.
Unlinked(w, t) ==
  IF \E i \in 1 .. Len(w) : w[i] = t
    THEN LET k == CHOOSE k \in 1 .. Len(w) : w[k] = t
         IN SubSeq(w, 1, k - 1) \o SubSeq(w, k + 1, Len(w))
    ELSE w
-----------------------------------------------------------------------------
\* Taking a mutex.

Goto(t, l) == pc' = [pc EXCEPT ![t] = l]

\* The call of t for mutex m succeeded.
Took(t, m) == depth' = [depth EXCEPT ![t][m] = @ + 1]

\* The critical section at the top of xQueueSemaphoreTake(), for mutex m.
\* Mutant: the holder does not count its mutexes.
TakeNowUncounted(t, m) ==
  /\ xMutexHolder[m] = NoTask
  /\ xMutexHolder' = [xMutexHolder EXCEPT ![m] = t]
  /\ IF m \in Recursive THEN Goto(t, "count") /\ UNCHANGED depth
                        ELSE Goto(t, "idle") /\ Took(t, m)
  /\ UNCHANGED uxMutexesHeld

TakeNow(t, m) ==
  /\ xMutexHolder[m] = NoTask
  /\ xMutexHolder' = [xMutexHolder EXCEPT ![m] = t]
  /\ uxMutexesHeld' = [uxMutexesHeld EXCEPT ![t] = @ + 1]
  /\ IF m \in Recursive THEN Goto(t, "count") /\ UNCHANGED depth
                        ELSE Goto(t, "idle") /\ Took(t, m)

\* The call failed.  A careful task leaves it at that; one that ignores the
\* failure gives the mutex back when it is done.
Failed(t, m) ==
  /\ \/ Goto(t, "idle")
     \/ IgnoresFailure /\ m \notin Recursive /\ Goto(t, "give")
  /\ UNCHANGED depth

\* With no block time left the call fails, and asserts that nobody inherited its
\* priority.
CannotTake(t, m, wait, inherited) ==
  /\ xMutexHolder[m] # NoTask
  /\ \/ wait # "none" /\ Goto(t, "block") /\ UNCHANGED depth
     \/ wait = "none" /\ ~inherited /\ Failed(t, m)
     \/ wait = "none" /\ inherited /\ Goto(t, "halt_time") /\ UNCHANGED depth
  /\ UNCHANGED <<xMutexHolder, uxMutexesHeld>>

\* xSemaphoreTake(m, wait); xSemaphoreTakeRecursive() of a mutex t does not hold.
Take(t, m, wait) ==
  /\ pc[t] = "idle" /\ Runs(t) /\ t \in usage.users /\ m \in usage.mutexes
  /\ m \in Recursive => xMutexHolder[m] # t
  /\ depth[t][m] < MaxDepth
  /\ wait # "none" => Nested \/ uxMutexesHeld[t] = 0
  /\ TakeNow(t, m) \/ CannotTake(t, m, wait, FALSE)
  /\ op' = [op EXCEPT ![t] = [mutex |-> m, wait |-> wait]]
  /\ expired' = [expired EXCEPT ![t] = FALSE]
  /\ xInheritanceOccurred' = [xInheritanceOccurred EXCEPT ![t] = FALSE]
  /\ UNCHANGED <<uxRecursiveCallCount, waiting, prioVars>>

\* A task that was woken, or whose block time is over, is back at the top.
Retry(t) ==
  /\ pc[t] = "top" /\ Runs(t)
  /\ TakeNow(t, op[t].mutex) \/ CannotTake(t, op[t].mutex, op[t].wait, xInheritanceOccurred[t])
  /\ UNCHANGED <<uxRecursiveCallCount, waiting, prioVars, op, expired,
                 xInheritanceOccurred>>

\* From vTaskSuspendAll() to xTaskResumeAll(): look at the time, and wait with
\* the holder inheriting the caller's priority.
Block(t) ==
  LET m == op[t].mutex
      timedOut == op[t].wait = "finite" /\ expired[t]
  IN
  /\ pc[t] = "block" /\ Runs(t)
  /\ Goto(t, IF timedOut THEN "final" ELSE "top")
  /\ op' = IF timedOut THEN [op EXCEPT ![t] = [mutex |-> m, wait |-> "none"]] ELSE op
  /\ IF ~timedOut /\ xMutexHolder[m] # NoTask
       THEN PriorityInherit(xMutexHolder[m], t) /\ waiting' = Inserted(m, t)
       ELSE UNCHANGED <<prioVars, xInheritanceOccurred, waiting>>
  /\ UNCHANGED <<mutexVars, uxMutexesHeld, expired, depth>>

\* prvIsQueueEmpty() after the time-out.
Final(t) ==
  LET m == op[t].mutex IN
  /\ pc[t] = "final" /\ Runs(t)
  /\ \/ xMutexHolder[m] = NoTask /\ Goto(t, "top") /\ UNCHANGED depth
     \/ xMutexHolder[m] # NoTask /\ xInheritanceOccurred[t]
        /\ Goto(t, "disinherit") /\ UNCHANGED depth
     \/ xMutexHolder[m] # NoTask /\ ~xInheritanceOccurred[t] /\ Failed(t, m)
  /\ UNCHANGED <<mutexVars, waiting, prioVars, uxMutexesHeld, op, expired,
                 xInheritanceOccurred>>

\* The critical section that makes the holder, whoever it is by now, give up
\* the priority of the caller.
DisinheritAfterTimeout(t) ==
  LET m == op[t].mutex
      h == xMutexHolder[m]
  IN
  /\ pc[t] = "disinherit" /\ Runs(t)
  /\ \/ MustLower(m, h) /\ h # t /\ SetBoth(h, PriorityToUse(m, h)) /\ Failed(t, m)
     \/ MustLower(m, h) /\ h = t /\ Goto(t, "halt_own") /\ UNCHANGED <<prioVars, depth>>
     \/ ~MustLower(m, h) /\ Failed(t, m) /\ UNCHANGED prioVars
  /\ UNCHANGED <<mutexVars, waiting, uxMutexesHeld, op, expired, xInheritanceOccurred>>

\* The tick at which the block time of t is over.
Expire(t) ==
  /\ pc[t] \notin {"idle", "count", "give"} /\ op[t].wait = "finite" /\ ~expired[t]
  /\ expired' = [expired EXCEPT ![t] = TRUE]
  /\ waiting' = [m \in Mutexes |-> Unlinked(waiting[m], t)]
  /\ UNCHANGED <<mutexVars, prioVars, uxMutexesHeld, pc, op, xInheritanceOccurred, depth>>
-----------------------------------------------------------------------------
\* Giving a mutex back, recursion, and vTaskPrioritySet().

\* xQueueGenericSend() on a mutex: the holder, whoever gives, disinherits, the
\* first waiting task is woken; giving a free mutex fails.
GiveNow(t, m) ==
  /\ PriorityDisinherit(xMutexHolder[m])
  /\ xMutexHolder' = [xMutexHolder EXCEPT ![m] = NoTask]
  /\ waiting' = IF xMutexHolder[m] = NoTask \/ waiting[m] = <<>> THEN waiting
                ELSE [waiting EXCEPT ![m] = Tail(@)]
  /\ Goto(t, "idle")

\* xSemaphoreGive().
Give(t, m) ==
  /\ pc[t] = "idle" /\ Runs(t) /\ m \notin Recursive /\ depth[t][m] > 0
  /\ depth' = [depth EXCEPT ![t][m] = @ - 1]
  /\ GiveNow(t, m)
  /\ UNCHANGED <<uxRecursiveCallCount, op, expired, xInheritanceOccurred>>

\* The same from inside another call.
GiveInside(t) ==
  /\ pc[t] = "give" /\ Runs(t)
  /\ GiveNow(t, op[t].mutex)
  /\ UNCHANGED <<uxRecursiveCallCount, op, expired, xInheritanceOccurred, depth>>

\* xSemaphoreTakeRecursive(): the increment after the mutex was taken, or
\* instead of taking it.
CountFirst(t) ==
  /\ pc[t] = "count" /\ Runs(t)
  /\ uxRecursiveCallCount' = [uxRecursiveCallCount EXCEPT ![op[t].mutex] = @ + 1]
  /\ Took(t, op[t].mutex)
  /\ Goto(t, "idle")
  /\ UNCHANGED <<xMutexHolder, waiting, prioVars, uxMutexesHeld, op, expired,
                 xInheritanceOccurred>>

TakeAgain(t, m) ==
  /\ pc[t] = "idle" /\ Runs(t) /\ m \in Recursive /\ xMutexHolder[m] = t
  /\ uxRecursiveCallCount[m] < MaxDepth
  /\ uxRecursiveCallCount' = [uxRecursiveCallCount EXCEPT ![m] = @ + 1]
  /\ Took(t, m)
  /\ UNCHANGED <<xMutexHolder, waiting, prioVars, uxMutexesHeld, pc, op, expired,
                 xInheritanceOccurred>>

\* xSemaphoreGiveRecursive(); the mutex is given with the last of them.
\* Mutant: with the last but one.
IsLastButOne(n) == n <= 1
IsLast(n) == n = 0
GiveRecursive(t, m) ==
  /\ pc[t] = "idle" /\ Runs(t) /\ m \in Recursive /\ xMutexHolder[m] = t
  /\ uxRecursiveCallCount' = [uxRecursiveCallCount EXCEPT ![m] = @ - 1]
  /\ depth' = [depth EXCEPT ![t][m] = @ - 1]
  /\ IF IsLast(uxRecursiveCallCount[m] - 1)
       THEN Goto(t, "give") /\ op' = [op EXCEPT ![t] = [mutex |-> m, wait |-> "none"]]
       ELSE UNCHANGED <<pc, op>>
  /\ UNCHANGED <<xMutexHolder, waiting, prioVars, uxMutexesHeld, expired,
                 xInheritanceOccurred>>

\* vTaskPrioritySet(x, p), by t.
PrioritySet(t, x, p) ==
  /\ SetsPriority /\ {t, x} \subseteq usage.users
  /\ pc[t] = "idle" /\ Runs(t) /\ uxBasePriority[x] # p
  /\ uxPriority' = IF uxBasePriority[x] = uxPriority[x] THEN [uxPriority EXCEPT ![x] = p]
                                                        ELSE uxPriority
  /\ uxBasePriority' = [uxBasePriority EXCEPT ![x] = p]
  /\ eventPriority' = [eventPriority EXCEPT ![x] = p]
  /\ UNCHANGED <<mutexVars, waiting, uxMutexesHeld, pc, op, expired,
                 xInheritanceOccurred, depth>>
-----------------------------------------------------------------------------
Next ==
  /\ UNCHANGED usage
  /\ \A t \in Tasks : pc[t] \notin Halts
  /\ \E t \in Tasks :
       \/ Retry(t) \/ Block(t) \/ Final(t) \/ DisinheritAfterTimeout(t) \/ Expire(t)
       \/ GiveInside(t) \/ CountFirst(t)
       \/ \E m \in Mutexes : \/ Give(t, m) \/ TakeAgain(t, m) \/ GiveRecursive(t, m)
                             \/ \E wait \in Waits : Take(t, m, wait)
       \/ \E x \in Tasks, p \in Prios : PrioritySet(t, x, p)

Spec == Init /\ [][Next]_vars
-----------------------------------------------------------------------------
\* Types and ranges.
TypeOK ==
  /\ xMutexHolder \in [Mutexes -> Tasks \cup {NoTask}]
  /\ uxRecursiveCallCount \in [Mutexes -> Nat]
  /\ waiting \in [Mutexes -> Seq(Tasks)]
  /\ uxPriority \in [Tasks -> Prios]
  /\ uxBasePriority \in [Tasks -> Prios]
  /\ eventPriority \in [Tasks -> Prios]
  /\ uxMutexesHeld \in [Tasks -> 0 .. Cardinality(Mutexes)]
  /\ pc \in [Tasks -> Labels]
  /\ op \in [Tasks -> [mutex : Mutexes, wait : Waits]]
  /\ expired \in [Tasks -> BOOLEAN]
  /\ xInheritanceOccurred \in [Tasks -> BOOLEAN]
  /\ depth \in [Tasks -> [Mutexes -> Nat]]

\* Mutual exclusion: a task that took a mutex, and has not given it back as
\* often, is its holder, however often others tried, timed out or took it
\* recursively (queue.c, xQueueSemaphoreTake and the recursive calls) - as long as
\* nobody gives what it failed to take: the code lets anybody give.
HeldUntilGiven ==
  ~IgnoresFailure =>
    \A t \in Tasks, m \in Mutexes : depth[t][m] > 0 => xMutexHolder[m] = t

\* uxMutexesHeld, on which disinheriting depends, is the number of mutexes whose
\* holder the task is (pvTaskIncrementMutexHeldCount, xTaskPriorityDisinherit).
HeldCountRight ==
  \A t \in Tasks : uxMutexesHeld[t] = Cardinality({m \in Mutexes : xMutexHolder[m] = t})

\* Both: who holds what.
HoldersRight == HeldUntilGiven /\ HeldCountRight

\* A task that holds no mutex runs at its base priority: whatever it inherited,
\* in whatever order it took and gave mutexes, is gone.
PriorityRestored ==
  \A t \in Tasks : uxMutexesHeld[t] = 0 => uxPriority[t] = uxBasePriority[t]

\* No task waits while it holds a mutex, nor are priorities set from outside.
Simple == ~Nested /\ ~SetsPriority

\* No priority inversion: nobody waits for a mutex of a less urgent task, also
\* when a waiting task times out or another takes the mutex before the one woken -
\* for holders of several mutexes too, if they do not wait meanwhile.
NoInversion ==
  Simple =>
    \A m \in Mutexes : \A t \in Waiters(m) :
      xMutexHolder[m] # NoTask => uxPriority[t] <= uxPriority[xMutexHolder[m]]

\* Where tasks use one mutex, its holder is above its base priority only for the sake
\* of a task that waits for it, or has timed out and is about to say so.
PriorityJustified ==
  Simple /\ Cardinality(usage.mutexes) = 1 =>
    \A h \in Tasks : uxPriority[h] > uxBasePriority[h] =>
      \E t \in Tasks : /\ uxPriority[t] = uxPriority[h]
                       /\ pc[t] \notin {"idle", "count", "give"}
                       /\ xMutexHolder[op[t].mutex] = h

\* The first task in a waiting list, which a give wakes, is a most urgent one of
\* them: "placed in the list in priority order so the highest priority task is the
\* first to be woken by the event" (tasks.c:3132-3134), unless priorities change
\* while tasks wait.
HighestWaiterFirst ==
  Simple =>
    \A m \in Mutexes : \A t \in Waiters(m) :
      uxPriority[t] <= uxPriority[Head(waiting[m])]

\* The configASSERT() of xQueueSemaphoreTake() that a call without block time left
\* has not made the holder inherit its priority.
TimeOutAssertHolds == \A t \in Tasks : pc[t] # "halt_time"
=============================================================================
