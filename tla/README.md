# Two real-time kernels on one RISC-V hart: TLA+ specifications

The repository builds two real-time kernels for the same bare-metal, single-hart
RISC-V core: **FreeRTOS V10.4** (`freertos_test/`) and **RT-Thread 3.x**
(`rtt_test/`), each with small demonstration workloads and a common board support
(`common/`, `lib/`, `include/`). What has to be right in both is the kernel: tasks
that are switched at any instruction, a tick interrupt that walks the lists the
tasks are editing, calls that go to sleep and must be woken exactly once, and
priorities that change while a task waits.

This directory holds TLA+ modules translated from the C sources of both kernels, TLC
configurations that check them on small instances, and proofs that TLAPS checks
for every value of the constants. All source paths below are relative to `src/`.

## 1. Inventory

### Configuration, as built

* FreeRTOS (`freertos_test/FreeRTOSConfig.h`): preemption and time slicing, 15
  priorities, 32-bit ticks, mutexes, recursive mutexes, counting semaphores,
  software timers (daemon at priority 14, a command queue of 4), co-routines, a heap
  of 80 KB. Queue sets and tickless idle are off. A failed `configASSERT()` masks
  interrupts and loops for ever.
* RT-Thread (`rtt_test/myrtt/rtconfig.h`): 8 priorities, semaphores, mutexes and
  mailboxes. Soft timers, events, message queues, memory pools, the heap, hooks and the
  console are not compiled in; `RT_ASSERT()` is empty. Events, message queues, pools and
  the two heaps are modelled all the same: they are complete in the repository, and share
  the lists and the wake-ups with what is compiled.
* One hart. In the kernels' own ports interrupts do not nest. In the FreeRTOS port
  `portYIELD()` sets the CLINT software interrupt bit, and the switch is the handler of
  that interrupt (`freertos_test/clint.c`), so a yield asked for in a critical section
  happens at its end. The RT-Thread test program `main_multy_task.h` lets nine external
  interrupts of different priorities nest.

### FreeRTOS components

| Component | State | Operations | Interacts through | Hard behaviour | What makes it correct |
|---|---|---|---|---|---|
| Task scheduler, `tasks.c` | ready lists, two delayed lists, suspended, pending-ready and termination lists, `xTickCount`, `xNextTaskUnblockTime`, `xPendedTicks`, `uxSchedulerSuspended`, `xYieldPending`, `uxTopReadyPriority` | create, delete, delay, suspend, resume, set priority, abort delay, suspend and resume the scheduler, tick, switch | event lists given by queues; tick and software interrupts | tick count wraps; ticks pended during suspension; interrupt handlers that ready tasks while the lists are locked | a delay ends at its tick and not earlier; no tick lost; the two list items of a task agree; a most urgent ready task runs |
| Lists, `list.c` | doubly linked lists, sorted by value, with a cursor | insert, insert at end, remove, next owner | used by all others | the cursor while its item is removed | sorted; round-robin visits everybody |
| Time-outs, `tasks.c` | `xOverflowCount`, `xTimeOnEntering` | set, check, `xTaskDelayUntil` | every blocking call | wrap-around of the count between two looks | the sum of the waits is the block time |
| Queues and counting semaphores, `queue.c` | ring buffer, count, two lock counts, two waiting lists | send to back and front, overwrite, receive, peek, the same from handlers, reset | scheduler suspension, event lists, ISR | handlers change a queue that a task has locked; time-outs and late items | a bounded double-ended queue; no lost wake-up; a time-out means what it says |
| Mutexes, `queue.c`, `tasks.c` | holder, recursion count, base and effective priorities, `uxMutexesHeld` | take, give, recursive take and give, inherit, disinherit, set priority | waiting lists sorted by priority | a waiter times out, or another takes the mutex before the woken task runs | mutual exclusion, no inversion, inherited priorities are given back |
| Task notifications, `tasks.c` | value and state per task | notify, take, wait, from handlers | pending-ready list | second read of the value after the wait | none lost |
| Software timers, `timers.c` | command queue, two timer lists | start, stop, change period, reset, delete, callbacks | a queue, the daemon task | a command is processed later than sent, a wrap in between | expires once per period; commands in order |
| Event groups, `event_groups.c` | bits, waiting list | set, clear, wait, sync | unordered event list | time-out racing a set | nobody misses bits that were set for it |
| Stream buffers, `stream_buffer.c` | head, tail, two waiting handles | send, receive, reset, from handlers | notifications | no lock between reader and writer | a sequence of bytes; reader and writer not both asleep |
| Co-routines, `croutine.c`, `queue.c` | ready, delayed, pending lists | schedule, delay, queue calls | handlers | ticks replayed in a batch; a check whose critical section ends too early | as for tasks |
| Heap, `heap_4.c` | free list | allocate, free | scheduler suspension | coalescing | blocks disjoint, no adjacent free blocks |
| Port, `portable/GCC/RISC-V`, `clint.c` | `msip`, interrupt mask, critical nesting | critical sections, yield, tick and switch handlers | the hart | the switch is delayed by a mask | part of the scheduler model |

### RT-Thread components

| Component | State | Operations | Interacts through | Hard behaviour | What makes it correct |
|---|---|---|---|---|---|
| Scheduler and threads, `scheduler.c`, `thread.c`, `clock.c`, `idle.c` | ready table and group bits, scheduler lock nest, thread states, tick, defunct list | startup, suspend, resume, yield, sleep, control, detach, exit, tick, schedule | suspend lists, thread timers | checks before interrupts are masked; sections with gaps between them | state, list and timer of a thread agree; peers share the hart |
| Semaphores, mutexes, mailboxes, `ipc.c` | value; owner, hold count, original priority; ring of messages and its two lists | take, release, send, receive, control | suspend lists, priorities, timers | one priority recorded per mutex, time-outs, waits for the rest of a block time | a permit or a mutex is neither lost nor doubled, priorities restored, mail in order |
| Events, message queues, pools, `ipc.c`, `mempool.c` | bits; blocks in two lists; count of blocks and of waiting threads | send, urgent, receive, control, allocate, free | as above | blocks filled and read with interrupts enabled; waiters that take bits from those behind them | no wake-up lost, no block lost, messages in order |
| Timers, `timer.c` | sorted list, flags | start, stop, control, check | the tick, timer functions | timer functions that start and stop timers from the tick; modular comparison | fires once per period, not early |
| Heaps, `mem.c`, `memheap.c` | chain of blocks, `lfree`; ring of items and of free ones | allocate, resize, free | a semaphore | cutting and growing in place | blocks disjoint, no adjacent free blocks, counts right |
| Nested interrupts, `main_multy_task.h` | threshold, `mie`, `mepc`, and three globals per source | nine handlers | the interrupt controller | globals in place of a stack frame | a handler returns to what it interrupted, as it was |
| Objects and service library, `object.c`, `kservice.c`, `slab.c` | object lists | init, detach, find | | none of their own | not modelled |
| Port, `libcpu/risc-v` | saved contexts | switch, interrupt entry | | assembly | not modelled |

The applications (`main*.c`, `task*/`) are demonstrations: vector and sorting routines,
a motor controller. What matters of them here is how they use the kernel: one mutex,
delays, semaphores, and one habit, giving a mutex also when taking it failed
(`freertos_test/main.c:217`), that `FrMutex` includes as `IgnoresFailure`.

## 2. Modules

| Module | What it is |
|---|---|
| `FrTasks`, `MCFrTasks`, `FrTasksProofs` | the FreeRTOS scheduler; its instance; theorems about it |
| `FrQueueSpec` | what a queue promises: a bounded double-ended sequence |
| `FrQueue`, `MCFrQueue`, `FrQueueProofs` | one queue of `queue.c` and the tasks and handlers that use it, which implements `FrQueueSpec`; its instance; theorems, the refinement among them, and one about software timers |
| `FrMutex`, `MCFrMutex`, `FrMutexProofs` | mutexes with priority inheritance: `queue.c` with `tasks.c`; instance; theorems, and one about RT-Thread's timers |
| `FrNotify` | task notifications |
| `FrStreamBuffer`, `FrStreamBufferProofs` | stream and message buffers, which EXTENDS `FrNotify`; theorems about both and about `mem.c` |
| `FrEventGroup`, `FrEventGroupProofs` | event groups; theorems about them, about co-routines and about `memheap.c` |
| `FrTimeOut`, `FrTimeOutProofs` | block times and periods; theorems about them, about `heap_4.c` and about `list.c` |
| `FrTimers`, `FrCoRoutine` | software timers, co-routines |
| `FrList`, `FrHeap4` | `list.c`, `heap_4.c` |
| `RttKernel` | RT-Thread's scheduler, threads, tick and thread timers, with the suspend lists |
| `RttIpc` | EXTENDS `RttKernel`: semaphores, mutexes, mailboxes |
| `RttMessages` | EXTENDS `RttIpc`: events, message queues, memory pools; the specification of the whole kernel |
| `RttProofs`, `RttIpcProofs` | theorems about the three modules and about `RttPlic`: who executes, when a wait is over, and whose priority a thread has; what threads share, and that no wake-up is lost. The second EXTENDS the first |
| `MCRtt` | its instances: what applications do |
| `RttTimers`, `RttMem`, `RttMemHeap` | timers with functions, the two heaps |
| `RttPlic` | nested external interrupts |
| `MCServices` | `FrNotify` to `FrHeap4` and `RttTimers` to `RttPlic`, each as one *part* of one specification |

Some operators have a comment that calls them a *mutant*: a definition as a plausible
error would have it, used only to see that the properties notice the difference.

### FrTasks

State. A task's `xStateListItem` and `xEventListItem` are each in at most one list
(`pxContainer`), so `stateList` and `eventList` map each task to the list that
contains the item; `wakeTime` is the item value. `xTickCount` wraps after `MaxTick`
(`portMAX_DELAY`). `pc[t]` tells how far task `t` is inside a kernel call, `target[t]`
is the task that call is about. `elapsed` is a history variable: ticks that occurred.

Atomicity. A critical section is one step, an interrupt handler is one step, and so is a
run of statements no handler can observe. Everything else is cut where an interrupt may
fall, for example between the check and the move in `xTaskAbortDelay()` (`AbortCheck`,
`AbortMove`), between the two critical sections of `vTaskSuspend()` (`Suspend`,
`SuspendReset`), between creating a task and comparing its priority (`Create`,
`CreateCheck`, where the new task may already have run, ended and been freed), and
between load and store of `xPendedTicks += n` (`CatchUpLoad`, `CatchUpStore`).

Actions and code:

| Action | Code |
|---|---|
| `TickISR`, `IncrementTick`, `SwitchedLists`, `SwitchRequired` | `handle_trap_timer`, `xTaskIncrementTick` |
| `SwitchContext` | `SW_Handler`, `vTaskSwitchContext` |
| `SuspendAll`, `ResumeAll`, `ResumeAllBegin`, `ResumeAllTick`, `ResumeAllEnd` | `vTaskSuspendAll`, `xTaskResumeAll` |
| `Delay`, `DelayAdd`, `Yield` | `vTaskDelay`, `taskYIELD` |
| `Wait`, `WaitAdd`, `Signal`, `SignalFromISR`, `RemoveFromEventList` | `vTaskPlaceOnEventList`, `xTaskRemoveFromEventList`, as queues use them |
| `Suspend`, `SuspendReset`, `Resume`, `ResumeFromISR` | `vTaskSuspend`, `vTaskResume`, `xTaskResumeFromISR` |
| `PrioritySet` | `vTaskPrioritySet`, of a task without an inherited priority |
| `AbortDelay`, `AbortCheck`, `AbortMove` | `xTaskAbortDelay` with `eTaskGetState` |
| `Create`, `CreateCheck`, `Delete`, `IdleCleanUp` | `prvAddNewTaskToReadyList`, `vTaskDelete`, `prvCheckTasksWaitingTermination` |
| `CatchUpTicks`, `CatchUpLoad`, `CatchUpStore` | `xTaskCatchUpTicks` |

Abstracted: which of several equal tasks of one list comes first, stacks, names, trace and
statistics. An event list is a set here; its order matters only to `FrQueue` and `FrMutex`.

### FrQueue and FrQueueSpec

State. The ring buffer as the code keeps it (`pcHead`, `pcWriteTo`, `pcReadFrom`,
`uxMessagesWaiting`), the lock counts `cTxLock` and `cRxLock`, the two waiting lists, the
task that holds the scheduler suspended, and for each task where it is in its call, what
the call is, and what it knows of its time-out. `expired` stands for the arithmetic of
`xTaskCheckForTimeOut()`; `aborted` and `result` are history.

A call goes from the critical section at the top (`Call`, `Retry` with `Succeed` or
`Fail`) through `LockQueue`, `Check`, `Place`, `UnlockTx`, `UnlockRx`, `Resume` and, for a
receiver, `Final`, as the loops of `xQueueGenericSend()`, `xQueueReceive()` and
`xQueuePeek()` do, with handlers (`SendFromISR`, `ReceiveFromISR`, `Expire`) between any
two steps, and other tasks too unless the scheduler is suspended. `Reset` and
`AbortDelay` come from other tasks. Which ready task runs is left open: that is more
behaviour than `FrTasks` allows.

A counting or binary semaphore is this module with items that carry nothing.

`FrQueueSpec` says what clients may rely on: each call takes effect at once and exactly
once on a double-ended sequence, and a call that reports full or empty found the queue so
at some moment since it began. The refinement mapping reads the sequence out of the ring
(`Contents`), and takes a call that is under way to have found its reason to wait
(`Found`).

### FrMutex

State. `xMutexHolder`, the recursion counts, the waiting list of each mutex as a sequence,
because its order decides who is woken; the effective and base priorities, the priority in
the event list item, `uxMutexesHeld`; and for each task its place in the call. `depth` is
history: takes not yet given back.

No handler takes or gives a mutex, and ticks during a scheduler suspension are pended, so
what a call does between `vTaskSuspendAll()` and `xTaskResumeAll()` is one step. Tasks in
calls run by priority: `Runs(t)` requires that no other ready task in a call is more urgent,
which is what `HighestPriorityRuns` of `FrTasks` establishes. A failed `configASSERT()` stops
the hart (labels `halt_time` and `halt_own`), so these runs do not check for deadlock;
neither could they, as a task may wait for ever for its own mutex.

| Action | Code |
|---|---|
| `Take`, `Retry`, `Block`, `Final`, `DisinheritAfterTimeout` | `xQueueSemaphoreTake` |
| `PriorityInherit`, `PriorityDisinherit`, `PriorityToUse`, `MustLower` | `xTaskPriorityInherit`, `xTaskPriorityDisinherit`, `vTaskPriorityDisinheritAfterTimeout` |
| `HighestPriorityWaiting`, `Inserted` | `prvGetDisinheritPriorityAfterTimeout`, `vListInsert` |
| `Give`, `GiveInside`, `GiveNow` | `xQueueGenericSend` and `prvCopyDataToQueue` on a mutex |
| `CountFirst`, `TakeAgain`, `GiveRecursive` | `xQueueTakeMutexRecursive`, `xQueueGiveMutexRecursive` |
| `PrioritySet` | `vTaskPrioritySet` |

Not modelled: aborting, suspending or deleting a task that holds or waits for a mutex; and
a mutex given for a holder that is itself waiting (`MutexAssumption` excludes it).

### FrNotify and FrStreamBuffer

A task's notification state and word. What the word is for is the *protocol*: a count, a
set of bits, a message. Each wait has two critical sections (`Take`, `TakeEnd`;
`NotifyWait`, `NotifyWaitEnd`), and others notify, clear or time out before, between and
after them. `untold` is history: what the task was notified of and not told.

A stream buffer has a writer and a reader, either of which may be a handler. The ring is
changed without a lock, so each read and write of `xHead`, `xTail` and the two waiting
handles that the other side can see is a step of its own; `Send`, `LookForSpace`,
`WriteData`, `LookAtTrigger`, `WakeReader` and `Receive`, `LookForBytes`, `ReadData`,
`WakeWriter` are such steps of `xStreamBufferSend()` and `xStreamBufferReceive()`, with the
notification of `FrNotify` to sleep and wake (`SendCompleted`, `ReceiveCompleted`). `Reset`
comes when neither side waits.

### FrEventGroup

Bits, the waiting tasks with what they wait for, and for each task what it was told when it
was unblocked (`eventUNBLOCKED_DUE_TO_BIT_SET`). Work between `vTaskSuspendAll()` and
`xTaskResumeAll()` is one step; a task whose time is over looks again in a critical section
of its own, and a set may come first. The *styles* are two tasks that wait and set, three
that meet in `xEventGroupSync()`, and two that meet while others set and clear.

### FrTimers and FrTimeOut

`FrTimers` has the daemon's loop (`ExpireTimer`, `SwitchTimerLists`, `Block`,
`ProcessCommand`, `NoMoreCommands`), the command queue, whose messages may be up to
`MaxLag` ticks old when sent and processed, and the tick. History says of each timer
whether it was asked to run and when it is due. A callback is counted, not executed; what it
may do to timers is to send commands, as any task.

`FrTimeOut` has one call that waits, is woken for nothing and waits again
(`vTaskSetTimeOutState`, `xTaskCheckForTimeOut`), and one periodic task
(`xTaskDelayUntil`), both measured against time that does not wrap (`remaining`,
`nextWake`).

### FrCoRoutine, FrList, FrHeap4

`FrCoRoutine` follows `vCoRoutineSchedule()` from pending list to delayed lists to
selection, one removal per step since handlers move co-routines meanwhile, and the queue
calls with their retry. `FrList` has the ring with its end marker and index at the level of
pointers. `FrHeap4` keeps the free list as a function from addresses to sizes.

### RttKernel, RttIpc, RttMessages

State. `ready` is the priority table with the group bits; `stat`, `priority`, `remaining`
and `error` are fields of the threads; `timers` is the timer list with the threads'
timers; `waitList` holds the suspend lists, which are kept in `RttKernel` because a thread's
list node is in one list at a time. `does` is the application: who makes which calls.

Atomicity. A section with interrupts disabled is one step. A call is a sequence of such
sections, and `todo[t]` holds those that thread `t` has still to execute, with their
locals; a tick, and with it a switch, or another handler may come between any two.
`rt_schedule()` is such a section (`Schedule`). For example `rt_thread_resume()` is
`Resume` (the check of the state, before interrupts are disabled), `UnlinkNow` and
`InsertNow`; `rt_thread_detach()` is `Detach`, `RemoveNow`, `StopNow`, `CloseNow`.

| Action | Code |
|---|---|
| `Tick` | `rt_tick_increase`, `rt_timer_check`, `rt_thread_timeout`, `rt_thread_yield` |
| `Schedule`, `Yield`, `Sleep`, `Slept`, `EnterCritical`, `ExitCritical`, `ChangePriority` | `scheduler.c`, `thread.c` |
| `Startup`, `Suspend`, `Resume`, `Detach`, `Exit`, `IdleCleanup` and their `...Now` | `thread.c`, `idle.c` |
| `SemTake`, `SemEnd`, `SemRelease`, `SemReleaseISR`, `SemReset` | `rt_sem_take`, `rt_sem_release`, `rt_sem_control` |
| `MutexTakeFree`, `MutexTakeAgain`, `MutexTakeWait`, `MutexEnd`, `MutexRelease` | `rt_mutex_take`, `rt_mutex_release` |
| `Send`, `SendAgain`, `SendISR`, `Receive`, `ReceiveAgain`, `BoxReset` | `rt_mb_send_wait`, `rt_mb_recv`, `rt_mb_control` |
| `EventSend`, `EventRecv`, `EventReset`, `MqSend`, `MqLink`, `MqReceive`, `MqReceiveAgain`, `MqCopied`, `MqReset` | `ipc.c` |
| `MpAlloc`, `MpWoken`, `MpAgain`, `MpFree` | `mempool.c` |

`permits`, `taken`, `received`, `spent`, `blocks` and `left` are history: what was handed
out, and how long a call has waited.

Excluded uses, which the code does not defend against: blocking while the scheduler is
locked, two threads that suspend, resume or detach the same third, and what
`rt_mp_free()` does when its counter of waiting threads is wrong (section 4).

### RttTimers, RttMem, RttMemHeap, RttPlic

`RttTimers`: timers with functions, one-shot and periodic. A thread's `rt_timer_start()`
is three sections (`Start`, `ReadTick`, `InsertTimer`), a stop two, and a change of the
flags a load and a store; `rt_timer_check()` calls the functions of what expired one after
the other inside the tick interrupt, and each may start, stop or change a timer
(`CallFirst`). A timer that both the thread and the function of *another* timer start and stop
is excluded: the sections then corrupt the list, and nothing in the repository says that
they should not.

`RttMem` is the chain of blocks of `mem.c` with `lfree`, `RttMemHeap` the ring of items of
`memheap.c` with its list of free ones; both with resizing in place and the statistics.

`RttPlic` has the nine handlers of `main_multy_task.h` in four phases (entered, open,
completed, returned), the masks and the threshold each saves in globals, and the hart and
controller as external. The handlers' bodies, which only compute and print, are left out.

## 3. Runs

| Run | Instance | Shows |
|---|---|---|
| `tasks` | idle and two tasks, 3 priorities, ticks modulo 3, handlers, suspension | `TypeOK`; `DelayListsOK`, `NoTickLost`, `NeverEarly`: the delayed lists stay right over any number of wraps, no tick is lost, nobody is woken early; `SchedulerRecords`, `ListItemsAgree`, `CurrentIsReady`, `HighestPriorityRuns` |
| `tasks_delays_end` | idle and one task, with `xTaskCatchUpTicks()` | `DelaysEnd`: every delay ends, whatever the application does |
| `queue` | length 2: two tasks and handlers with both ends, peek and reset, or three that block with time-outs and peek, or whose delays are aborted | `TypeOK`, `LockIsHeld`, `WaitersCovered`: no wake-up is lost; `IsQueue`: the ring buffer implements `FrQueueSpec` |
| `queue_mailbox` | length 1, overwrites, resets, fair tasks | `IsQueue`, `TimeOutsJustified`, `QueueGetsOn`: calls return and items do not lie there while tasks wait for them |
| `queue_stale_abort` | two tasks, length 1, waits without end | a call fails for an abort of an earlier one: see findings |
| `mutex` | three tasks of all combinations of 3 priorities on one mutex, carelessly or on two; two tasks that wait while they hold and set priorities | `TypeOK`, `HoldersRight`, `PriorityRestored` of all; `NoInversion`, `HighestWaiterFirst` where nobody waits while it holds and none sets priorities; `PriorityJustified` where there is one mutex besides |
| `mutex_adjusted_timeout` | three tasks, one mutex | an assertion fails: see findings |
| `services` | one part at a time, see below | `TypesOK`; `NotificationsArrive`, `SleepersWoken`, `BytesInOrder`, `EventsArrive`, `TimersRight`, `CoRoutinesRight`, `StructuresRight`, `InterruptsNest` |
| `coroutine_send_missed` | the part of co-routines | a sender waits although there is room: see findings |
| `rtt` | main, two peers, idle and handlers; fifteen applications | `TypeOK`; `ThreadsListed`, `TimersRight`, `ResourcesRight`, `MutexPriorities`, `WakeUpsCovered`, `MessagesInOrder` |
| `rtt_shares_time` | two peers that yield, lock the scheduler and leave, under a more urgent thread | `SharesTime`, `TimedCallsEnd` |
| `rtt_detach_asleep` | a sleeping thread is detached | a closed thread becomes ready: see findings |

The parts of `services` are put in one specification because they are small and share
nothing: `Init` chooses one, and every property is about the parts it names. `TimersRight` is
`FrTimers`' (called once per period, when due), `FrTimeOut`'s (block times and periods are
kept) and `RttTimers`' (sorted, none overdue, those in the list are those wanted).
`StructuresRight` is about `FrHeap4`, `FrList`, `RttMem` and `RttMemHeap`.

### Bounds, and why they are enough

* *Ticks.* A tick count of 32 bits is one modulo 3 to 11. Waits are any that the modulus
  allows (FreeRTOS: up to `portMAX_DELAY`; RT-Thread: less than half of it, as the code
  requires), so wake times fall before and after the wrap from every count, and the
  reachable states go round the count arbitrarily often. For the FreeRTOS scheduler the
  proofs hold for every width.
* *Lateness.* `MaxPended` (ticks in a suspension), `MaxLag`, `MaxLate` and `MaxBehind`
  (how late a daemon, a task, a tick's check or the scheduler of co-routines runs) are 1 or 2:
  a tick falls between any two steps, and in `FrTimers` and `FrTimeOut` a whole short
  period may be missed. Where the count itself bounds what the code can tell apart, the
  bound together with a wait stays within one cycle, as it does in practice.
* *Tasks.* With idle and two tasks, a task being woken, one that runs and one that goes on
  are different. Three tasks on a queue of two give two waiters and one other; mutexes need a
  holder, a waiter that times out and a third that overtakes. In RT-Thread main is more
  urgent than its two peers, so that there are switches at once and at the next schedule.
* *Applications.* The whole of RT-Thread with all calls at once is out of reach; each
  application (`MCRtt`) combines one kind of object with the calls that interfere with
  it, among threads of both priorities and handlers.
* *Nesting.* `MaxNest` bounds scheduler suspensions of the application, `MaxDepth` and `MaxHold`
  takes of a mutex by one task, `MaxPermits` a semaphore, `MaxSuspended` the counter of a
  pool that only grows. Each reaches the values at which
  the code decides differently.
* *Lock counts.* `maxLock` takes the place of 127, at which an assertion stops the
  system; in `queue` it is 2 where three tasks block, as many as can wait while the third has
  the lock, and 1 elsewhere.
* *Sizes.* Queues, boxes and rings hold one or two, so that full, empty and wrap alternate;
  buffers have room for two bytes or two short messages. The heaps have 11 to 14 units and
  requests of 1, 2 and 4: four or more blocks, with every order of frees. Lists have three
  items. Nine interrupts are all there are.
* *Items, messages.* Two tell orders apart.

### Symmetry and views

FreeRTOS tasks other than idle are interchangeable when all exist or none does; mutex tasks
always, because `Init` gives them every combination of priorities; likewise items, and
mutexes of one kind. Symmetry is not used for liveness. The views leave out only values that
no later step reads before writing: the wake time of a task in no delayed list, the
arguments of finished calls, bytes of a ring that are not in the buffer, how long a daemon
last slept, what a handler that does not run once saved. In `MCRtt` the tick count is
replaced by the distance of each timer to its time, except where the application sleeps, so
that the wrap is met there. Each view keeps everything the properties of its runs mention.

### Fairness

`FrTasks`: interrupts stay latched until taken, so the tick is strongly fair (masking and
full suspension interrupt its enabledness) and the software interrupt weakly fair, and a task
inside a kernel call goes on with it when it has the hart. Nothing is assumed of application
code: it may keep the hart for ever.

`FrQueue`: tasks of one priority share the hart by time slicing, so a call that can go on
again and again does (`SF(Continue(t))`), and the tick that ends its block time comes
(`SF(Expire(t))`). Tasks outside calls and handlers owe nothing.

`RttMessages` (`rtt_shares_time`): ticks come and the running thread goes on with the call it
is in (weakly fair: nothing takes these away but themselves), and an application that
locks the scheduler unlocks it again (strongly fair, as it may be preempted by nobody but
calls other services in between). That a peer gets the hart is not assumed: it is what
`SharesTime` states of the tick.

`FrMutex` has no liveness property: a holder need never give. Nor have the services: what
must not be slept through is stated as an invariant (nobody sleeps while there is
something for it), which needs no fairness.

## 4. Findings

Each of these runs has one property, and TLC shows a behaviour that breaks it.

* `ucDelayAborted` outlives the call it was set for (`tasks.c:3362`): when an item
  arrives between the abort and the run of the aborted task, its *next* blocking call returns
  at once, also with `portMAX_DELAY` (`queue_stale_abort`).
* `configASSERT( xInheritanceOccurred == pdFALSE )` (`queue.c:1586`) can fail: a call that
  timed out finds the mutex given, goes back to the top with block time 0, and another task
  has taken the mutex by then (`mutex_adjusted_timeout`). The comment there rules this out.
* `rt_thread_detach()` (`thread.c:320`) removes the thread, stops its timer and marks it
  closed in three sections; when it sleeps, its timer may fire after the first, and the
  closed thread is among the ready ones (`rtt_detach_asleep`).
* `xQueueCRSend()` (`queue.c:2480`) checks that the queue is full inside
  `portDISABLE_INTERRUPTS()`, but `prvIsQueueFull()` ends a critical section of its own and
  with it enables interrupts: a handler may make room before the co-routine is in the
  list (`coroutine_send_missed`).

Further behaviour met while modelling, that surprises but that no comment, document or
test of the repository denies, or that needs a use no program here makes; it is inside the
models, or excluded by a guard that a comment names:

* `xTaskCatchUpTicks()` adds to `xPendedTicks` with interrupts enabled (`tasks.c:2674`): a
  tick between load and store is lost. `NoTickLost` is checked and proved without it.
* `xQueueGenericReset()` frees all slots and wakes one sender (`queue.c:295`).
* `rt_mp_alloc()` does not lower `suspend_thread_count` when a wait times out, though
  `rtdef.h:763` says it counts the suspended threads, and `rt_mp_free()` (`mempool.c:421`)
  then resumes the head of an empty list.
* `rt_realloc()` that shrinks a block (`mem.c`) does not move `lfree` down to the block it
  cuts off, though `mem.c:118` calls it the lowest free block: the history variable `shrunk` names
  the case, in which room is found later than it could be. A free block that ends the heap
  has to be larger than what is asked (`mem.c:293`).
* `rt_timer_check()` clears the flag of a one-shot timer that its own function started again
  (`timer.c:542`): `rt_timer_stop()` (`timer.c:430`) then refuses to stop it, and made
  periodic it is called once more only. `rt_timer_control()` loads and stores the flags with
  interrupts enabled. `unflagged` names the timers to which this happened.

## 5. Proofs

The theorems hold for any set of tasks, any number of priorities, slots, mutexes and bits, any
width of counts, and any bounds. They rest on the named assumptions of the modules
(`TasksAssumption`, `QueueAssumption`, `MutexAssumption`, `KernelAssumption`, `IpcAssumption`,
`MessagesAssumption`, which TLC evaluates on every instance) and on the hypotheses that the tables name. Each invariant is shown to hold
initially, to be kept by each action (one step of the proof per action), and to imply what
it is for; the last step of each theorem is temporal. The invariants were given to TLC, on
instances like those of the runs, before they were proved.

### FrTasksProofs

| Theorem | States | Rests on |
|---|---|---|
| `TypeCorrect` | `TypeOK` and `SuspensionExcludes` | `TypeInv`, their conjunction: `TypeOK` alone is not inductive, since `uxSchedulerSuspended - 1` is a natural number only because whoever decrements it is inside its own suspension |
| `DelayListsCorrect` | `DelayListsOK` | inductive relative to `TypeInv`; lemmas for a tick, for an addition, and for steps after which tasks have only left the lists |
| `NeverEarlyHolds` | the action property `NeverEarly` | `DelayListsOK`: a task in the delayed list is strictly in the future, so that a count that moves by one meets its wake time exactly |
| `ListItemsCorrect` | `ListItemsAgree` | inductive relative to `TypeInv` |
| `PrioritiesCorrect` | `TopPriorityRecorded` and `HighestPriorityRuns` | `SwitchOnItsWay`: a ready task above the current one implies a requested or pended switch, or a creation whose comparison is still to come; this also holds inside calls and suspensions, where `HighestPriorityRuns` says nothing |
| `RecordsCorrect` | `SchedulerRecords` | the two above |
| `CurrentCorrect` | `CurrentIsReady` | `LeavesReadyOnlyToSwitch`: a current task that has left the ready list is in the rest of the call that took it off, and nothing but a switch ends that rest |
| `TicksCorrect` | `NoTickLost`, if `xTaskCatchUpTicks()` is not used | with arithmetic modulo `MaxTick + 1` from lemmas on `%` |

`TicksCorrect` has `~CatchUp` as a hypothesis because without it the statement is false
(section 4).

### FrQueueProofs

| Theorem | States | Rests on |
|---|---|---|
| `QueueTypesCorrect`, `LockIsHeldCorrect` | `TypeOK`, `LockIsHeld` | `QueueInv`: a lock count is dropped only by the task that holds the suspension, and nobody else is between the labels of one |
| `TimeOutsCorrect` | the action property `TimeOutsJustified`, where delays of waiting tasks are not aborted | `TimeOutRight`: on every way to a failure the time has expired or no time was given; with `xTaskAbortDelay()` the statement is false (section 4) |
| `QueueRefines` | `IsQueue`: `FrQueue` implements `FrQueueSpec` | `RefinementInv`: the write slot lies `uxMessagesWaiting` slots beyond the one read last (`RingRight`), and only receivers come to the last look (`FinalRight`); lemmas say what a write at the back, at the front, an overwrite, a read and a reset do to `Contents`, the sequence read out of the ring, and every step is shown to be the named step of `FrQueueSpec` or a stutter |
| `WaitersCoveredCorrect` | `WaitersCovered`, unless the application resets the queue | `CoverInv`, which counts, with cardinalities of sets: items are no more than receivers that were woken plus what the lock has counted for those still waiting. It also has to say what the ends of the locked phase owe, because `prvUnlockQueue()` wakes in a loop of steps that handlers interrupt |

A refusal counts as an effect of `FrQueueSpec` at the moment at which the call found the
queue full or empty, which is before it returns: the mapping of `found` is what makes the
refinement provable step by step, without a prophecy.

### FrMutexProofs

| Theorem | States | Rests on |
|---|---|---|
| `MutexTypesCorrect`, `HoldersCorrect`, `PriorityRestoredCorrect` | `TypeOK`, `HoldersRight`, `PriorityRestored` | `MutexInv`: `uxMutexesHeld` is the number of mutexes whose holder the task is; the recursion count and `depth` agree, except in the step between a take and its count |
| `NoInversionCorrect`, `HighestWaiterFirstCorrect` | `NoInversion`, `HighestWaiterFirst`, for applications in which nobody waits while it holds and none sets priorities (`Simple`) | `InversionInv`: lists have nobody twice and are sorted by the priority in the event list item, which for those who hold nothing is their own; a free mutex that somebody waits for has been handed to a woken task as urgent as all who wait; a holder is as urgent as all who wait |
| `PriorityJustifiedCorrect` | `PriorityJustified`, for `Simple` applications that use one mutex | `JustifiedInv`: who is above its base priority holds the mutex, and a waiter as urgent is in the list or at the label from which it disinherits after its time-out |

`NoInversion` is false without `Simple`: priorities are inherited one holder deep only, and
`vTaskPrioritySet()` does not move an inherited priority on. The properties state their
conditions, and the run `mutex` has applications of both kinds.

### Services

The theorems of these modules are about the modules that `MCServices` instantiates; the
properties of the run `services` are theirs, for the parts they are about.

| Theorem | States | Hypothesis | Rests on |
|---|---|---|---|
| `FrStreamBufferProofs`: `NotificationsCorrect`, `NotifyTypesCorrect` | `NotificationsArrive`, `NotifyTypeOK` | `CountMod \in Nat \ {0}` | `NotifyInv`: besides, a task whose state is not `received` was told of everything, except where notifications count; and each protocol has its kind of wait |
| `SleepersCorrect`, `StreamTypesCorrect` | `SleepersWoken`, `StreamTypeOK` | `StreamAssumption`: one writer, one reader, a length takes the place of one byte, and there is room for a byte | `StreamInv`: what a side found with its critical section left stays true until it acts, since the other side can only add to it (`FoundRight`); a sleeper has left its handle (`HandlesLeft`) |
| `MessagesWhole` | `WholeMessages`: message ends divide what is in the buffer | the same | part of `StreamInv`: the reader's two reads, length and body, are one message because of it |
| `BytesInOrderHolds` | the action property `BytesInOrder` | the same | `StreamInv`, and lemmas on the ring: writing touches no byte that is there, and moving the tail drops exactly what was delivered |
| `FrEventGroupProofs`: `EventsCorrect`, `EventTypesCorrect` | `EventsArrive`, `EventTypeOK` | `EventAssumption`: the types of the styles, and bits of their own for tasks that meet | `EventInv`; for meetings `MeetingInv`: all tasks are in the same round, and the bits set are those of the tasks that wait |
| `FrTimeOutProofs`: `TimesCorrect`, `TimeOutTypesCorrect` | `TimesRight`, `TimeOutTypeOK` | `TimeOutAssumption`: the widths of the counts; times and periods are shorter than a cycle of the tick count, and a block time with the lateness no longer than one | `TimeOutInv`: the ticks since the time-out state was set (`Since`) and the two counts belong together (`CountsTell`): no wrap and the same count of overflows, or one wrap and the next; the previous wake time lies `nextWake` ticks from now, up to a cycle |
| `FrQueueProofs`: `SoftwareTimersCorrect` | `TimersTypeOK`, `TimersRight` | `TimersAssumption`: a period and the lag of daemon and messages are together shorter than a cycle of the tick count | `TimersInv`: how many ticks the daemon's sample is old (`SampleRight`), what a message says it was sent at (`QueueRight`), how long the daemon sleeps (`SleepRight`), and that a timer that runs is no later than the lag and no earlier than a period (`RunsRight`), so that its count and list tell when it is due |
| `FrTimeOutProofs`: `HeapCorrect` | `HeapTypeOK`, `HeapRight` | `HeapAssumption`: a heap, headers and requests are not empty | `HeapInv`: what is free, in use and about to be inserted are blocks that do not overlap (`IsBlocks`) and together are the heap; free blocks do not touch (`AreJoined`); the count is the number of bytes in free blocks |
| `FrTimeOutProofs`: `ListCorrect` | `ListTypeOK`, `ListRight` | `ListAssumption`: finitely many items, and the marker is none of them | `ListInv`: the links are those of some order of the members (`IsOrder`, `AreLinks`), the index is at one of its places, and the order is sorted (`IsSorted`) or has the turns right (`TurnsRight`) |
| `FrEventGroupProofs`: `CoRoutinesCorrect` | `CoRoutineTypeOK`, `CoRoutinesRight` | `CoRoutineAssumption`: finitely many co-routines; a delay, and the ticks between two calls of the scheduler, are shorter than a cycle of the tick count | `CoRoutineInv`: a generic item is in one list, and which of the delayed lists that is follows from the wake time and the count (`WakesRight`); an event item belongs to a co-routine that waits in that call (`WaitsRight`); while any waits to receive, items are no more than co-routines on their way to them (`ReceiversCovered`) |
| `FrStreamBufferProofs`: `MemCorrect` | `MemTypeOK`, `MemRight` | `MemAssumption`: a heap, headers, the smallest block and requests are not empty | `MemInv`: the blocks are a chain from the start of the heap to its end, linked both ways (`IsChain`); `lfree` is the lowest free block, or a lower one was cut off by `rt_realloc()`; the count is the number of bytes in blocks in use |
| `FrEventGroupProofs`: `MemHeapCorrect` | `MemHeapTypeOK`, `MemHeapRight` | `MemHeapAssumption`: headers and the smallest item are not empty, and the pool has room for one item | `MemHeapInv`: the items are a ring (`IsRing`), the free list has each free one once (`Lists`), free items do not touch (`NoneTouch`), and `available_size` is the number of bytes the free items have room for (`Rooms`) |
| `FrMutexProofs`: `RttTimersCorrect` | `RttTimersTypeOK`, `RttTimersRight` | `RttTimersAssumption`: times are not 0, and with the lateness shorter than half a cycle of the tick count | `RttTimersInv`: how far ahead of the latest a timer may be each one's time is (`Ahead`), which is less than half a cycle and never falls as one goes along the list; who came in since the last tick, or was in the list before it, is not due (`DuesRight`); the timer that a call took off is not in the list (`CallRight`); who is in the list is wanted and has its flag, or had it cleared (`TimerListed`) |
| `RttProofs`: `InterruptsCorrect`, `PlicTypesCorrect` | `InterruptsNest`, `PlicTypeOK` | none | `PlicInv`: threshold and allowed interrupts are those of what executes, once its handler has saved what was before; sources claimed are those of the handlers on the stack; each outranks all below it, so none comes twice and its globals are its own |

A time-out is the case that the arithmetic of `xTaskCheckForTimeOut()` is made for: after exactly
one cycle the elapsed time is 0 again, and only the count of overflows tells the difference
(`ElapsedFacts`). That needs at least two values of this count; more than a cycle of lateness
it cannot tell, hence the hypothesis, which is also the bound of the model (`MaxLate`).

`SoftwareTimersCorrect` rests on three facts. `prvInsertTimerInActiveList()` decides by comparisons of counts that wrapped
what a comparison of times that do not wrap would decide (`PlacedFacts`). Reloading calls a timer
once for each period that is over, and no more (`ExpiredFacts`: the least number of periods for
which it is not over is the quotient). And when the lists are switched, what was in the current list
is called as of the end of its cycle, which is no later than now (`SwitchRight`).

`HeapCorrect` follows `prvInsertBlockIntoFreeList()`: the block before the inserted one is the only one
that can end at its start, the block at its end the only one that can be joined behind it, and
after both joins neither neighbour touches the result. Splitting a block keeps the rest where no free block
touches it because the part in front is in use.

`ListCorrect` is about an order that no variable has: the links are those of some sequence of the
members, and each operation puts an item into it or takes one out (`PutInFacts`, `TakenOutFacts`,
`LinkedIn`, `LinkedOut`). What `vListInsert()` finds by walking from link to link is then a place in
that sequence (`IteratorFacts`: a least place at which the walk would end elsewhere leads to a
contradiction). `TurnsFair` is not inductive. `TurnsRight` adds to it the order of the turns, round
from the index (`TurnOf`): who had a turn since another had one comes after it; and one that comes
back by `vListInsertEnd()`, just in front of the index, may have a second turn before those the index
has still to reach, but no third.

`MemCorrect` and `MemHeapCorrect` say the like of the heaps of RT-Thread, which keep all blocks in one chain or
ring. Lemmas say what cutting a block in two, joining one with the next and marking one do to the chain,
to the free list and to the number of free bytes (`SplitFacts`, `JoinedFacts`, `MarkedFacts`,
`SplitRooms`, `JoinedRooms`, `MarkedRooms` for memory heaps); each call is a sequence of these. Between
them a free block may touch the one that is being freed or cut, and no other (`NoHolesBut`,
`OnlyTouches`); the call ends by joining these two. That a block found by a link back ends where the
other begins, which the joins rely on, is a lemma on the chain (`LinkedBack`, `RingFacts`).

`CoRoutinesCorrect` covers the co-routines that wait to receive; for those that wait to send the
like is false (`SendersCovered`, section 4).

`RttTimersCorrect` turns the comparisons of `rt_timer_start()` and `rt_timer_check()`, differences
modulo the tick count against half of it, into comparisons of numbers: as long as all in the list are
less than half a cycle ahead of the latest moment at which one is put in, `Ahead` orders them
(`LaterFacts`), tells whether a time has come (`DueFacts`), and falls by one with a tick (`TickFacts`).
A function is a step of a record of the timers (`DoneFacts`, `AfterCallFacts`), about its own timer
and at most one other, which no call of the thread is about.

`EventsCorrect` showed an error of the model: in `xEventGroupSync()` the history `unseen`
counted bits as set after a task's return that other tasks, woken by the same call, had
already been told. The definition was corrected before it was proved.

### RttProofs and RttIpcProofs

The theorems are about `RttMessages!Spec`, the whole kernel: every call of `RttKernel`, `RttIpc`
and `RttMessages`, the tick and the handlers, in any interleaving of their sections.

| Theorem | States | Rests on |
|---|---|---|
| `RttProofs`: `ThreadsListedCorrect` | `ThreadsListed` | `ThreadInv` |
| `TimersCorrect` | `TimersRight` | `ThreadInv` and `TimeInv` |
| `MutexPrioritiesCorrect` | `MutexPriorities` | `ThreadInv` and `InheritInv` |
| `RttIpcProofs`: `MessagesInOrderCorrect` | the action property `MessagesInOrder` | `ThreadInv`, `BoxInv`, `BlockInv` |
| `MessagesKeptCorrect` | `MessagesKept`, a part of `ResourcesRight` | `ThreadInv` and `BlockInv` |
| `ResourcesCorrect` | `ResourcesRight` | these, `WaitInv`, `ShareInv` and `PoolInv` |
| `WakeUpsCoveredCorrect` | `WakeUpsCovered` | these without `ShareInv`, and `BoxInv` and `CoverInv` |
| `TypesCorrect` | `TypeOK` of `RttMessages` | `TypesInv`: all of the invariants but `InheritInv` and `CoverInv`, and `Bounds` |

Their hypothesis is `Unmanaged`: no thread suspends, detaches or reprioritizes another, and the
idle thread makes no call. `rt_thread_suspend()`, `rt_thread_detach()` and
`rt_thread_control()` look at another thread's state with interrupts enabled and act on it
later; with them `ClosedNeverReady` is false (section 4). Threads still start and end, sleep,
lock the scheduler and use every IPC object and the pool, and all of this from handlers too
where the code allows it.

`ThreadInv` has three parts:

* `KernelTypes`: the types of the fields.
* `ListInv`: how fields and lists belong together. The ready table holds exactly the ready
  threads, each once and in the list of its current priority (`ReadyRight`); what a thread has
  left to do is the rest of one of the model's calls, nothing for one not started yet
  (`CallsRight`); a thread that is being started has one starter and waits for nothing
  (`StartsRight`); the thread that executes is ready, or about to give way (`CurrentRight`);
  a suspend list has nobody twice, only suspended threads, and only ones whose call is a wait for
  that object (`ListsRight`); a timer in the list is that of a thread that waits (`TimedRight`).
* `OwnersRight`: a taken mutex has an owner and a priority to give back.

`ThreadsListed` alone is not inductive: a resume, `<<unlink, insert>>`, keeps the lists
right only because nobody else can be between these sections for the same thread, and a
time-out takes a thread off the right list only because its call says which list that is.

`TimeInv` says of each timer in the list that its expiry minus the tick count, modulo
`TickMod`, is the history `left`; that the list is sorted by `left`; and of a call that waits a
second time that `left` is what it asked for minus what was `spent`. The wrap of the count enters
by lemmas on `%` only: every span is below `Half`, and a tick that finds a timer due finds
all others with `left` of at least one.

`InheritInv` is about applications in which no thread takes a second mutex while it has one
(`Nested` is false; with nesting the code restores the wrong priority, and both properties say
nothing). The priority to give back is the one the owner was created with, and nobody owns two
mutexes; who waits for a mutex owns none, so that its own priority cannot rise or fall while it
stands in the list; and the list of a mutex is sorted (`ByPrio`), its owner as urgent as the first.
The order of the list is what makes the hand-over right: the heir does not inherit from
those that stay behind it, and does not need to, because `rt_ipc_list_suspend()` put it before them
and a time-out only takes threads out.

`BoxInv` says of the mailbox that `in` is `out + entry` modulo `BoxSize`: a ring of which `entry`
places from `out` on are taken. `BlockInv` divides the blocks of the message queue among the
free list, the queue and the hands of the threads (`HandOf`: a thread that fills a block it took
or copies one out), with none twice, and says that a thread which copies finds in its block the
message it took from the queue. The second part is why a message may be copied with interrupts
enabled: nobody else writes a block in somebody's hands. Every action is shown to begin, go on with or
end only calls of a named kind (`Touches`), so that most of them cannot disturb either.

`WaitInv` says that a thread whose call waits for an object is in the list of that object or was
made ready again, and that the errors of those in a list are clear. So a thread with that call to
end, ready and with no error, is one that a release let go (`LetGo`): it has the permit or the
mutex, though it does not know yet. `ShareInv` counts it: value, threads that hold a permit and
threads that were let go make up the permits in circulation (`PermitsOf`), and the owner of a mutex
took it as often as it is held, or was let go with one hold (`HoldOf`). A thread that ends its wait
with an error got nothing, and nobody who ends a wait for an object has it already; without these
clauses a time-out that comes after the release, or a reset, would break the sums. Every action
is shown to resume, suspend or let go threads of named lists only (`StepOn`), so that each object is
disturbed by the calls on it alone. `PoolInv`: a thread that looks for a block again has none.

`CoverInv` is about the threads that were let go from a list and are still to look for what they
waited for (`Alert`): the last section of their call looks again, they are ready and have no error.
While anybody waits in the list there are at least as many of them as there are messages, free places or
free blocks (`Covered`). Each kind of step keeps the balance for a reason of its own: what puts
something there lets one thread go; what takes something is either one of those threads or finds
one less for the others; a thread that waits again found nothing; and one that a time-out takes off the
list is no `Alert`. Therefore the rest of the call is what counts, not the state of the thread: in
the pool a thread that was let go looks only in its second section from then on (`mp_woken`,
`mp_again`), and `suspended` must be no less than the waiting threads, or `rt_mp_free()` would let nobody
go. The event has no count: who waits is not content with the bits set, and what `rt_event_send()` wrote
into the fields of a thread it let go stays there until that thread returns (`EventCover`).

`TypeOK` is the last of the theorems, not the first, because what the code counts stays in its
type only for the reasons the other invariants give: `value` of a semaphore and `freeCount` of the
pool are below their ceilings because somebody holds what is given back, `in` and `out`
stay in the mailbox because `BoxInv` ties them to `entry`, and a time that is left is below `Half`
because `TimeInv` ties it to what was `spent`. `Bounds` adds what the guards of the model cap
(`MaxPermits`, `MaxHold`, `MaxNest`, `MaxSuspended`) and the histories.

### Only model-checked

* Liveness: `DelaysEnd`, `QueueGetsOn`, `SharesTime`, `TimedCallsEnd`. Fairness and
  `ENABLED` are beyond the prover.
* What recursive definitions compute for every input (`Contents` of a coalesced heap, the
  framing read byte by byte): induction over data is beyond it too. Where it was possible,
  the models use functions or an existential instead, as `WholeMessages` does.

## 6. Plan

What is left is what the models leave out and could have: detaching IPC objects that threads wait for;
aborting, suspending or deleting a task that waits for a FreeRTOS mutex; four tasks on one
mutex; deleting a timer that was allocated.

`PROJECT.json` lists the hazards with their lines, the properties that cover each, and why
three have none.

## 7. Not modelled

* *RT-Thread's object lists, service library and slab allocator* (`object.c`, `kservice.c`,
  `slab.c`): object lists are changed at start-up and by detaching, in one section each;
  formatting and string functions are sequential; the slab allocator needs `RT_USING_SLAB` and a
  heap that is not configured.
* *Not built:* `heap_1.c`, `heap_2.c`, `heap_5.c` (`portable/MemMang/tmp`),
  `mpu_wrappers.c`, queue sets, tickless idle, soft timers of RT-Thread.
* *Assembly:* context switches, interrupt entry, start-up. Their effect, that a switch
  keeps what a task was doing, is what the models assume.
* *Applications and board support:* sorting, filters, path finding and motor control on
  fixed inputs, floating-point and vector instructions, UART and host interface.
* *Headers and tables:* about half of the lines of the repository are declarations, comments
  of the API headers, and instruction encodings (`encoding.h`, twice). There is no behaviour in
  them to model, so the lines that the modules stand for stay below a fifth of all lines
  although all of the kernels' concurrent code is modelled.
* *Of modelled files:* stacks, names, trace, statistics, queries that only read, object
  creation on the heap; deleting or detaching a queue, event or pool in use; handlers of
  `main_multy_task.h` other than their entry and exit.
