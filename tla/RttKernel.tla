------------------------------ MODULE RttKernel ------------------------------
(***************************************************************************)
(* The RT-Thread kernel of rtt_test/myrtt/src: threads, the scheduler, the *)
(* tick, thread timers and the idle thread's cleanup.  The suspend lists   *)
(* of IPC objects are kept here too, for a thread's list node (tlist) is   *)
(* in one list at a time; RttIpc has the objects.                          *)
(*                                                                         *)
(* Atomicity.  A section with interrupts disabled is one step, and so is   *)
(* the tick interrupt: rt_schedule() inside it names the next thread, the  *)
(* switch is made before another thread step.  Between sections a tick may *)
(* fall, and with it a switch; "todo" holds the sections a thread still    *)
(* has to execute in the call it is in.  RT_ASSERT() is compiled out.      *)
(***************************************************************************)
EXTENDS Integers, Sequences, FiniteSets

CONSTANTS
  Threads,
  Idle, Main,   \* the threads that exist when the scheduler starts
  NoThread,     \* what is found in an empty list
  Prio,         \* init_priority of each thread, 0 is the most urgent
  Lowest,       \* RT_THREAD_PRIORITY_MAX - 1
  TickMod,      \* 2^32, the tick count wraps
  Slice,        \* init_tick of every thread
  Waits,        \* finite waiting times each thread asks for
  Cleanup,      \* threads with a cleanup function
  Lists,        \* suspend_thread lists of IPC objects
  FifoLists,    \* those with RT_IPC_FLAG_FIFO
  Roles,        \* the applications: each a set of <<thread, call>>
  MaxNest       \* bound: nesting of rt_enter_critical()

Prios  == 0 .. Lowest
Ticks  == 0 .. TickMod - 1
Half   == (TickMod - 1) \div 2          \* RT_TICK_MAX / 2

ASSUME KernelAssumption ==
  /\ IsFiniteSet(Threads) /\ Idle \in Threads /\ Main \in Threads \ {Idle}
  /\ NoThread \notin Threads
  /\ Lowest \in Nat \ {0} /\ Prio \in [Threads -> Prios] /\ Prio[Idle] = Lowest
  /\ \A t \in Threads \ {Idle} : Prio[t] < Lowest
  /\ TickMod \in Nat /\ TickMod > 4 /\ Slice \in Nat \ {0}
  /\ Waits \in [Threads -> SUBSET {n \in Nat : n < Half}]
  /\ Cleanup \subseteq Threads \ {Idle} /\ FifoLists \subseteq Lists
  /\ MaxNest \in Nat

VARIABLES
  current,        \* rt_current_thread
  stat,           \* state of each thread; the running one is "ready"
  priority,       \* current_priority
  ready,          \* priority table and ready group
  lockNest,       \* rt_scheduler_lock_nest
  tick,           \* rt_tick
  remaining,      \* remaining_tick
  timers,         \* rt_timer_list: thread timers, with their timeout_tick
  error,          \* error of each thread
  waitList,       \* each suspend list, in order
  defunct,        \* rt_thread_defunct, in order
  todo,           \* the sections left of each thread's call, with its locals
  does,           \* the application that runs
  left            \* history: ticks until each thread's time is over

schedVars  == <<stat, priority, ready>>
threadVars == <<error, todo>>
vars == <<current, schedVars, lockNest, tick, remaining, timers, waitList, defunct,
          threadVars, does, left>>

Elems(s)     == {s[i] : i \in DOMAIN s}
WaitTimes    == Waits[current] \cup {0}
May(op)      == <<current, op>> \in does
Has(t, op)   == <<t, op>> \in does
-----------------------------------------------------------------------------
\* Lists and timers.

\* The nodes of the list s at the places I, in order; and s without the threads R.
Picked(s, I) ==
  [k \in 1 .. Cardinality(I) |-> s[CHOOSE i \in I : Cardinality({j \in I : j < i}) = k - 1]]
Without(s, R) ==
  IF Elems(s) \cap R = {} THEN s ELSE Picked(s, {i \in DOMAIN s : s[i] \notin R})

\* rt_schedule_insert_thread() and rt_schedule_remove_thread() of the thread t
\* of priority p; a remove clears the bit of an empty list in the group, but for that of
\* rt_thread_resume(), which leaves it.
Insert(r, t, p) ==
  [list |-> [r.list EXCEPT ![p] = Append(@, t)], group |-> r.group \cup {p}]
RemoveOnly(r, t, p) ==
  [list |-> [r.list EXCEPT ![p] = Without(@, {t})], group |-> r.group]
Remove(r, t, p) ==
  LET l == Without(r.list[p], {t})
  IN [list  |-> [r.list EXCEPT ![p] = l],
      group |-> IF l = <<>> THEN r.group \ {p} ELSE r.group]

\* rt_list_remove(&t->tlist), from whatever list but the ready ones it is in.
Unlinked(t) == [l \in Lists |-> Without(waitList[l], {t})]

\* _rt_timer_remove() of the threads R, and rt_timer_start() with n ticks: after the
\* timers that are due no later, by differences modulo 2^32.  Mutant: by the larger tick.
Stopped(tm, R) ==
  IF \A i \in DOMAIN tm : tm[i].thread \notin R THEN tm
  ELSE Picked(tm, {i \in DOMAIN tm : tm[i].thread \notin R})
IsLaterTick(a, b) == a > b
IsLater(a, b) == (a - b) % TickMod \in 1 .. Half - 1
Started(tm, t, n) ==
  LET w   == Stopped(tm, {t})
      due == (tick + n) % TickMod
      k   == CHOOSE k \in 0 .. Len(w) :
               /\ \A i \in 1 .. k : ~IsLater(w[i].due, due)
               /\ k < Len(w) => IsLater(w[k + 1].due, due)
  IN SubSeq(w, 1, k) \o <<[thread |-> t, due |-> due]>> \o SubSeq(w, k + 1, Len(w))

\* rt_ipc_list_suspend(): the place in the list of the thread t.
Enlisted(l, t) ==
  LET w == waitList[l]
      k == IF l \in FifoLists THEN Len(w)
           ELSE CHOOSE k \in 0 .. Len(w) :
                  /\ \A i \in 1 .. k : priority[w[i]] <= priority[t]
                  /\ k < Len(w) => priority[w[k + 1]] > priority[t]
  IN SubSeq(w, 1, k) \o <<t>> \o SubSeq(w, k + 1, Len(w))

\* rt_schedule(): the head of the first list the group names.
Chosen(r) ==
  IF lockNest > 0 THEN current
  ELSE LET p == CHOOSE p \in r.group : \A q \in r.group : p <= q
       IN IF r.list[p] = <<>> THEN NoThread ELSE Head(r.list[p])

Init ==
  /\ does \in Roles
  /\ current = Main
  /\ stat = [t \in Threads |-> IF t \in {Idle, Main} THEN "ready" ELSE "init"]
  /\ priority = Prio
  /\ ready = [list |-> [p \in Prios |-> IF p = Prio[Main] THEN <<Main>>
                                        ELSE IF p = Prio[Idle] THEN <<Idle>> ELSE <<>>],
              group |-> {Prio[Main], Prio[Idle]}]
  /\ lockNest = 0 /\ tick = 0
  /\ remaining = [t \in Threads |-> Slice]
  /\ timers = <<>>
  /\ error = [t \in Threads |-> "ok"]
  /\ waitList = [l \in Lists |-> <<>>] /\ defunct = <<>>
  /\ todo = [t \in Threads |-> <<>>]
  /\ left = [t \in Threads |-> 0]
-----------------------------------------------------------------------------
\* The tick interrupt: rt_tick_increase().

\* The timers rt_timer_check() finds expired, at the tick count now.
IsDue(i, now) == (now - timers[i].due) % TickMod < Half
Expired(now) ==
  LET n == Cardinality({k \in DOMAIN timers : \A i \in 1 .. k : IsDue(i, now)})
  IN [i \in 1 .. n |-> timers[i].thread]

\* rt_thread_yield(): the thread t goes to the end of its list.  Mutant: it stays.
Yields(t) == stat[t] = "ready" /\ Len(ready.list[priority[t]]) > 1
                               /\ t \in Elems(ready.list[priority[t]])
RotatedNot(t) == ready
Rotated(t) ==
  [list  |-> [ready.list EXCEPT ![priority[t]] = Append(Without(@, {t}), t)],
   group |-> ready.group]

\* rt_thread_timeout() of every thread of the sequence e.  Mutant: the ready group
\* is not told.
OfPriority(e, p) == Picked(e, {i \in DOMAIN e : priority[e[i]] = p})
TimedOutHidden(r, e) ==
  [list  |-> [p \in Prios |-> r.list[p] \o OfPriority(e, p)], group |-> r.group]
TimedOut(r, e) ==
  [list  |-> [p \in Prios |-> r.list[p] \o OfPriority(e, p)],
   group |-> r.group \cup {priority[t] : t \in Elems(e)}]

Tick ==
  LET now     == (tick + 1) % TickMod
      e       == Expired(now)
      yields  == remaining[current] = 1 /\ Yields(current)
      settled == TimedOut(IF yields THEN Rotated(current) ELSE ready, e)
  IN
  /\ tick' = now
  /\ remaining' = [remaining EXCEPT ![current] = IF @ = 1 THEN Slice ELSE @ - 1]
  /\ ready' = settled
  /\ current' = IF yields \/ e # <<>> THEN Chosen(settled) ELSE current
  /\ timers' = SubSeq(timers, Len(e) + 1, Len(timers))
  /\ stat' = [t \in Threads |-> IF t \in Elems(e) THEN "ready" ELSE stat[t]]
  /\ error' = [t \in Threads |-> IF t \in Elems(e) THEN "timeout" ELSE error[t]]
  /\ waitList' = [l \in Lists |-> Without(waitList[l], Elems(e))]
  /\ left' = [t \in Threads |-> IF left[t] = 0 THEN 0 ELSE left[t] - 1]
  /\ UNCHANGED <<priority, lockNest, defunct, todo, does>>
-----------------------------------------------------------------------------
\* Calls of the current thread.

\* It executes the section s of the call it is in, with the sections more added.
At(s)      == todo[current] # <<>> /\ Head(todo[current])[1] = s
Subject    == Head(todo[current])[2]
Then(more) == todo' = [todo EXCEPT ![current] = more \o Tail(@)]

\* The application makes the call op, which has the given sections after this.
Calls(op)    == todo[current] = <<>> /\ May(op)
Goes(steps)  == todo' = [todo EXCEPT ![current] = steps]

\* The current thread is suspended: rt_thread_suspend() of itself.
SuspendCurrent ==
  /\ stat' = [stat EXCEPT ![current] = "suspend"]
  /\ ready' = Remove(ready, current, priority[current])

\* rt_timer_control(SET_TIME) and rt_timer_start() of its timer.
StartTimer(n) ==
  /\ timers' = Started(timers, current, n)
  /\ left' = [left EXCEPT ![current] = n]

Schedule ==
  /\ At("schedule")
  /\ current' = Chosen(ready)
  /\ Then(<<>>)
  /\ UNCHANGED <<schedVars, lockNest, tick, remaining, timers, waitList, defunct,
                 error, does, left>>

\* rt_thread_yield(); alone in its list the thread goes on at once.
Yield ==
  /\ Calls("yield") /\ Yields(current)
  /\ ready' = Rotated(current)
  /\ Goes(<<<<"schedule">>>>)
  /\ UNCHANGED <<current, stat, priority, lockNest, tick, remaining, timers, waitList,
                 defunct, error, does, left>>

\* rt_thread_sleep(n).  Blocking with the scheduler locked is a mistake of the
\* application, here and in RttIpc.
Sleep(n) ==
  /\ Calls("sleep") /\ lockNest = 0
  /\ SuspendCurrent
  /\ StartTimer(n)
  /\ Goes(<<<<"schedule">>, <<"slept">>>>)
  /\ UNCHANGED <<current, priority, lockNest, tick, remaining, waitList, defunct,
                 error, does>>

Slept ==
  /\ At("slept")
  /\ error' = [error EXCEPT ![current] = IF @ = "timeout" THEN "ok" ELSE @]
  /\ left' = [left EXCEPT ![current] = 0]
  /\ Then(<<>>)
  /\ UNCHANGED <<current, schedVars, lockNest, tick, remaining, timers, waitList,
                 defunct, does>>

\* rt_enter_critical() and rt_exit_critical().
EnterCritical ==
  /\ Calls("lock") /\ lockNest < MaxNest
  /\ lockNest' = lockNest + 1
  /\ UNCHANGED <<current, schedVars, tick, remaining, timers, waitList, defunct,
                 threadVars, does, left>>

ExitCritical ==
  /\ Calls("lock") /\ lockNest > 0
  /\ lockNest' = lockNest - 1
  /\ Goes(IF lockNest = 1 THEN <<<<"schedule">>>> ELSE <<>>)
  /\ UNCHANGED <<current, schedVars, tick, remaining, timers, waitList, defunct,
                 error, does, left>>

\* rt_thread_control(u, RT_THREAD_CTRL_CHANGE_PRIORITY, p); a thread in a suspend
\* list keeps its place there.
Reprioritized(r, u, p) ==
  IF stat[u] = "ready" THEN Insert(Remove(r, u, priority[u]), u, p) ELSE r

ChangePriority(u, p) ==
  /\ Calls("priority") /\ stat[u] \in {"ready", "suspend"} /\ p # priority[u]
  /\ ready' = Reprioritized(ready, u, p)
  /\ priority' = [priority EXCEPT ![u] = p]
  /\ UNCHANGED <<current, stat, lockNest, tick, remaining, timers, waitList, defunct,
                 threadVars, does, left>>
-----------------------------------------------------------------------------
\* Calls about another thread, whose state is read before interrupts are disabled.

AboutThread(op, u, steps) ==
  /\ Calls(op)
  /\ Goes(steps)
  /\ UNCHANGED <<current, ready, lockNest, tick, remaining, timers, waitList, defunct,
                 error, does, left>>

\* rt_thread_startup(u).
Startup(u) ==
  /\ stat[u] = "init"
  /\ AboutThread("startup", u, <<<<"unlink", u>>, <<"insert", u>>, <<"schedule">>>>)
  /\ stat' = [stat EXCEPT ![u] = "suspend"]
  /\ UNCHANGED priority

\* rt_thread_suspend(u) and rt_thread_resume(u).
Suspend(u) ==
  /\ Has(u, "suspended") /\ stat[u] = "ready" /\ (u = current => lockNest = 0)
  /\ AboutThread("suspend", u, IF u = current THEN <<<<"suspend", u>>, <<"schedule">>>>
                                              ELSE <<<<"suspend", u>>>>)
  /\ UNCHANGED <<stat, priority>>

Resume(u) ==
  /\ Has(u, "suspended") /\ stat[u] = "suspend"
  /\ AboutThread("suspend", u, <<<<"unlink", u>>, <<"insert", u>>>>)
  /\ UNCHANGED <<stat, priority>>

SuspendNow ==
  LET u == Subject IN
  /\ At("suspend")
  /\ stat' = [stat EXCEPT ![u] = "suspend"]
  /\ ready' = Remove(ready, u, priority[u])
  /\ waitList' = Unlinked(u) /\ defunct' = Without(defunct, {u})
  /\ timers' = Stopped(timers, {u})
  /\ Then(<<>>)
  /\ UNCHANGED <<current, priority, lockNest, tick, remaining, error,
                 does, left>>

\* rt_thread_resume(): out of whatever list the thread is in by now ...
UnlinkNow ==
  LET u == Subject IN
  /\ At("unlink")
  /\ ready' = RemoveOnly(ready, u, priority[u])
  /\ waitList' = Unlinked(u) /\ defunct' = Without(defunct, {u})
  /\ timers' = Stopped(timers, {u})
  /\ Then(<<>>)
  /\ UNCHANGED <<current, stat, priority, lockNest, tick, remaining, error,
                 does, left>>

\* ... and, in another section, into the ready list.
InsertNow ==
  LET u == Subject IN
  /\ At("insert")
  /\ stat' = [stat EXCEPT ![u] = "ready"]
  /\ ready' = Insert(ready, u, priority[u])
  /\ Then(<<>>)
  /\ UNCHANGED <<current, priority, lockNest, tick, remaining, timers, waitList,
                 defunct, error, does, left>>

\* rt_thread_detach(u): three sections.
Detach(u) ==
  /\ Has(u, "detached") /\ u # current /\ stat[u] # "close"
  /\ AboutThread("detach", u, (IF stat[u] = "init" THEN <<>> ELSE <<<<"remove", u>>>>)
                             \o <<<<"stop", u>>, <<"close", u>>>>)
  /\ UNCHANGED <<stat, priority>>

RemoveNow ==
  LET u == Subject IN
  /\ At("remove")
  /\ ready' = Remove(ready, u, priority[u])
  /\ waitList' = Unlinked(u) /\ defunct' = Without(defunct, {u})
  /\ Then(<<>>)
  /\ UNCHANGED <<current, stat, priority, lockNest, tick, remaining, timers,
                 error, does, left>>

StopNow ==
  /\ At("stop")
  /\ timers' = Stopped(timers, {Subject})
  /\ Then(<<>>)
  /\ UNCHANGED <<current, schedVars, lockNest, tick, remaining, waitList, defunct,
                 error, does, left>>

Closed(u) == IF u \in Cleanup THEN <<u>> \o defunct ELSE defunct

CloseNow ==
  LET u == Subject IN
  /\ At("close")
  /\ stat' = [stat EXCEPT ![u] = "close"]
  /\ defunct' = Closed(u)
  /\ Then(<<>>)
  /\ UNCHANGED <<current, priority, ready, lockNest, tick, remaining, timers, waitList,
                 error, does, left>>

\* rt_thread_exit(), when a thread returns from its entry function.
Exit ==
  /\ Calls("exit") /\ lockNest = 0
  /\ ready' = Remove(ready, current, priority[current])
  /\ stat' = [stat EXCEPT ![current] = "close"]
  /\ timers' = Stopped(timers, {current})
  /\ defunct' = Closed(current)
  /\ Goes(<<<<"schedule">>>>)
  /\ UNCHANGED <<current, priority, lockNest, tick, remaining, waitList, error,
                 does, left>>

\* rt_thread_idle_excute(): one defunct thread is cleaned up.
IdleCleanup ==
  /\ current = Idle /\ todo[Idle] = <<>> /\ defunct # <<>>
  /\ defunct' = Tail(defunct)
  /\ UNCHANGED <<current, schedVars, lockNest, tick, remaining, timers, waitList,
                 threadVars, does, left>>
-----------------------------------------------------------------------------
\* A step of the current thread's code in the kernel, and a call by it.
Section == Schedule \/ Slept \/ SuspendNow \/ UnlinkNow \/ InsertNow \/ RemoveNow
             \/ StopNow \/ CloseNow
Call ==
  \/ Yield \/ EnterCritical \/ ExitCritical \/ Exit \/ IdleCleanup
  \/ \E n \in WaitTimes : Sleep(n)
  \/ \E u \in Threads : \/ Startup(u) \/ Suspend(u) \/ Resume(u) \/ Detach(u)
                        \/ \E p \in Prios : ChangePriority(u, p)

KernelNext == current # NoThread /\ (Tick \/ Section \/ Call)
-----------------------------------------------------------------------------
KernelTypeOK ==
  /\ current \in Threads
  /\ stat \in [Threads -> {"init", "ready", "suspend", "close"}]
  /\ priority \in [Threads -> Prios]
  /\ ready \in [list : [Prios -> Seq(Threads)], group : SUBSET Prios]
  /\ lockNest \in 0 .. MaxNest
  /\ tick \in Ticks /\ remaining \in [Threads -> 1 .. Slice]
  /\ timers \in Seq([thread : Threads, due : Ticks])
  /\ error \in [Threads -> {"ok", "timeout", "error"}]
  /\ waitList \in [Lists -> Seq(Threads)] /\ defunct \in Seq(Threads)
  /\ left \in [Threads -> 0 .. Half]
=============================================================================
