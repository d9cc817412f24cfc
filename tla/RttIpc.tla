-------------------------------- MODULE RttIpc --------------------------------
(***************************************************************************)
(* The IPC objects of rtt_test/myrtt/src/ipc.c that rtconfig.h enables:    *)
(* semaphores, mutexes with priority inheritance and a mailbox, on the     *)
(* kernel of RttKernel; RttMessages has the others.  Interrupt handlers    *)
(* may release semaphores and send mail; they run between two sections of  *)
(* a thread, and the switch rt_schedule() asks for is made as they return. *)
(***************************************************************************)
EXTENDS RttKernel

CONSTANTS
  Sems, Mutexes,  \* semaphores and mutexes, each with its suspend list
  Msgs,           \* what is sent by mail
  BoxSize,        \* size of the mailbox
  Permits,        \* initial value of the semaphores
  MaxPermits,     \* bound: permits in circulation
  MaxHold         \* bound: takes of one mutex by one thread

Forever   == -1                \* RT_WAITING_FOREVER
Receivers == "receivers"       \* suspend lists of the mailbox
Senders   == "senders"
Never     == Lowest + 1        \* 0xFF, no original priority

ASSUME IpcAssumption ==
  /\ Sems \cup Mutexes \cup {Receivers, Senders} \subseteq Lists
  /\ Sems \cap Mutexes = {} /\ {Receivers, Senders} \cap (Sems \cup Mutexes) = {}
  /\ BoxSize \in Nat \ {0}
  /\ MaxPermits \in Nat \ {0} /\ Permits \in 0 .. MaxPermits /\ MaxHold \in Nat \ {0}

VARIABLES
  value,      \* of each semaphore and mutex
  owner, original, hold,     \* of each mutex; original is original_priority
  pool, in, out, entry,      \* the mailbox: msg_pool, in_offset, out_offset, entry
  spent,      \* ticks since each was suspended: rt_tick_get() - tick_delta
  received,   \* history: the last message received
  permits,    \* history: permits of each semaphore in circulation
  taken       \* history: takes of each object by each thread, not yet given back

mutexVars == <<owner, original, hold>>
boxVars   == <<pool, in, out, entry>>
ghosts    == <<received, permits, taken>>
ipcVars   == <<value, mutexVars, boxVars, spent, ghosts>>
ipcAndKernel == <<vars, ipcVars>>

Objects == Sems \cup Mutexes

IpcInit ==
  /\ Init
  /\ value = [o \in Objects |-> IF o \in Sems THEN Permits ELSE 1]
  /\ owner = [m \in Mutexes |-> NoThread]
  /\ original = [m \in Mutexes |-> Never] /\ hold = [m \in Mutexes |-> 0]
  /\ \E x \in Msgs : /\ pool = [i \in 0 .. BoxSize - 1 |-> x]
                     /\ received = x
  /\ in = 0 /\ out = 0 /\ entry = 0
  /\ spent = [t \in Threads |-> 0]
  /\ permits = [s \in Sems |-> Permits]
  /\ taken = [t \in Threads |-> [o \in Objects |-> 0]]
-----------------------------------------------------------------------------
\* Suspending and resuming on a list.

\* The thread is put in list l, which then is waiting, and its timer runs for n
\* ticks, given the ready lists r; the call goes on at section next once it is
\* scheduled again.
SuspendIn(l, waiting, n, r, next) ==
  /\ stat' = [stat EXCEPT ![current] = "suspend"]
  /\ ready' = Remove(r, current, priority[current])
  /\ waitList' = [waitList EXCEPT ![l] = waiting]
  /\ timers' = IF n = Forever THEN Stopped(timers, {current}) ELSE Started(timers, current, n)
  /\ spent' = [spent EXCEPT ![current] = 0]
  /\ todo' = [todo EXCEPT ![current] = <<<<"schedule">>, next>>]

\* rt_ipc_list_suspend(), before which the error of an earlier call is cleared.
SuspendOn(l, n, r, next) ==
  /\ SuspendIn(l, Enlisted(l, current), n, r, next)
  /\ error' = [error EXCEPT ![current] = "ok"]

\* A call that waited is over.
Returns == /\ spent' = [spent EXCEPT ![current] = 0]
           /\ left' = [left EXCEPT ![current] = 0]

\* A call begins to wait: its time is over in n ticks.
Begins(n) == left' = [left EXCEPT ![current] = IF n = Forever THEN 0 ELSE n]

\* rt_ipc_list_resume(), given the ready lists r and the
\* priorities prio.
ResumeFirst(l, r, prio) ==
  /\ stat' = [stat EXCEPT ![Head(waitList[l])] = "ready"]
  /\ ready' = Insert(r, Head(waitList[l]), prio[Head(waitList[l])])
  /\ waitList' = [waitList EXCEPT ![l] = Tail(@)]
  /\ timers' = Stopped(timers, {Head(waitList[l])})

ResumeNobody(r) == ready' = r /\ UNCHANGED <<stat, waitList, timers>>

\* rt_ipc_list_resume_all() of the lists of the sequence ls.
ResumeAll(ls) ==
  LET w(l) == waitList[l]
      all == IF Len(ls) = 1 THEN w(ls[1]) ELSE w(ls[1]) \o w(ls[2])
  IN /\ stat' = [t \in Threads |-> IF t \in Elems(all) THEN "ready" ELSE stat[t]]
     /\ error' = [t \in Threads |-> IF t \in Elems(all) THEN "error" ELSE error[t]]
     /\ ready' = TimedOut(ready, all)
     /\ waitList' = [l \in Lists |-> IF l \in Elems(ls) THEN <<>> ELSE waitList[l]]
     /\ timers' = Stopped(timers, Elems(all))

\* The caller goes on to rt_schedule() if it resumed a thread; an interrupt
\* handler has done so before it returns.
CallerGoes(resumed) ==
  /\ todo' = [todo EXCEPT ![current] = IF resumed THEN <<<<"schedule">>>> ELSE <<>>]
  /\ UNCHANGED current
HandlerGoes(resumed) ==
  /\ current' = IF resumed THEN Chosen(ready') ELSE current
  /\ UNCHANGED todo
-----------------------------------------------------------------------------
\* Semaphores.

\* rt_sem_take(s, n); without a permit and with n = 0 it only fails.
SemTake(s, n) ==
  /\ Calls("take") /\ taken[current][s] = 0
  /\ \/ /\ value[s] > 0
        /\ value' = [value EXCEPT ![s] = @ - 1]
        /\ taken' = [taken EXCEPT ![current][s] = 1]
        /\ UNCHANGED <<stat, ready, waitList, timers, spent, todo, error, left>>
     \/ /\ value[s] = 0 /\ n # 0 /\ lockNest = 0
        /\ SuspendOn(s, n, ready, <<"sem_end", s>>) /\ Begins(n)
        /\ UNCHANGED <<value, taken>>
  /\ UNCHANGED <<current, priority, lockNest, tick, remaining, defunct, does,
                 mutexVars, boxVars, received, permits>>

SemEnd ==
  /\ At("sem_end")
  /\ taken' = IF error[current] = "ok"
              THEN [taken EXCEPT ![current][Subject] = 1] ELSE taken
  /\ Returns
  /\ Then(<<>>)
  /\ UNCHANGED <<current, schedVars, lockNest, tick, remaining, timers, waitList, defunct,
                 error, does, value, mutexVars, boxVars, received, permits>>

\* rt_sem_release(s).  Mutant: the value goes up also when a thread is resumed.
ReleaseTwice(s) ==
  /\ value' = [value EXCEPT ![s] = @ + 1]
  /\ IF waitList[s] # <<>> THEN ResumeFirst(s, ready, priority) ELSE ResumeNobody(ready)
Release(s) ==
  IF waitList[s] # <<>> THEN ResumeFirst(s, ready, priority) /\ UNCHANGED value
                        ELSE ResumeNobody(ready) /\ value' = [value EXCEPT ![s] = @ + 1]

\* A permit a thread gives back, or one that a thread or a handler creates.
SemRelease(s) ==
  /\ todo[current] = <<>>
  /\ \/ /\ taken[current][s] = 1
        /\ taken' = [taken EXCEPT ![current][s] = 0] /\ UNCHANGED permits
     \/ /\ May("post") /\ permits[s] < MaxPermits
        /\ permits' = [permits EXCEPT ![s] = @ + 1] /\ UNCHANGED taken
  /\ Release(s) /\ CallerGoes(waitList[s] # <<>>)
  /\ UNCHANGED <<priority, lockNest, tick, remaining, defunct, error, does, left,
                 mutexVars, boxVars, spent, received>>

SemReleaseISR(s) ==
  /\ Has(NoThread, "post") /\ permits[s] < MaxPermits
  /\ permits' = [permits EXCEPT ![s] = @ + 1]
  /\ Release(s) /\ HandlerGoes(waitList[s] # <<>>)
  /\ UNCHANGED <<priority, lockNest, tick, remaining, defunct, error, does, left,
                 mutexVars, boxVars, spent, received, taken>>

\* Threads that hold a permit of s, or were given one and are yet to return.
Holding(s) == {t \in Threads : taken[t][s] > 0}
Granted(s) == {t \in Threads : /\ todo[t] # <<>> /\ todo[t][Len(todo[t])] = <<"sem_end", s>>
                               /\ error[t] = "ok" /\ t \notin Elems(waitList[s])}

\* rt_sem_control(s, RT_IPC_CMD_RESET, n).
SemReset(s, n) ==
  /\ Calls("reset") /\ n + Cardinality(Holding(s) \cup Granted(s)) <= MaxPermits
  /\ ResumeAll(<<s>>)
  /\ value' = [value EXCEPT ![s] = n]
  /\ permits' = [permits EXCEPT ![s] = n + Cardinality(Holding(s) \cup Granted(s))]
  /\ CallerGoes(TRUE)
  /\ UNCHANGED <<priority, lockNest, tick, remaining, defunct, does, left,
                 mutexVars, boxVars, spent, received, taken>>
-----------------------------------------------------------------------------
\* Mutexes.

\* rt_mutex_take(m, n): the mutex is the caller's already, is free, or is
\* another thread's, which then inherits the caller's priority.
MutexTakeAgain(m) ==
  /\ Calls("lock_mutex") /\ owner[m] = current /\ hold[m] < MaxHold
  /\ error' = [error EXCEPT ![current] = "ok"]
  /\ hold' = [hold EXCEPT ![m] = @ + 1]
  /\ taken' = [taken EXCEPT ![current][m] = @ + 1]
  /\ UNCHANGED <<current, schedVars, lockNest, tick, remaining, timers, waitList, defunct,
                 todo, does, left, value, owner, original, boxVars, spent, received, permits>>

Owns(t) == {m \in Mutexes : owner[m] = t}
MayTake == Calls("lock_mutex") /\ (Owns(current) = {} \/ May("nest"))

MutexTakeFree(m) ==
  /\ MayTake /\ owner[m] # current /\ value[m] > 0
  /\ error' = [error EXCEPT ![current] = "ok"]
  /\ value' = [value EXCEPT ![m] = @ - 1]
  /\ owner' = [owner EXCEPT ![m] = current]
  /\ original' = [original EXCEPT ![m] = priority[current]]
  /\ hold' = [hold EXCEPT ![m] = @ + 1]
  /\ taken' = [taken EXCEPT ![current][m] = @ + 1]
  /\ UNCHANGED <<current, schedVars, lockNest, tick, remaining, timers, waitList, defunct,
                 todo, does, left, boxVars, spent, received, permits>>

\* The priority the owner h of a mutex has once t waits for it.
Inherited(h, t) == IF priority[t] < priority[h] THEN priority[t] ELSE priority[h]

MutexTakeWait(m, n) ==
  LET h == owner[m]
      p == Inherited(h, current)
  IN
  /\ MayTake /\ h # current /\ value[m] = 0 /\ n # 0 /\ lockNest = 0
  /\ priority' = [priority EXCEPT ![h] = p]
  /\ SuspendOn(m, n, IF p # priority[h] THEN Reprioritized(ready, h, p) ELSE ready,
               <<"mutex_end", m>>)
  /\ Begins(n)
  /\ UNCHANGED <<current, lockNest, tick, remaining, defunct, does, value, mutexVars,
                 boxVars, ghosts>>

MutexEnd ==
  /\ At("mutex_end")
  /\ taken' = IF error[current] = "ok"
              THEN [taken EXCEPT ![current][Subject] = @ + 1] ELSE taken
  /\ Returns
  /\ Then(<<>>)
  /\ UNCHANGED <<current, schedVars, lockNest, tick, remaining, timers, waitList, defunct,
                 error, does, value, mutexVars, boxVars, received, permits>>

\* rt_mutex_release(m) by its owner: the last release restores the priority and
\* makes the first waiting thread the owner.  Mutant: the priority stays.
Restored(m) == priority[current]
RestoredTo(m) == original[m]

MutexRelease(m) ==
  LET p     == RestoredTo(m)
      r     == IF p # priority[current] THEN Reprioritized(ready, current, p) ELSE ready
      heirs == waitList[m]
      freed == hold[m] = 1
  IN
  /\ todo[current] = <<>> /\ owner[m] = current
  /\ taken' = [taken EXCEPT ![current][m] = @ - 1]
  /\ priority' = IF freed THEN [priority EXCEPT ![current] = p] ELSE priority
  /\ \/ /\ ~freed
        /\ hold' = [hold EXCEPT ![m] = @ - 1]
        /\ ResumeNobody(ready) /\ UNCHANGED <<value, owner, original>>
     \/ /\ freed /\ heirs # <<>>
        /\ ResumeFirst(m, r, priority')
        /\ owner' = [owner EXCEPT ![m] = Head(heirs)]
        /\ original' = [original EXCEPT ![m] = priority'[Head(heirs)]]
        /\ UNCHANGED <<value, hold>>
     \/ /\ freed /\ heirs = <<>>
        /\ hold' = [hold EXCEPT ![m] = 0]
        /\ ResumeNobody(r)
        /\ value' = [value EXCEPT ![m] = @ + 1]
        /\ owner' = [owner EXCEPT ![m] = NoThread]
        /\ original' = [original EXCEPT ![m] = Never]
  /\ CallerGoes(freed /\ heirs # <<>>)
  /\ UNCHANGED <<lockNest, tick, remaining, defunct, error, does, left, boxVars,
                 spent, received, permits>>
-----------------------------------------------------------------------------
\* The mailbox.

\* The messages in it, first the one to be received next.
Mail == [i \in 1 .. entry |-> pool[(out + i - 1) % BoxSize]]
Advanced(offset) == IF offset + 1 >= BoxSize THEN 0 ELSE offset + 1

\* A message goes in, or out, and a waiting thread is resumed.  Mutant: the
\* oldest message goes with it.
PutOver(x) ==
  /\ pool' = [pool EXCEPT ![in] = x]
  /\ in' = Advanced(in) /\ out' = Advanced(out) /\ entry' = entry + 1
Put(x) ==
  /\ pool' = [pool EXCEPT ![in] = x]
  /\ in' = Advanced(in) /\ entry' = entry + 1
  /\ UNCHANGED out

Get ==
  /\ received' = pool[out]
  /\ out' = Advanced(out) /\ entry' = entry - 1
  /\ UNCHANGED <<pool, in>>

ResumeOne(l) ==
  IF waitList[l] # <<>> THEN ResumeFirst(l, ready, priority) ELSE ResumeNobody(ready)

\* rt_mb_send_wait(x, n) to a full mailbox with n = 0, and rt_mb_recv() from an
\* empty one, only fail.
Send(x, n) ==
  /\ Calls("send")
  /\ \/ /\ entry < BoxSize
        /\ Put(x) /\ ResumeOne(Receivers) /\ CallerGoes(waitList[Receivers] # <<>>)
        /\ UNCHANGED <<spent, error, left>>
     \/ /\ entry = BoxSize /\ n # 0 /\ lockNest = 0
        /\ SuspendOn(Senders, n, ready, <<"send_again", x, n>>) /\ Begins(n)
        /\ UNCHANGED <<current, boxVars>>
  /\ UNCHANGED <<priority, lockNest, tick, remaining, defunct, does, value,
                 mutexVars, ghosts>>

Receive(n) ==
  /\ Calls("recv")
  /\ \/ /\ entry > 0
        /\ Get /\ ResumeOne(Senders) /\ CallerGoes(waitList[Senders] # <<>>)
        /\ UNCHANGED <<spent, error, left>>
     \/ /\ entry = 0 /\ n # 0 /\ lockNest = 0
        /\ SuspendOn(Receivers, n, ready, <<"recv_again", n>>) /\ Begins(n)
        /\ UNCHANGED <<current, boxVars, received>>
  /\ UNCHANGED <<priority, lockNest, tick, remaining, defunct, does, value,
                 mutexVars, permits, taken>>

\* What is left of the timeout n of a call that was resumed.
WaitLeft(n) == IF n = Forever THEN Forever ELSE n - spent[current]

\* The loop of a call that waited: it fails with the error it was resumed with
\* or if its time is over, does its work, or waits again.
Fails(refused, n) ==
  /\ error[current] # "ok" \/ (refused /\ WaitLeft(n) = 0)
  /\ Returns /\ Then(<<>>)
  /\ UNCHANGED <<current, stat, ready, waitList, timers, boxVars, error>>
Works(l) ==
  /\ error[current] = "ok"
  /\ ResumeOne(l) /\ CallerGoes(waitList[l] # <<>>)
  /\ Returns
  /\ UNCHANGED error
WaitsAgain(l, n, again) ==
  /\ error[current] = "ok" /\ n # 0
  /\ SuspendOn(l, n, ready, again)
  /\ UNCHANGED <<current, boxVars, left>>

SendAgain ==
  LET x == Head(todo[current])[2]
      n == Head(todo[current])[3]
  IN
  /\ At("send_again")
  /\ \/ Fails(entry = BoxSize, n)
     \/ entry < BoxSize /\ Put(x) /\ Works(Receivers)
     \/ /\ entry = BoxSize
        /\ WaitsAgain(Senders, WaitLeft(n), <<"send_again", x, WaitLeft(n)>>)
  /\ UNCHANGED <<priority, lockNest, tick, remaining, defunct, does, value,
                 mutexVars, ghosts>>

ReceiveAgain ==
  LET n == Head(todo[current])[2]
  IN
  /\ At("recv_again")
  /\ \/ Fails(entry = 0, n) /\ UNCHANGED received
     \/ entry > 0 /\ Get /\ Works(Senders)
     \/ /\ entry = 0
        /\ WaitsAgain(Receivers, WaitLeft(n), <<"recv_again", WaitLeft(n)>>)
        /\ UNCHANGED received
  /\ UNCHANGED <<priority, lockNest, tick, remaining, defunct, does, value,
                 mutexVars, permits, taken>>

\* rt_mb_send() by an interrupt handler.
SendISR(x) ==
  /\ Has(NoThread, "send") /\ entry < BoxSize
  /\ Put(x) /\ ResumeOne(Receivers) /\ HandlerGoes(waitList[Receivers] # <<>>)
  /\ UNCHANGED <<priority, lockNest, tick, remaining, defunct, error, does, left, value,
                 mutexVars, spent, ghosts>>

\* rt_mb_control(RT_IPC_CMD_RESET).
BoxReset ==
  /\ Calls("reset_box")
  /\ ResumeAll(<<Receivers, Senders>>)
  /\ in' = 0 /\ out' = 0 /\ entry' = 0
  /\ CallerGoes(TRUE)
  /\ UNCHANGED <<priority, lockNest, tick, remaining, defunct, does, left, value,
                 mutexVars, pool, spent, ghosts>>
-----------------------------------------------------------------------------
\* The last section of the call of t, and what a call that may wait more than once waits
\* at most.
Looping == {"send_again", "recv_again", "mq_again", "mp_woken"}
Last(t) == todo[t][Len(todo[t])]
Timeout(t) == IF todo[t] # <<>> /\ Last(t)[1] \in Looping
              THEN Last(t)[Len(Last(t))] ELSE 0

TickOfAll ==
  /\ Tick
  /\ spent' = [t \in Threads |-> IF spent[t] < Timeout(t) THEN spent[t] + 1 ELSE spent[t]]
  /\ UNCHANGED <<value, mutexVars, boxVars, ghosts>>

InCall == (Section /\ UNCHANGED ipcVars) \/ SemEnd \/ MutexEnd \/ SendAgain \/ ReceiveAgain
ApplicationCall ==
  \/ Call /\ UNCHANGED ipcVars
  \/ \E s \in Sems : \/ SemRelease(s)
                     \/ \E n \in WaitTimes \cup {Forever} : SemTake(s, n)
                     \/ \E n \in 0 .. MaxPermits : SemReset(s, n)
  \/ \E m \in Mutexes : \/ MutexTakeAgain(m) \/ MutexTakeFree(m) \/ MutexRelease(m)
                        \/ \E n \in WaitTimes \cup {Forever} : MutexTakeWait(m, n)
  \/ \E n \in WaitTimes \cup {Forever} : Receive(n) \/ \E x \in Msgs : Send(x, n)
  \/ BoxReset
Handler == (\E s \in Sems : SemReleaseISR(s)) \/ (\E x \in Msgs : SendISR(x))

IpcNext == TickOfAll \/ InCall \/ ApplicationCall \/ Handler
-----------------------------------------------------------------------------
\* Properties.

IpcTypeOK ==
  /\ KernelTypeOK
  /\ value \in [Objects -> 0 .. MaxPermits]
  /\ owner \in [Mutexes -> Threads \cup {NoThread}]
  /\ original \in [Mutexes -> 0 .. Never] /\ hold \in [Mutexes -> 0 .. MaxHold]
  /\ pool \in [0 .. BoxSize - 1 -> Msgs] /\ entry \in 0 .. BoxSize
  /\ in \in 0 .. BoxSize - 1 /\ out \in 0 .. BoxSize - 1
  /\ spent \in [Threads -> 0 .. Half]
  /\ received \in Msgs /\ permits \in [Sems -> 0 .. MaxPermits]
  /\ taken \in [Threads -> [Objects -> 0 .. MaxHold]]

\* rt_schedule() finds a thread: the group names every priority that has ready
\* threads, and the most urgent one it names has some, also between the two
\* sections of rt_thread_resume(), which leaves a list without clearing its bit.
ReadyGroupRight ==
  /\ \A p \in Prios : ready.list[p] # <<>> => p \in ready.group
  /\ \E p \in ready.group : ready.list[p] # <<>> /\ \A q \in ready.group : p <= q

\* A thread's list node is in one place: a thread that waits in no ready list and
\* in at most one suspend list, a ready one once in the list of its priority, if it
\* is not about to be put there, and a closed one nowhere
\* (the tlist moves of scheduler.c, thread.c and ipc.c).
Times(t, s) == Cardinality({i \in DOMAIN s : s[i] = t})
Inserting(t) == \E u \in Threads : \E i \in DOMAIN todo[u] :
                  todo[u][i] \in {<<"insert", t>>, <<"stop", t>>, <<"close", t>>}
NodeInOnePlace ==
  \A t \in Threads :
    LET isIn == {p \in Prios : t \in Elems(ready.list[p])}
        waits == {l \in Lists : t \in Elems(waitList[l])}
    IN /\ \A p \in Prios : Times(t, ready.list[p]) <= 1
       /\ isIn \subseteq {priority[t]} /\ (isIn = {} \/ stat[t] = "ready")
       /\ stat[t] = "ready" => isIn # {} \/ Inserting(t)
       /\ waits = {} \/ (stat[t] = "suspend" /\ Cardinality(waits) = 1)

\* Time-outs come exactly when they are due, whatever the tick count is when they
\* start, also when a call to the mailbox waits a second time: a running timer is
\* due in as many ticks as are left of the time its thread asked for, the list is
\* sorted by that, and a thread whose time is over is not left in it (rt_timer_start,
\* rt_timer_check, rt_mb_send_wait, rt_mb_recv).
TimersOnTime ==
  /\ \A e \in Elems(timers) : (e.due - tick) % TickMod = left[e.thread]
  /\ \A i, j \in DOMAIN timers : i < j => left[timers[i].thread] <= left[timers[j].thread]

\* Only the timer of a thread that waits runs: nothing is left behind that would
\* time out a later call (rt_timer_stop in rt_thread_suspend and rt_thread_resume).
TimersOfWaiting == \A e \in Elems(timers) : stat[e.thread] = "suspend"

\* Both: a waiting thread times out when it is due, and no other does.
TimersRight == TimersOnTime /\ TimersOfWaiting

\* No thread is scheduled once it was detached: "The thread object will be removed
\* from thread queue and detached/deleted from system object management."
\* (thread.c:301-302).
ClosedNeverReady ==
  \A t \in Threads : stat[t] = "close" => \A p \in Prios : t \notin Elems(ready.list[p])

\* The three together: the ready table and the suspend lists say who may run.
ThreadsListed == ReadyGroupRight /\ NodeInOnePlace /\ ClosedNeverReady

\* Permits are neither lost nor made up, whatever becomes of takes that time out
\* while a release or a reset is on its way (rt_sem_take, rt_sem_release).
PermitsKept ==
  \A s \in Sems : value[s] + Cardinality(Holding(s) \cup Granted(s)) = permits[s]

\* A permit is not left lying while a thread waits for one (rt_sem_release).
NoIdlePermit == \A s \in Sems : value[s] > 0 => waitList[s] = <<>>

\* Both.
PermitsRight == PermitsKept /\ NoIdlePermit

\* A thread that took a mutex, and has not released it as often, owns it, with as
\* many holds as it took and, once it was made the owner while waiting, one it is
\* about to learn of (rt_mutex_take, rt_mutex_release).
MutexesHeld ==
  \A m \in Mutexes :
    /\ \A t \in Threads : taken[t][m] > 0 => owner[m] = t /\ hold[m] = taken[t][m]
    /\ owner[m] = NoThread <=> value[m] = 1 /\ hold[m] = 0
    /\ owner[m] # NoThread =>
         taken[owner[m]][m] > 0 \/ (hold[m] = 1 /\ Last(owner[m]) = <<"mutex_end", m>>
                                    /\ error[owner[m]] = "ok" /\ stat[owner[m]] = "ready")

\* What threads share is neither lost nor doubled (rt_sem_release, rt_mutex_release).
HoldingsRight == PermitsRight /\ MutexesHeld

\* No thread waits for a mutex of a less urgent one, if threads hold one mutex at
\* most and its waiting threads are sorted by priority (rt_mutex_take).
Nested == \E t \in Threads : Has(t, "nest")
NoInversion ==
  ~Nested => \A m \in Mutexes \ FifoLists : \A t \in Elems(waitList[m]) :
               priority[owner[m]] <= priority[t]

\* Whatever it inherited, a thread without a mutex has the priority it was created
\* with, if it holds one mutex at most (rt_mutex_take, rt_mutex_release).
OriginalPriority == \A t \in Threads : Owns(t) = {} => priority[t] = Prio[t]
PriorityRestored == (\A t \in Threads : ~Has(t, "priority")) /\ ~Nested => OriginalPriority

\* Both: priorities are inherited while a mutex is held, and only then.
MutexPriorities == NoInversion /\ PriorityRestored

\* The mailbox is a bounded FIFO queue: a step adds a message at its end, takes the
\* first one away and delivers it, or empties it (rt_mb_send_wait, rt_mb_recv).
MailInOrder ==
  [][\/ UNCHANGED Mail
     \/ Len(Mail) < BoxSize /\ \E x \in Msgs : Mail' = Append(Mail, x)
     \/ Mail # <<>> /\ Mail' = Tail(Mail) /\ received' = Head(Mail)
     \/ BoxReset]_<<Mail, received>>

\* No wake-up is lost: while threads wait to receive, as many resumed threads as
\* there are messages are on their way to look again, and so for senders and free
\* places (rt_mb_send_wait, rt_mb_recv).
Looking(again) == {t \in Threads : /\ todo[t] # <<>> /\ Last(t)[1] = again
                                   /\ stat[t] = "ready" /\ error[t] = "ok"}
MailCovered ==
  /\ waitList[Receivers] # <<>> => Cardinality(Looking("recv_again")) >= entry
  /\ waitList[Senders] # <<>> => Cardinality(Looking("send_again")) >= BoxSize - entry

\* Threads of equal priority share the hart: a ready thread gets to run, unless more
\* urgent ones do (rt_tick_increase, rt_thread_yield, rt_exit_critical).
SharesTime ==
  \A t \in Threads : stat[t] = "ready" ~>
    current = t \/ stat[t] # "ready" \/ priority[current] < priority[t]

\* A call with a timeout returns, if its thread is more urgent than all others: it is
\* resumed or timed out, and then scheduled (rt_timer_check, rt_schedule).
TimedCallsEnd ==
  \A t \in Threads : (\A u \in Threads \ {t} : Prio[t] < Prio[u]) =>
    (left[t] > 0 ~> todo[t] = <<>>)
=============================================================================
