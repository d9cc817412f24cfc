------------------------------ MODULE FrTimers -------------------------------
(***************************************************************************)
(* FreeRTOS software timers, freertos_test/FreeRTOS/timers.c: a task, the  *)
(* daemon, keeps the timers that run in two lists, for this and the next   *)
(* cycle of the tick count, and calls them when they are due.  Tasks and   *)
(* handlers, and the timers' own callbacks, ask it to start and stop them  *)
(* by messages that tell when they were sent.                              *)
(*                                                                         *)
(* Atomicity.  Only the daemon touches the lists, so what it does between  *)
(* reading the tick count and its next read of it or of its queue is one   *)
(* step; it sleeps, or finds a message, with the scheduler suspended and   *)
(* the queue locked.  Messages and ticks come between.  A callback's calls *)
(* are messages like any other.  (The daemon writes ucStatus without a     *)
(* critical section: a vTimerSetReloadMode() by a task of its priority in  *)
(* the midst of that is undone, as if not called.)                         *)
(***************************************************************************)
EXTENDS Integers, FiniteSets, Sequences

CONSTANTS
  TickMod,     \* width of the tick count
  Periods,
  MaxLag,      \* bound on how late the daemon runs and a message arrives; a period and
               \* it are shorter than a cycle
  TimerUses    \* applications: [timers, messages : length of the queue, calls]

VARIABLES
  timerUse,
  timer,         \* the timers, see Stopped
  xTickCount,
  xLastTime,     \* prvSampleTimeNow()'s
  xTimerQueue,
  daemon,        \* where it is: "loop", "asleep", "commands"
  xTicksToWait,  \* what is left of its sleep
  sinceSample    \* history: ticks since xLastTime was read, up to TickMod

clockVars  == <<xTickCount, xLastTime, sinceSample>>
timersVars == <<timerUse, timer, clockVars, xTimerQueue, daemon, xTicksToWait>>

Timers  == timerUse.timers
Forever == TickMod          \* xWaitIndefinitely
MaxTime == TickMod - 1      \* tmrMAX_TIME_BEFORE_OVERFLOW

\* A timer that does not run.  History: whether it was asked to run and not stopped or
\* called since, in how many ticks it is due, and whether it was ever called without
\* being due.
Stopped(r) == [r EXCEPT !.active = FALSE, !.list = "none", !.value = 0,
                        !.asked = FALSE, !.due = 0]
Created(p, reload) ==
  [period |-> p, reload |-> reload, active |-> FALSE, list |-> "none", value |-> 0,
   asked |-> FALSE, due |-> 0, early |-> FALSE]

TimersInit ==
  /\ timerUse \in TimerUses
  /\ timer \in [Timers -> {Created(p, reload) : p \in Periods, reload \in BOOLEAN}]
  /\ xTickCount = 0 /\ xLastTime = 0 /\ sinceSample = 0
  /\ xTimerQueue = <<>>
  /\ daemon = "loop" /\ xTicksToWait = 0
-----------------------------------------------------------------------------
\* Timers, by themselves.

\* prvInsertTimerInActiveList(): the list for a timer that is to be called at next, a
\* period after time, as seen at now.  Mutant: it forgets that next may have wrapped.
PlacedUnwrapped(next, now, time, period) ==
  IF next <= now
    THEN IF (now - time) % TickMod >= period THEN "process" ELSE "overflow"
    ELSE IF now < time THEN "process" ELSE "current"
Placed(next, now, time, period) ==
  IF next <= now
    THEN IF (now - time) % TickMod >= period THEN "process" ELSE "overflow"
    ELSE IF now < time /\ next >= time THEN "process" ELSE "current"

Early(r) == r.early \/ ~r.asked \/ r.due > 0

\* prvProcessExpiredTimer() and prvReloadTimer(), which calls the timer for each period
\* that is over too.
Expired(r, now) ==
  LET value(k) == (r.value + k * r.period) % TickMod
      place(k) == Placed(value(k + 1), now, value(k), r.period)
      missed   == CHOOSE k \in 0 .. TickMod : /\ place(k) # "process"
                                              /\ \A j \in 0 .. k - 1 : place(j) = "process"
      last     == r.due + missed * r.period
  IN IF r.reload
       THEN [r EXCEPT !.value = value(missed + 1), !.list = place(missed),
                      !.due = last + r.period, !.early = Early(r) \/ last > 0]
       ELSE [Stopped(r) EXCEPT !.early = Early(r)]

\* To be called a period after time, that was age ticks ago.
Started(r, time, age, now) ==
  LET next == (time + r.period) % TickMod
      s    == [r EXCEPT !.active = TRUE, !.value = next, !.asked = TRUE,
                        !.due = r.period - age]
      list == Placed(next, now, time, r.period)
  IN IF list = "process" THEN Expired(s, now) ELSE [s EXCEPT !.list = list]
-----------------------------------------------------------------------------
\* prvSampleTimeNow(): when the tick count has wrapped, prvSwitchTimerLists() calls
\* what is left of the old cycle.
Wrapped == xTickCount < xLastTime
Switched(ts) ==
  [t \in Timers |->
     LET r == IF ts[t].list = "current" THEN Expired(ts[t], MaxTime) ELSE ts[t]
     IN [r EXCEPT !.list = IF @ = "overflow" THEN "current" ELSE @]]
AfterSample(ts) == IF Wrapped THEN Switched(ts) ELSE ts
Sampled == xLastTime' = xTickCount /\ sinceSample' = 0 /\ UNCHANGED xTickCount

\* prvGetNextExpireTime().
Current  == {t \in Timers : timer[t].list = "current"}
Overflow == {t \in Timers : timer[t].list = "overflow"}
IsHead(t) == t \in Current /\ \A u \in Current : timer[t].value <= timer[u].value
NextExpireTime == IF Current = {} THEN 0
                  ELSE timer[CHOOSE t \in Current : IsHead(t)].value

\* prvProcessTimerOrBlockTask().
ExpireTimer(t) ==
  /\ daemon = "loop" /\ ~Wrapped /\ IsHead(t) /\ NextExpireTime <= xTickCount
  /\ timer' = [timer EXCEPT ![t] = Expired(@, xTickCount)]
  /\ daemon' = "commands" /\ Sampled
  /\ UNCHANGED <<xTimerQueue, xTicksToWait>>

SwitchTimerLists ==
  /\ daemon = "loop" /\ Wrapped
  /\ timer' = Switched(timer)
  /\ daemon' = "commands" /\ Sampled
  /\ UNCHANGED <<xTimerQueue, xTicksToWait>>

\* vQueueWaitForMessageRestricted() does not sleep if there is a message.
Block ==
  /\ daemon = "loop" /\ ~Wrapped /\ (Current = {} \/ NextExpireTime > xTickCount)
  /\ IF xTimerQueue = <<>>
       THEN /\ daemon' = "asleep"
            /\ xTicksToWait' = IF Current = {} /\ Overflow = {} THEN Forever
                               ELSE (NextExpireTime - xTickCount) % TickMod
       ELSE daemon' = "commands" /\ UNCHANGED xTicksToWait
  /\ Sampled /\ UNCHANGED <<timer, xTimerQueue>>

\* prvProcessReceivedCommands(): the message says what to do with which timer, taken
\* out of its list first.
Obeyed(r, m) ==
  CASE m.id = "start"  -> Started(r, m.value, m.age, xTickCount)
    [] m.id = "stop"   -> r
    [] m.id = "period" -> Started([r EXCEPT !.period = m.value], xTickCount, 0, xTickCount)
ProcessCommand ==
  /\ daemon = "commands" /\ xTimerQueue # <<>>
  /\ LET m == Head(xTimerQueue) IN
       IF m.id = "call" THEN UNCHANGED <<timer, clockVars>>
       ELSE LET ts == AfterSample([timer EXCEPT ![m.timer] = Stopped(@)]) IN
            timer' = [ts EXCEPT ![m.timer] = Obeyed(@, m)] /\ Sampled
  /\ xTimerQueue' = Tail(xTimerQueue)
  /\ UNCHANGED <<daemon, xTicksToWait>>
NoMoreCommands ==
  /\ daemon = "commands" /\ xTimerQueue = <<>>
  /\ daemon' = "loop"
  /\ UNCHANGED <<timer, clockVars, xTimerQueue, xTicksToWait>>
-----------------------------------------------------------------------------
\* xTimerGenericCommand(), if there is room or by the time there is, and
\* xTimerPendFunctionCall(): a start tells the tick count the caller read before.
Messages(t) ==
  {[id |-> "start", timer |-> t, value |-> (xTickCount - age) % TickMod, age |-> age] :
     age \in 0 .. MaxLag}
  \cup {[id |-> "period", timer |-> t, value |-> p, age |-> 0] : p \in Periods}
  \cup {[id |-> id, timer |-> t, value |-> 0, age |-> 0] : id \in {"stop", "call"}}
Send(m) ==
  /\ m.id \in timerUse.calls
  /\ Len(xTimerQueue) < timerUse.messages
  /\ xTimerQueue' = Append(xTimerQueue, m)
  /\ daemon' = IF daemon = "asleep" THEN "commands" ELSE daemon
  /\ UNCHANGED <<timer, clockVars, xTicksToWait>>

SetReloadMode(t, reload) ==
  /\ "reload" \in timerUse.calls
  /\ timer' = [timer EXCEPT ![t].reload = reload]
  /\ UNCHANGED <<clockVars, xTimerQueue, daemon, xTicksToWait>>

\* A tick, that ends the daemon's sleep when it is over (a sleep of no ticks too).
\* The daemon is not later than MaxLag.
Tick ==
  /\ \A t \in Timers : timer[t].asked => timer[t].due > -MaxLag
  /\ \A i \in 1 .. Len(xTimerQueue) : xTimerQueue[i].age < MaxLag
  /\ xTickCount' = (xTickCount + 1) % TickMod
  /\ sinceSample' = IF sinceSample = TickMod THEN TickMod ELSE sinceSample + 1
  /\ timer' = [t \in Timers |-> IF timer[t].asked THEN [timer[t] EXCEPT !.due = @ - 1]
                                                  ELSE timer[t]]
  /\ xTimerQueue' = [i \in 1 .. Len(xTimerQueue) |->
                       IF xTimerQueue[i].id = "start" THEN [xTimerQueue[i] EXCEPT !.age = @ + 1]
                                                      ELSE xTimerQueue[i]]
  /\ daemon' = IF daemon = "asleep" /\ xTicksToWait <= 1 THEN "commands" ELSE daemon
  /\ xTicksToWait' = IF daemon = "asleep" /\ xTicksToWait \in 1 .. Forever - 1
                       THEN xTicksToWait - 1 ELSE xTicksToWait
  /\ UNCHANGED xLastTime

TimersNext ==
  /\ UNCHANGED timerUse
  /\ \/ SwitchTimerLists \/ Block \/ ProcessCommand \/ NoMoreCommands \/ Tick
     \/ \E t \in Timers : \/ ExpireTimer(t)
                          \/ \E m \in Messages(t) : Send(m)
                          \/ \E reload \in BOOLEAN : SetReloadMode(t, reload)

TimersSpec == TimersInit /\ [][TimersNext]_timersVars
-----------------------------------------------------------------------------
TimersTypeOK ==
  /\ timerUse \in TimerUses
  /\ timer \in [Timers -> [period : Periods, reload : BOOLEAN, active : BOOLEAN,
                           list : {"none", "current", "overflow"}, value : 0 .. MaxTime,
                           asked : BOOLEAN, due : -TickMod .. TickMod, early : BOOLEAN]]
  /\ {xTickCount, xLastTime} \subseteq 0 .. MaxTime /\ xTicksToWait \in 0 .. Forever
  /\ sinceSample \in 0 .. TickMod /\ Len(xTimerQueue) <= timerUse.messages
  /\ daemon \in {"loop", "asleep", "commands"}

\* A timer is never called early or when stopped, for each period just once.
CalledWhenDue == \A t \in Timers : ~timer[t].early

\* One that runs is in the list of the cycle in which it is due, for the tick at which
\* it is due, as of when the daemon last looked at the clock.
ListedRight ==
  \A t \in Timers :
    LET r == timer[t]
        at == xLastTime + sinceSample + r.due
    IN /\ r.asked <=> r.active
       /\ r.list = IF ~r.asked THEN "none" ELSE IF at < TickMod THEN "current" ELSE "overflow"
       /\ r.asked => at \in 0 .. 2 * TickMod - 1 /\ r.value = at % TickMod

\* The daemon sleeps only until the next timer is due or there is a message.
SleepsInTime ==
  daemon = "asleep" => xTimerQueue = <<>> /\ \A t \in Timers : timer[t].asked => timer[t].due > 0

\* Timers are called when they are due, however late the daemon and the messages are,
\* and wherever the tick count wraps meanwhile: while it sleeps, between a message's
\* sending and its processing, between one expiry and the next.
TimersRight == CalledWhenDue /\ ListedRight /\ SleepsInTime
=============================================================================
