------------------------------- MODULE RttTimers ------------------------------
(***************************************************************************)
(* The timers of RT-Thread with functions to call, rtt_test/myrtt/src/     *)
(* timer.c: a thread starts, stops and changes them, and so do the         *)
(* functions, which the tick interrupt calls.  RttKernel has the timers    *)
(* that end the waits of threads.                                          *)
(*                                                                         *)
(* Atomicity.  The tick interrupt finishes rt_timer_check() before the     *)
(* thread goes on, and what it calls is not interrupted.  The thread's own *)
(* calls disable interrupts for parts of them only: "call" is where it is  *)
(* in one.  A flag is changed by a load and a store.                       *)
(***************************************************************************)
EXTENDS Integers, Sequences, FiniteSets

CONSTANTS
  Timers,
  NoTimer,
  TickMod,     \* 2^32
  Times,       \* of timers, none of which is 0
  MaxLate,     \* bound: ticks past its time when a timer is put in the list
  TimerUses    \* the timers the thread calls on: functions call on their own and others

VARIABLES
  timerUse,
  timerList,     \* rt_timer_list
  timeoutTick,   \* timeout_tick
  initTick,      \* init_tick
  activated,     \* RT_TIMER_FLAG_ACTIVATED
  periodic,      \* RT_TIMER_FLAG_PERIODIC
  checking,      \* the tick interrupt is in rt_timer_check()
  call,          \* of the thread
  wanted,        \* history: timers started and neither stopped nor over
  fresh,         \* history: timers put in the list since the last tick
  unflagged,     \* history: timers in the list whose flag was cleared behind them
  tick           \* rt_tick

rttTimerVars == <<timerUse, timerList, timeoutTick, initTick, activated, periodic,
                  checking, call, wanted, fresh, unflagged, tick>>

Half == (TickMod - 1) \div 2    \* RT_TICK_MAX / 2
Listed(t) == \E k \in DOMAIN timerList : timerList[k] = t
NoCall == [at |-> "none", timer |-> NoTimer, active |-> FALSE]

\* rt_timer_init() of all.
RttTimersInit ==
  /\ timerUse \in TimerUses
  /\ timerList = <<>> /\ tick = 0
  /\ timeoutTick = [t \in Timers |-> 0]
  /\ initTick \in [Timers -> Times] /\ periodic \in [Timers -> BOOLEAN]
  /\ activated = [t \in Timers |-> FALSE]
  /\ checking = FALSE /\ call = NoCall
  /\ wanted = {} /\ fresh = {} /\ unflagged = {}
-----------------------------------------------------------------------------
\* _rt_timer_remove().
Removed(list, t) ==
  IF \E k \in 1 .. Len(list) : list[k] = t
    THEN LET k == CHOOSE k \in 1 .. Len(list) : list[k] = t
         IN SubSeq(list, 1, k - 1) \o SubSeq(list, k + 1, Len(list))
    ELSE list

\* rt_timer_start(): after the timers that are due no later than t.  Mutant: the tick
\* count is taken not to wrap.
IsLaterTick(a, b) == a > b
IsLater(a, b) == (a - b) % TickMod \in 1 .. Half - 1
Placed(list, dues, t) ==
  LET k == CHOOSE k \in 0 .. Len(list) :
             /\ \A i \in 1 .. k : ~IsLater(dues[list[i]], dues[t])
             /\ k < Len(list) => IsLater(dues[list[k + 1]], dues[t])
  IN SubSeq(list, 1, k) \o <<t>> \o SubSeq(list, k + 1, Len(list))

IsDue(t) == (tick - timeoutTick[t]) % TickMod < Half
-----------------------------------------------------------------------------
\* What the thread does to the timer t.
Calls(t, at) == /\ ~checking /\ call = NoCall /\ t \in timerUse
                /\ call' = [NoCall EXCEPT !.at = at, !.timer = t]
At(at) == ~checking /\ call.at = at
Goes(at) == call' = [call EXCEPT !.at = at]
SameSetup == UNCHANGED <<timerUse, initTick, periodic, checking, tick>>

\* rt_timer_start() takes it off the list, reads the tick count, and puts it in again.
Start(t) ==
  /\ Calls(t, "read")
  /\ timerList' = Removed(timerList, t)
  /\ activated' = [activated EXCEPT ![t] = FALSE]
  /\ UNCHANGED <<timeoutTick, wanted, fresh, unflagged>> /\ SameSetup
ReadTick ==
  /\ At("read") /\ Goes("insert")
  /\ timeoutTick' = [timeoutTick EXCEPT ![call.timer] = (tick + initTick[call.timer]) % TickMod]
  /\ UNCHANGED <<timerList, activated, wanted, fresh, unflagged>> /\ SameSetup
InsertTimer ==
  /\ At("insert") /\ call' = NoCall
  /\ timerList' = Placed(timerList, timeoutTick, call.timer)
  /\ activated' = [activated EXCEPT ![call.timer] = TRUE]
  /\ wanted' = wanted \cup {call.timer} /\ fresh' = fresh \cup {call.timer}
  /\ unflagged' = unflagged \ {call.timer}
  /\ UNCHANGED timeoutTick /\ SameSetup

\* rt_timer_stop() goes by the flag, and clears it last.
Stop(t) ==
  /\ activated[t] /\ Calls(t, "remove")
  /\ UNCHANGED <<timerList, timeoutTick, activated, wanted, fresh, unflagged>>
  /\ SameSetup
RemoveTimer ==
  /\ At("remove") /\ Goes("clear")
  /\ timerList' = Removed(timerList, call.timer)
  /\ UNCHANGED <<timeoutTick, activated, wanted, fresh, unflagged>> /\ SameSetup
ClearFlag ==
  /\ At("clear") /\ call' = NoCall
  /\ activated' = [activated EXCEPT ![call.timer] = FALSE]
  /\ wanted' = wanted \ {call.timer} /\ unflagged' = unflagged \ {call.timer}
  /\ UNCHANGED <<timerList, timeoutTick, fresh>> /\ SameSetup

\* rt_timer_control(): the time at once, the kind by a load of the flags and a store.
SetTime(t) ==
  /\ ~checking /\ call = NoCall /\ t \in timerUse
  /\ \E n \in Times : initTick' = [initTick EXCEPT ![t] = n]
  /\ UNCHANGED <<timerUse, timerList, timeoutTick, activated, periodic, checking, call,
                 wanted, fresh, unflagged, tick>>
LoadFlags(t) ==
  /\ ~checking /\ call = NoCall /\ t \in timerUse
  /\ call' = [at |-> "store", timer |-> t, active |-> activated[t]]
  /\ UNCHANGED <<timerList, timeoutTick, activated, wanted, fresh, unflagged>>
  /\ SameSetup
StoreFlags ==
  /\ At("store") /\ call' = NoCall
  /\ \E b \in BOOLEAN : periodic' = [periodic EXCEPT ![call.timer] = b]
  /\ activated' = [activated EXCEPT ![call.timer] = call.active]
  /\ unflagged' = IF Listed(call.timer) /\ ~call.active
                   THEN unflagged \cup {call.timer} ELSE unflagged
  /\ UNCHANGED <<timerUse, timerList, timeoutTick, initTick, checking, wanted, fresh, tick>>
-----------------------------------------------------------------------------
\* rt_tick_increase() calls rt_timer_check(), unless it would be late by more than
\* the bound when the thread goes on.
InTime(t) == (tick + 1 - timeoutTick[t]) % TickMod \notin MaxLate + 1 .. Half - 1
Tick ==
  /\ ~checking /\ (call.at = "insert" => InTime(call.timer))
  /\ tick' = (tick + 1) % TickMod
  /\ checking' = TRUE /\ fresh' = {}
  /\ UNCHANGED <<timerUse, timerList, timeoutTick, initTick, activated, periodic, call,
                 wanted, unflagged>>

\* What the function of the timer t, which is off the list, may do to the timer u: a
\* state of the timers is a record of the list, the flags, the times and the history.
State == [list |-> timerList, due |-> timeoutTick, init |-> initTick, act |-> activated,
          per |-> periodic, wanted |-> wanted, fresh |-> fresh, unflagged |-> unflagged]
Becomes(s) ==
  /\ timerList' = s.list /\ timeoutTick' = s.due /\ initTick' = s.init
  /\ activated' = s.act /\ periodic' = s.per
  /\ wanted' = s.wanted /\ fresh' = s.fresh /\ unflagged' = s.unflagged

Started(s, u) ==
  LET dues == [s.due EXCEPT ![u] = (tick + s.init[u]) % TickMod]
  IN [s EXCEPT !.list = Placed(Removed(@, u), dues, u), !.due = dues, !.act[u] = TRUE,
               !.wanted = @ \cup {u}, !.fresh = @ \cup {u}, !.unflagged = @ \ {u}]
Stopped(s, u) ==
  IF s.act[u]
  THEN [s EXCEPT !.list = Removed(@, u), !.act[u] = FALSE,
                 !.wanted = @ \ {u}, !.unflagged = @ \ {u}]
  ELSE s
Done(s, u) == {s, Started(s, u), Stopped(s, u)}
              \cup {[s EXCEPT !.init[u] = n] : n \in Times}
              \cup {[s EXCEPT !.per[u] = b] : b \in BOOLEAN}

\* After its function a timer that is periodic and activated starts again; the flag of any
\* other is cleared, also when the function started it.
AfterCall(s, t) ==
  LET restarted == t \in s.fresh
      c == IF s.per[t] /\ s.act[t] THEN Started(s, t)
           ELSE [s EXCEPT !.act[t] = FALSE,
                          !.unflagged = IF restarted THEN @ \cup {t} ELSE @]
  IN [c EXCEPT !.wanted = IF s.per[t] \/ restarted THEN s.wanted ELSE s.wanted \ {t}]

\* rt_timer_check(): the first timer, if its time has come ...
CallFirst ==
  /\ checking /\ timerList # <<>> /\ IsDue(Head(timerList))
  /\ LET t == Head(timerList)
         s == [State EXCEPT !.list = Tail(@)]
     IN \E u \in (Timers \ timerUse) \cup {t} : \E d \in Done(s, u) : Becomes(AfterCall(d, t))
  /\ UNCHANGED <<timerUse, checking, call, tick>>

\* ... until there is none.
LeaveCheck ==
  /\ checking /\ (timerList # <<>> => ~IsDue(Head(timerList)))
  /\ checking' = FALSE
  /\ UNCHANGED <<timerUse, timerList, timeoutTick, initTick, activated, periodic, call,
                 wanted, fresh, unflagged, tick>>

RttTimersNext ==
  \/ \E t \in Timers : Start(t) \/ Stop(t) \/ SetTime(t) \/ LoadFlags(t)
  \/ ReadTick \/ InsertTimer \/ RemoveTimer \/ ClearFlag \/ StoreFlags
  \/ Tick \/ CallFirst \/ LeaveCheck

RttTimersSpec == RttTimersInit /\ [][RttTimersNext]_rttTimerVars
-----------------------------------------------------------------------------
RttTimersTypeOK ==
  /\ timerUse \in TimerUses
  /\ timerList \in Seq(Timers) /\ timeoutTick \in [Timers -> 0 .. TickMod - 1]
  /\ initTick \in [Timers -> Times]
  /\ activated \in [Timers -> BOOLEAN] /\ periodic \in [Timers -> BOOLEAN]
  /\ checking \in BOOLEAN /\ call.timer \in Timers \cup {NoTimer}
  /\ call.at \in {"none", "read", "insert", "remove", "clear", "store"}
  /\ tick \in 0 .. TickMod - 1

\* The list has each timer once at most, in the order of their times over the wrap of the
\* tick count (rt_timer_start).
SortedOnce ==
  \A i, j \in DOMAIN timerList :
    i < j => /\ timerList[i] # timerList[j]
             /\ ~IsLater(timeoutTick[timerList[i]], timeoutTick[timerList[j]])

\* After the tick interrupt no time has passed of a timer that was in the list before
\* (rt_timer_check).
NoneOverdue == checking \/ \A t \in Timers : Listed(t) /\ t \notin fresh => ~IsDue(t)

\* The timers in the list are those that were started and neither stopped nor over, a
\* periodic one never being over, except those a call is about (rt_timer_start,
\* rt_timer_stop, rt_timer_check).  A one-shot timer that its own function started again
\* goes without its flag, and by a store of flags loaded then it may lose it once more:
\* made periodic, such a timer is called once more only.
WantedListed ==
  \A t \in Timers \ unflagged :
    \/ checking
    \/ call.timer = t /\ call.at # "store"
    \/ Listed(t) = (t \in wanted)

RttTimersRight == SortedOnce /\ NoneOverdue /\ WantedListed
=============================================================================
