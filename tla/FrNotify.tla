------------------------------ MODULE FrNotify -------------------------------
(***************************************************************************)
(* FreeRTOS task notifications, freertos_test/FreeRTOS/tasks.c: a task     *)
(* waits for a word and a flag of its own (ulTaskNotifyTake and            *)
(* xTaskNotifyWait), others write and wake (xTaskNotify and its siblings   *)
(* for interrupt handlers, which do the same to the task).                 *)
(*                                                                         *)
(* Atomicity.  A critical section is one step.  Each wait has two, and     *)
(* between them, asleep or not, others may notify the task.  Which ready   *)
(* task runs is left open here (FrTasks).                                  *)
(*                                                                         *)
(* The 32-bit notification value is a number where notifications count, a  *)
(* set of bits where they are flags, a message where they carry one.       *)
(***************************************************************************)
EXTENDS Integers, FiniteSets, Sequences

CONSTANTS
  Tasks,     \* tasks that wait
  Bits,      \* of a notification value
  Letters,   \* messages a notification value can be
  CountMod   \* 2^32

VARIABLES
  protocol,         \* what notifications are used for
  ucNotifyState,
  ulNotifiedValue,
  blocked,          \* whether a task sleeps, in a delayed or the suspended list
  pc,               \* where each task is in its call
  op,               \* that call
  untold            \* history: what the task was notified of and not yet told

notifyVars == <<ucNotifyState, ulNotifiedValue, blocked>>

Protocols == {"count", "bits", "mail"}
Zero   == [count |-> 0, bits |-> {}, mail |-> "zero"]
Waits  == {"none", "finite", "forever"}

NotifyInit ==
  /\ protocol \in Protocols
  /\ ucNotifyState = [t \in Tasks |-> "not_waiting"]
  /\ ulNotifiedValue = [t \in Tasks |-> Zero[protocol]]
  /\ blocked = [t \in Tasks |-> FALSE]
  /\ pc = [t \in Tasks |-> "idle"]
  /\ op = [t \in Tasks |-> [clear |-> FALSE, wait |-> "none"]]
  /\ untold = [t \in Tasks |-> Zero[protocol]]

Goto(t, l) == pc' = [pc EXCEPT ![t] = l]
-----------------------------------------------------------------------------
\* What the calls do with the flag and the word of task t.

\* The first section of a wait that has to wait: sleep, if there is a block time.
WaitForNotification(t, wait) ==
  /\ ucNotifyState' = [ucNotifyState EXCEPT ![t] = "waiting"]
  /\ blocked' = [blocked EXCEPT ![t] = wait # "none"]

\* The end of the second section.
NotWaiting(t) ==
  /\ ucNotifyState' = [ucNotifyState EXCEPT ![t] = "not_waiting"]
  /\ UNCHANGED blocked

\* xTaskNotifyStateClear().
StateCleared(t) ==
  /\ ucNotifyState' = [ucNotifyState EXCEPT ![t] = IF @ = "received" THEN "not_waiting" ELSE @]
  /\ UNCHANGED blocked

\* xTaskNotify(): a task that waits, asleep or awake, is put among the ready ones.
Notified(t) ==
  /\ ucNotifyState' = [ucNotifyState EXCEPT ![t] = "received"]
  /\ blocked' = [blocked EXCEPT ![t] = IF ucNotifyState[t] = "waiting" THEN FALSE ELSE @]
-----------------------------------------------------------------------------
\* Notifications that count: ulTaskNotifyTake() and xTaskNotifyGive().

Take(t, clear, wait) ==
  /\ protocol = "count" /\ pc[t] = "idle"
  /\ IF ulNotifiedValue[t] = 0 THEN WaitForNotification(t, wait)
                               ELSE UNCHANGED <<ucNotifyState, blocked>>
  /\ op' = [op EXCEPT ![t] = [clear |-> clear, wait |-> wait]]
  /\ Goto(t, "take")
  /\ UNCHANGED <<ulNotifiedValue, untold>>

\* The second section takes what there is by now, one or all.  Mutant: it takes
\* one, or nothing, whatever it is told to.
Returned(t) == IF op[t].clear \/ ulNotifiedValue[t] = 0 THEN ulNotifiedValue[t] ELSE 1
LeftAlways(v, clear) == IF v = 0 THEN 0 ELSE v - 1
Left(v, clear) == IF v = 0 \/ clear THEN 0 ELSE v - 1
TakeEnd(t) ==
  /\ pc[t] = "take" /\ ~blocked[t]
  /\ ulNotifiedValue' = [ulNotifiedValue EXCEPT ![t] = Left(@, op[t].clear)]
  /\ untold' = [untold EXCEPT ![t] = @ - Returned(t)]
  /\ NotWaiting(t)
  /\ Goto(t, "idle") /\ UNCHANGED op

\* eIncrement, which wraps.
Give(t) ==
  /\ protocol = "count" /\ untold[t] < CountMod
  /\ Notified(t)
  /\ ulNotifiedValue' = [ulNotifiedValue EXCEPT ![t] = (@ + 1) % CountMod]
  /\ untold' = [untold EXCEPT ![t] = @ + 1]
  /\ UNCHANGED <<pc, op>>
-----------------------------------------------------------------------------
\* Notifications with contents: xTaskNotifyWait() and xTaskNotify().

\* The first section; bits to clear on entry are cleared unless notified already.
\* Mutant: always.
ClearsAlways(t)  == TRUE
ClearsOnEntry(t) == ucNotifyState[t] # "received"
NotifyWait(t, entry, wait) ==
  /\ protocol \in {"bits", "mail"} /\ pc[t] = "idle"
  /\ IF ucNotifyState[t] # "received" THEN WaitForNotification(t, wait)
                                      ELSE UNCHANGED <<ucNotifyState, blocked>>
  /\ ulNotifiedValue' =
       IF protocol = "bits" /\ ClearsOnEntry(t)
         THEN [ulNotifiedValue EXCEPT ![t] = @ \ entry] ELSE ulNotifiedValue
  /\ op' = [op EXCEPT ![t] = [clear |-> FALSE, wait |-> wait]]
  /\ Goto(t, "wait")
  /\ UNCHANGED untold

\* The second section tells the value, if there was a notification by now, and
\* clears bits on exit.
NotifyWaitEnd(t, exit) ==
  /\ pc[t] = "wait" /\ ~blocked[t]
  /\ IF ucNotifyState[t] = "received"
       THEN /\ ulNotifiedValue' = IF protocol = "bits"
                                    THEN [ulNotifiedValue EXCEPT ![t] = @ \ exit]
                                    ELSE ulNotifiedValue
            /\ untold' = [untold EXCEPT ![t] = Zero[protocol]]
       ELSE UNCHANGED <<ulNotifiedValue, untold>>
  /\ NotWaiting(t)
  /\ Goto(t, "idle") /\ UNCHANGED op

\* eSetBits.
SetBits(t, bits) ==
  /\ protocol = "bits"
  /\ Notified(t)
  /\ ulNotifiedValue' = [ulNotifiedValue EXCEPT ![t] = @ \cup bits]
  /\ untold' = [untold EXCEPT ![t] = @ \cup bits]
  /\ UNCHANGED <<pc, op>>

\* eSetValueWithOverwrite, and eSetValueWithoutOverwrite, which fails if there is a
\* notification the task was not told of.
Post(t, x, overwrite) ==
  /\ protocol = "mail"
  /\ Notified(t)
  /\ IF overwrite \/ ucNotifyState[t] # "received"
       THEN /\ ulNotifiedValue' = [ulNotifiedValue EXCEPT ![t] = x]
            /\ untold' = [untold EXCEPT ![t] = x]
       ELSE UNCHANGED <<ulNotifiedValue, untold>>
  /\ UNCHANGED <<pc, op>>

\* xTaskNotifyStateClear(t), by another task: t is not to be told.
StateClear(t) ==
  /\ protocol \in {"bits", "mail"}
  /\ StateCleared(t)
  /\ untold' = [untold EXCEPT ![t] = Zero[protocol]]
  /\ UNCHANGED <<ulNotifiedValue, pc, op>>

\* ulTaskNotifyValueClear(t, bits), likewise.
ValueClear(t, bits) ==
  /\ protocol = "bits"
  /\ ulNotifiedValue' = [ulNotifiedValue EXCEPT ![t] = @ \ bits]
  /\ untold' = [untold EXCEPT ![t] = @ \ bits]
  /\ UNCHANGED <<ucNotifyState, blocked, pc, op>>

\* The tick at which the block time of t is over.
TimeOut(t) ==
  /\ blocked[t] /\ op[t].wait = "finite"
  /\ blocked' = [blocked EXCEPT ![t] = FALSE]
  /\ UNCHANGED <<ucNotifyState, ulNotifiedValue, pc, op, untold>>
-----------------------------------------------------------------------------
NotifyNext ==
  /\ UNCHANGED protocol
  /\ \E t \in Tasks :
       \/ TakeEnd(t) \/ Give(t) \/ StateClear(t) \/ TimeOut(t)
       \/ \E wait \in Waits : \/ \E clear \in BOOLEAN : Take(t, clear, wait)
                              \/ \E entry \in SUBSET Bits : NotifyWait(t, entry, wait)
       \/ \E bits \in SUBSET Bits : \/ NotifyWaitEnd(t, bits) \/ SetBits(t, bits)
                                    \/ ValueClear(t, bits)
       \/ \E x \in Letters, overwrite \in BOOLEAN : Post(t, x, overwrite)

NotifySpec == NotifyInit /\ [][NotifyNext]_<<protocol, notifyVars, pc, op, untold>>

Contents == [count |-> 0 .. CountMod - 1, bits |-> SUBSET Bits, mail |-> Letters \cup {"zero"}]
NotifyTypeOK ==
  /\ protocol \in Protocols
  /\ ucNotifyState \in [Tasks -> {"not_waiting", "waiting", "received"}]
  /\ ulNotifiedValue \in [Tasks -> Contents[protocol]]
  /\ blocked \in [Tasks -> BOOLEAN]
  /\ pc \in [Tasks -> {"idle", "take", "wait"}]
  /\ op \in [Tasks -> [clear : BOOLEAN, wait : Waits]]

\* Nothing a task was notified of is lost or told twice, however notifications fall
\* before, between and after the two sections of a wait and its time-out: gives are
\* counted, up to the width of the word; bits stay set, and a message that was
\* accepted stays, until a wait tells of them.
NothingUntoldLost ==
  \A t \in Tasks :
    \/ protocol = "count" /\ ulNotifiedValue[t] = untold[t] % CountMod
    \/ protocol = "bits" /\ untold[t] \subseteq ulNotifiedValue[t]
    \/ protocol = "mail" /\ untold[t] \in {"zero", ulNotifiedValue[t]}

\* No task sleeps although there is something to tell it (but for a count that has
\* wrapped).
NotifiedWake ==
  \A t \in Tasks : blocked[t] => /\ ucNotifyState[t] = "waiting"
                                 /\ untold[t] \in {Zero[protocol], CountMod}

\* Both.
NotificationsArrive == NothingUntoldLost /\ NotifiedWake
=============================================================================
