----------------------------- MODULE FrEventGroup ----------------------------
(***************************************************************************)
(* A FreeRTOS event group, freertos_test/FreeRTOS/event_groups.c: tasks    *)
(* wait for any or all of some bits, set and clear bits, and meet at a     *)
(* rendezvous (xEventGroupSync).                                           *)
(*                                                                         *)
(* Atomicity.  A critical section is one step, and so is what a call does  *)
(* between vTaskSuspendAll() and xTaskResumeAll(): handlers only read the  *)
(* bits, or ask the timer task to set them, and ticks are held pending.    *)
(* A task that was woken or timed out goes on when it gets to run.         *)
(***************************************************************************)
EXTENDS Integers, FiniteSets

CONSTANTS
  Tasks,
  Bits,       \* eventCLEAR_EVENTS_ON_EXIT_BIT and above are for the kernel
  OwnBit,     \* the bit each task sets at a rendezvous
  Styles      \* applications: [users, bits they wait for, set and clear, calls, waits :
              \* block times, rounds : bound on how often a task calls xEventGroupSync()]

VARIABLES
  style,
  uxEventBits,
  xTasksWaitingForBits,
  pc,           \* where each task is in its call
  op,           \* that call
  woken,        \* value of its event list item
  deleted,
  unseen,       \* history: bits set that nobody who cares for them was told of
  entered, left \* history: rounds of the rendezvous

eventVars == <<style, uxEventBits, xTasksWaitingForBits, pc, op, woken, deleted,
               unseen, entered, left>>

Waits == {"none", "finite", "forever"}
WaitOps == [bits : (SUBSET Bits) \ {{}}, clear : BOOLEAN, all : BOOLEAN,
            wait : Waits, sync : BOOLEAN]
NoOp == [bits |-> {}, clear |-> FALSE, all |-> FALSE, wait |-> "none", sync |-> FALSE]

\* The value of the event list item of a task: with eventUNBLOCKED_DUE_TO_BIT_SET, the
\* bits that ended its wait.
Untold    == [unblocked |-> FALSE, bits |-> {}]
Told(bits) == [unblocked |-> TRUE, bits |-> bits]

EventInit ==
  /\ style \in Styles
  /\ uxEventBits = {} /\ xTasksWaitingForBits = {}
  /\ pc = [t \in Tasks |-> "idle"]
  /\ op = [t \in Tasks |-> NoOp]
  /\ woken = [t \in Tasks |-> Untold]
  /\ deleted = FALSE
  /\ unseen = {}
  /\ entered = [t \in Tasks |-> 0] /\ left = [t \in Tasks |-> 0]
-----------------------------------------------------------------------------
\* prvTestWaitCondition().
Met(bits, o) == IF o.all THEN o.bits \subseteq bits ELSE bits \cap o.bits # {}
CleanedBy(o) == IF o.clear THEN o.bits ELSE {}

\* xEventGroupSetBits(): all whose condition is met are told the bits, and what they
\* clear is cleared when all were told.  Mutant: the search stops at the first.
MatchedOne(bits) ==
  LET met == {t \in xTasksWaitingForBits : Met(bits, op[t])}
  IN IF met = {} THEN {} ELSE {CHOOSE t \in met : TRUE}
Matched(bits) == {t \in xTasksWaitingForBits : Met(bits, op[t])}
ClearedFor(ts) == UNION {CleanedBy(op[t]) : t \in ts}
Woken(ts, bits) ==
  /\ xTasksWaitingForBits' = xTasksWaitingForBits \ ts
  /\ woken' = [t \in Tasks |-> IF t \in ts THEN Told(bits) ELSE woken[t]]

\* Bits o was told of, of those it cares for.
Seen(o) == o.bits
SeenBy(ts) == UNION {Seen(op[t]) : t \in ts}
-----------------------------------------------------------------------------
\* xEventGroupWaitBits() up to xTaskResumeAll().
WaitBits(t, o) ==
  /\ t \in style.users /\ o.bits \subseteq style.bits /\ o.wait \in style.waits /\ ~o.sync
  /\ pc[t] = "idle" /\ "wait" \in style.calls
  /\ \/ /\ Met(uxEventBits, o)
        /\ uxEventBits' = uxEventBits \ CleanedBy(o)
        /\ unseen' = unseen \ Seen(o)
        /\ UNCHANGED <<xTasksWaitingForBits, pc, op, woken>>
     \/ /\ ~Met(uxEventBits, o) /\ o.wait = "none"
        /\ UNCHANGED <<uxEventBits, xTasksWaitingForBits, pc, op, woken, unseen>>
     \/ /\ ~Met(uxEventBits, o) /\ o.wait # "none"
        /\ xTasksWaitingForBits' = xTasksWaitingForBits \cup {t}
        /\ woken' = [woken EXCEPT ![t] = Untold]
        /\ pc' = [pc EXCEPT ![t] = "blocked"] /\ op' = [op EXCEPT ![t] = o]
        /\ UNCHANGED <<uxEventBits, unseen>>
  /\ UNCHANGED <<deleted, entered, left>>

\* xEventGroupSync() likewise: it sets the bit of t and waits for those of all.  The
\* bits found before it set its own decide whether it need not wait.
Sync(t, wait) ==
  LET o      == [bits |-> {OwnBit[u] : u \in Tasks}, clear |-> TRUE, all |-> TRUE,
                 wait |-> wait, sync |-> TRUE]
      bits   == uxEventBits \cup {OwnBit[t]}
      others == Matched(bits)
      after  == bits \ ClearedFor(others)
  IN
  /\ t \in style.users /\ "sync" \in style.calls /\ wait \in style.waits
  /\ pc[t] = "idle" /\ entered[t] < style.rounds
  /\ entered' = [entered EXCEPT ![t] = @ + 1]
  /\ \/ /\ Met(bits, o)
        /\ Woken(others, bits)
        /\ uxEventBits' = after \ o.bits
        /\ unseen' = unseen \ (o.bits \cup SeenBy(others))
        /\ left' = [left EXCEPT ![t] = @ + 1]
        /\ UNCHANGED <<pc, op>>
     \/ /\ ~Met(bits, o)
        /\ xTasksWaitingForBits' =
             (xTasksWaitingForBits \ others) \cup (IF wait = "none" THEN {} ELSE {t})
        /\ woken' = [u \in Tasks |-> IF u \in others THEN Told(bits)
                                     ELSE IF u = t THEN Untold ELSE woken[u]]
        /\ uxEventBits' = after
        /\ unseen' = (unseen \cup {OwnBit[t]}) \ SeenBy(others)
        /\ pc' = [pc EXCEPT ![t] = IF wait = "none" THEN "idle" ELSE "blocked"]
        /\ op' = [op EXCEPT ![t] = IF wait = "none" THEN @ ELSE o]
        /\ UNCHANGED left
  /\ UNCHANGED deleted

\* The tick at which the block time of t is over takes it out of the waiting list.
TimedOut(t) ==
  /\ t \in xTasksWaitingForBits /\ op[t].wait = "finite"
  /\ xTasksWaitingForBits' = xTasksWaitingForBits \ {t}
  /\ UNCHANGED <<uxEventBits, pc, op, woken, deleted, unseen, entered, left>>

\* The end of both calls: t was told the bits, or looks again, and takes them if its
\* condition is met by now.
Resume(t) ==
  LET takes == ~woken[t].unblocked /\ Met(uxEventBits, op[t]) IN
  /\ pc[t] = "blocked" /\ t \notin xTasksWaitingForBits
  /\ ~deleted \/ woken[t].unblocked
  /\ pc' = [pc EXCEPT ![t] = "idle"] /\ op' = [op EXCEPT ![t] = NoOp]
  /\ woken' = [woken EXCEPT ![t] = Untold]
  /\ uxEventBits' = IF takes THEN uxEventBits \ CleanedBy(op[t]) ELSE uxEventBits
  /\ unseen' = IF takes THEN unseen \ Seen(op[t]) ELSE unseen
  /\ left' = IF op[t].sync /\ (takes \/ woken[t].unblocked)
               THEN [left EXCEPT ![t] = @ + 1] ELSE left
  /\ UNCHANGED <<xTasksWaitingForBits, deleted, entered>>

\* xEventGroupSetBits(), by a task, or for a handler by the timer task.
SetBits(bits) ==
  LET now == uxEventBits \cup bits IN
  /\ "set" \in style.calls /\ ~deleted
  /\ Woken(Matched(now), now)
  /\ uxEventBits' = now \ ClearedFor(Matched(now))
  /\ unseen' = (unseen \cup bits) \ SeenBy(Matched(now))
  /\ UNCHANGED <<pc, op, deleted, entered, left>>

\* xEventGroupClearBits().
ClearBits(bits) ==
  /\ "clear" \in style.calls /\ ~deleted
  /\ uxEventBits' = uxEventBits \ bits /\ unseen' = unseen \ bits
  /\ UNCHANGED <<xTasksWaitingForBits, pc, op, woken, deleted, entered, left>>

\* vEventGroupDelete() wakes all, with no bits; no call begins afterwards.
Delete ==
  /\ "delete" \in style.calls /\ ~deleted
  /\ Woken(xTasksWaitingForBits, {})
  /\ deleted' = TRUE
  /\ UNCHANGED <<uxEventBits, pc, op, unseen, entered, left>>

EventNext ==
  /\ UNCHANGED style
  /\ \/ Delete
     \/ \E bits \in SUBSET style.bits : SetBits(bits) \/ ClearBits(bits)
     \/ \E t \in Tasks :
          \/ TimedOut(t) \/ Resume(t)
          \/ ~deleted /\ \/ \E o \in WaitOps : WaitBits(t, o)
                         \/ \E wait \in Waits : Sync(t, wait)

EventSpec == EventInit /\ [][EventNext]_eventVars
-----------------------------------------------------------------------------
EventTypeOK ==
  /\ style \in Styles
  /\ uxEventBits \subseteq Bits /\ xTasksWaitingForBits \subseteq Tasks
  /\ pc \in [Tasks -> {"idle", "blocked"}]
  /\ op \in [Tasks -> WaitOps \cup {NoOp}]
  /\ woken \in [Tasks -> [unblocked : BOOLEAN, bits : SUBSET Bits]]
  /\ deleted \in BOOLEAN

\* Nobody is left waiting for bits that are there.
NobodyOverlooked ==
  \A t \in xTasksWaitingForBits : pc[t] = "blocked" /\ ~Met(uxEventBits, op[t])

\* A bit that was set stays set until a task that waits for it was told of it, or it
\* is cleared by name: what is cleared on exit, now or when a late task runs, was seen.
NoBitLost == unseen \subseteq uxEventBits

\* A task whose wait was ended by bits was told bits that end it, whatever became of
\* them before it runs.
ToldRight ==
  \A t \in Tasks : woken[t].unblocked /\ ~deleted =>
    pc[t] = "blocked" /\ t \notin xTasksWaitingForBits /\ Met(woken[t].bits, op[t])

\* Rendezvous: where tasks do nothing else, none leaves its n-th meeting before all
\* have come to theirs.
Rendezvous ==
  style.calls = {"sync"} /\ style.waits = {"forever"} =>
    \A t, u \in Tasks : left[t] <= entered[u]

EventsArrive == NobodyOverlooked /\ NoBitLost /\ ToldRight /\ Rendezvous
=============================================================================
