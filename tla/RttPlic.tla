-------------------------------- MODULE RttPlic -------------------------------
(***************************************************************************)
(* The nested external interrupts of rtt_test/main_multy_task.h: each of   *)
(* nine handlers lets those of higher priority interrupt it and keeps what *)
(* it has to restore in globals of its own, for all of them run on the     *)
(* stack of the thread they interrupt.                                     *)
(*                                                                         *)
(* The hart and the interrupt controller are external: an interrupt is     *)
(* taken when mstatus.MIE and mie allow it and its priority is above the   *)
(* threshold, and a source that was claimed is silent until completed.     *)
(* Kernel interrupts are those of the timer and of software, which may     *)
(* switch threads.                                                         *)
(*                                                                         *)
(* Atomicity.  While MIE is 0 the handlers are not interrupted; "phase" is *)
(* where the running one is.                                               *)
(***************************************************************************)
EXTENDS Integers, Sequences

VARIABLES
  pending,     \* sources that ask for an interrupt
  claimed,     \* sources that were claimed and not completed
  threshold,   \* of the controller
  mie,         \* the kinds of interrupts that are allowed
  enabled,     \* mstatus.MIE
  mepc,        \* whose instruction the last interrupt was taken at
  saved,       \* plic_irqN_mie, plic_irqN_mepc and plic_irqN_thr
  running,     \* what the hart executes: a thread, or the handler of a source
  phase,       \* of the running handler
  nest         \* history: what was interrupted, in order

plicVars == <<pending, claimed, threshold, mie, enabled, mepc, saved, running, phase, nest>>

Sources == 1 .. 9
Thread  == 0
Both    == {"external", "kernel"}

\* The priorities that plic_init() gives, and the threshold each handler sets.
Priority == <<1, 1, 2, 3, 4, 5, 6, 7, 7>>
OwnThreshold == <<0, 1, 2, 3, 4, 5, 6, 7, 7>>

\* plic_init(), after clint_init().
PlicInit ==
  /\ pending = {} /\ claimed = {} /\ threshold = 0
  /\ mie = Both /\ enabled = TRUE
  /\ mepc = Thread /\ saved = [s \in Sources |-> [mie |-> {}, mepc |-> Thread, thr |-> 0]]
  /\ running = Thread /\ phase = "open" /\ nest = <<>>

\* External: a source asks.
Raise(s) ==
  /\ s \notin pending \cup claimed
  /\ pending' = pending \cup {s}
  /\ UNCHANGED <<claimed, threshold, mie, enabled, mepc, saved, running, phase, nest>>

\* External: the most urgent source is claimed, the lowest of several, and its entry in
\* _plic_vector_table is called.
Before(s, r) == Priority[s] > Priority[r] \/ (Priority[s] = Priority[r] /\ s <= r)
Enter(s) ==
  /\ enabled /\ "external" \in mie
  /\ s \in pending /\ Priority[s] > threshold /\ \A r \in pending : Before(s, r)
  /\ pending' = pending \ {s} /\ claimed' = claimed \cup {s}
  /\ enabled' = FALSE /\ mepc' = running
  /\ running' = s /\ phase' = "entered" /\ nest' = Append(nest, running)
  /\ UNCHANGED <<threshold, mie, saved>>

\* The handler saves all, and enables external interrupts of higher priority.
SaveAll(s) == saved' = [saved EXCEPT ![s] = [mie |-> mie, mepc |-> mepc, thr |-> threshold]]
Open ==
  /\ phase = "entered"
  /\ SaveAll(running)
  /\ threshold' = OwnThreshold[running]
  /\ mie' = {"external"} /\ enabled' = TRUE /\ phase' = "open"
  /\ UNCHANGED <<pending, claimed, mepc, running, nest>>

\* It disables interrupts and completes the source ...
Complete ==
  /\ running # Thread /\ phase = "open"
  /\ enabled' = FALSE /\ claimed' = claimed \ {running} /\ phase' = "completed"
  /\ UNCHANGED <<pending, threshold, mie, mepc, saved, running, nest>>

\* ... restores all and returns to where mepc says, which enables interrupts.  Mutant: the
\* threshold is that of a thread.
ThresholdReset   == threshold' = 0
RestoreThreshold == threshold' = saved[running].thr
Return ==
  /\ phase = "completed"
  /\ RestoreThreshold
  /\ mie' = saved[running].mie /\ mepc' = saved[running].mepc
  /\ running' = mepc' /\ enabled' = TRUE /\ phase' = "open"
  /\ nest' = SubSeq(nest, 1, Len(nest) - 1)
  /\ UNCHANGED <<pending, claimed, saved>>

\* A thread disables and enables interrupts (rt_hw_interrupt_disable).
Mask ==
  /\ running = Thread /\ enabled' = ~enabled
  /\ UNCHANGED <<pending, claimed, threshold, mie, mepc, saved, running, phase, nest>>

PlicNext ==
  \/ \E s \in Sources : Raise(s) \/ Enter(s)
  \/ Open \/ Complete \/ Return \/ Mask

PlicSpec == PlicInit /\ [][PlicNext]_plicVars
-----------------------------------------------------------------------------
PlicTypeOK ==
  /\ pending \subseteq Sources /\ claimed \subseteq Sources /\ threshold \in 0 .. 7
  /\ mie \subseteq Both /\ enabled \in BOOLEAN /\ mepc \in Sources \cup {Thread}
  /\ \A s \in Sources : saved[s].mie \subseteq Both /\ saved[s].thr \in 0 .. 7
  /\ running \in Sources \cup {Thread} /\ phase \in {"entered", "open", "completed"}
  /\ nest \in Seq(Sources \cup {Thread})

\* What is to be restored when a handler leaves what it interrupted.
ThresholdOf(c) == IF c = Thread THEN 0 ELSE OwnThreshold[c]
AllowedIn(c)   == IF c = Thread THEN Both ELSE {"external"}

\* The running handler goes back to what it interrupted, and each of those below it to the
\* one below, with the threshold and the interrupts that were allowed there; no handler
\* is interrupted by itself, or by one that is not of higher priority, but for the first,
\* which the second may interrupt (plic_irq_vec_handler_1).
BackInOrder ==
  LET stack == Append(nest, running) IN
  /\ stack[1] = Thread
  /\ \A k \in 2 .. Len(stack) :
       LET h == stack[k]
           c == stack[k - 1]
       IN /\ \A j \in 2 .. k - 1 : Priority[stack[j]] < Priority[h] \/ <<stack[j], h>> = <<1, 2>>
          /\ IF h = running /\ phase = "entered"
             THEN mepc = c /\ threshold = ThresholdOf(c) /\ mie = AllowedIn(c)
             ELSE saved[h] = [mie |-> AllowedIn(c), mepc |-> c, thr |-> ThresholdOf(c)]

\* Threads are not switched under a handler, and when none runs every source is heard.
ThreadsUndisturbed ==
  /\ enabled /\ "kernel" \in mie => running = Thread
  /\ running = Thread => threshold = 0 /\ mie = Both /\ claimed = {}

InterruptsNest == BackInOrder /\ ThreadsUndisturbed
=============================================================================
