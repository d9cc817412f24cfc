------------------------------ MODULE MCFrTasks ------------------------------
(***************************************************************************)
(* FrTasks for TLC: what the configurations cannot write themselves.       *)
(***************************************************************************)
EXTENDS FrTasks, TLC

\* Tasks other than the idle task are interchangeable when either all or none
\* of them exist initially.
Symmetry == Permutations(Tasks \ {Idle})

\* States that differ only in values no step reads again are one state: the
\* wake time of a task in no delayed list, the priority of a task that does not
\* exist, the argument of a finished call, a register already stored.
View ==
  <<pxCurrentTCB, stateList, eventList, tickVars, xPendedTicks,
    uxSchedulerSuspended, yieldVars, uxTopReadyPriority, elapsed,
    [t \in Tasks |-> IF stateList[t] = "none" THEN "run" ELSE pc[t]],
    [t \in Tasks |-> IF stateList[t] \in {"delayed", "overflow"} THEN wakeTime[t] ELSE 0],
    [t \in Tasks |-> IF stateList[t] = "none" THEN 0 ELSE uxPriority[t]],
    [t \in Tasks |-> IF pc[t] \in {"abort", "abort_move", "create_check"}
                       THEN target[t] ELSE Idle],
    IF \E t \in Tasks : pc[t] = "catch_up_store" THEN pendedRead ELSE 0>>
=============================================================================
