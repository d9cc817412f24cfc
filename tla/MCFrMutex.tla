------------------------------ MODULE MCFrMutex ------------------------------
(***************************************************************************)
(* FrMutex for TLC.                                                        *)
(***************************************************************************)
EXTENDS FrMutex, TLC

CONSTANT plain    \* a plain mutex

\* Everybody contends for one mutex, carelessly or not; for two, holding both but
\* not waiting for the second; two tasks do as they like with two mutexes.
Careless == [users |-> Tasks, mutexes |-> {plain}, nested |-> FALSE, sets |-> FALSE,
             careless |-> TRUE]
OneMutex == [Careless EXCEPT !.careless = FALSE]
Both     == [OneMutex EXCEPT !.mutexes = Mutexes]
Pairs    == {[Both EXCEPT !.users = u, !.nested = TRUE, !.sets = TRUE] :
               u \in {v \in SUBSET Tasks : Cardinality(v) = 2}}
AllUsages  == {Careless, Both} \cup Pairs
OnlyUsage  == {OneMutex}

\* Tasks are interchangeable, as Init gives them all combinations of priorities,
\* and so are mutexes of one kind.
Symmetry ==
  Permutations(Tasks) \cup Permutations(Mutexes \ Recursive) \cup Permutations(Recursive)

\* Calls that are over leave nothing behind but what the task holds.
View ==
  <<usage, mutexVars, waiting, prioVars, uxMutexesHeld, pc, depth,
    [t \in Tasks |-> IF pc[t] = "idle" THEN <<>>
                     ELSE <<op[t], expired[t], xInheritanceOccurred[t]>>]>>
=============================================================================
