------------------------------ MODULE MCFrQueue ------------------------------
(***************************************************************************)
(* FrQueue for TLC: what the configurations cannot write themselves.       *)
(***************************************************************************)
EXTENDS FrQueue, TLC

\* Priorities: those of Urgent above the others.
CONSTANT Urgent
MCPriority == [t \in Tasks |-> IF t \in Urgent THEN 1 ELSE 0]

\* Data: two tasks send to both ends, receive, peek and reset.  Blocking: three tasks
\* wait.  Aborting: their delays are aborted, of three that send and receive, or of two
\* that peek too.  A queue of one item, with overwrites.
Pairs == {u \in SUBSET Tasks : Cardinality(u) = 2}
Ones  == {{x} : x \in Items}
Data ==
  [users : Pairs, items : {Items}, calls : {{"send_back", "send_front", "receive", "peek"}},
   waits : {{"none", "finite"}}, aborts : {FALSE}, resets : {TRUE}, maxLock : {1}]
Blocking ==
  [users : {Tasks}, items : Ones, calls : {{"send_back", "receive", "peek"}},
   waits : {{"finite"}}, aborts : {FALSE}, resets : {FALSE}, maxLock : {2}]
Aborting ==
  {[u EXCEPT !.aborts = TRUE, !.calls = @ \ {"peek"}] : u \in Blocking}
  \cup {[u EXCEPT !.aborts = TRUE, !.users = p] : u \in Blocking, p \in Pairs}
Mailbox ==
  [users : {Tasks}, items : {Items}, calls : {{"overwrite", "send_back", "receive"}},
   waits : {{"finite", "forever"}}, aborts : {FALSE}, resets : {TRUE}, maxLock : {1}]
Aborted ==
  [users : {Tasks}, items : {Items}, calls : {{"send_back", "receive"}},
   waits : {{"forever"}}, aborts : {TRUE}, resets : {FALSE}, maxLock : {1}]
DataAndBlocking == Data \cup Blocking \cup Aborting

\* Tasks of one priority are interchangeable, and so are items.
Symmetry ==
  Permutations(Urgent) \cup Permutations(Tasks \ Urgent) \cup Permutations(Items)

\* States that differ only in values no step reads again, or in data that only
\* moves from a sender to a receiver, are one state.
ViewWaits ==
  <<usage, uxMessagesWaiting, lockVars, waitVars, suspender, pc, ucDelayAborted,
    [t \in Tasks |-> IF pc[t] = "idle" THEN <<>> ELSE
       <<op[t].call, op[t].wait, expired[t],
         pc[t] \in {"unlock_tx", "unlock_rx", "resume"} /\ timedOut[t]>>]>>

\* The same for properties about the data,
ViewData ==
  <<ViewWaits, pcWriteTo, pcReadFrom, result,
    [s \in Slots |-> IF \E i \in 1 .. uxMessagesWaiting : s = (pcReadFrom + i) % Length
                       THEN pcHead[s] ELSE "none"],
    [t \in Tasks |-> IF pc[t] # "idle" /\ op[t].call \in Sends THEN op[t].item ELSE "none"]>>

\* or about the history of aborted calls.
ViewAborted == <<ViewWaits, [t \in Tasks |-> pc[t] # "idle" /\ aborted[t]]>>
View == IF usage \in Data THEN ViewData ELSE ViewWaits
=============================================================================
