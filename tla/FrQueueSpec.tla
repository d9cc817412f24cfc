----------------------------- MODULE FrQueueSpec -----------------------------
(***************************************************************************)
(* What a FreeRTOS queue promises its clients (freertos_test/FreeRTOS/     *)
(* include/queue.h): a bounded double-ended sequence of items on which     *)
(* every call takes effect at once and exactly once, and a call that       *)
(* reports a full or an empty queue has found it so since the call began.  *)
(***************************************************************************)
EXTENDS Naturals, Sequences

CONSTANTS
  Clients,  \* who calls: tasks and interrupt handlers
  Items,    \* what can be queued
  Length    \* how many items fit

VARIABLES
  contents,  \* the queue, first the item to be received next
  found,     \* what an unfinished call has found: "full", "empty" or "none"
  result     \* what the last finished call of each client returned

vars == <<contents, found, result>>

Refusals == {"full", "empty"}
IsFull   == Len(contents) = Length
IsEmpty  == contents = <<>>

Init ==
  /\ contents = <<>>
  /\ found  = [c \in Clients |-> "none"]
  /\ result = [c \in Clients |-> "none"]

\* The call of client c returns r.
Return(c, r) ==
  /\ result' = [result EXCEPT ![c] = r]
  /\ found' = [found EXCEPT ![c] = "none"]

SendToBack(c, x)  == ~IsFull /\ contents' = Append(contents, x) /\ Return(c, "pass")
SendToFront(c, x) == ~IsFull /\ contents' = <<x>> \o contents /\ Return(c, "pass")
Overwrite(c, x)   == Length = 1 /\ contents' = <<x>> /\ Return(c, "pass")
Receive(c) == ~IsEmpty /\ contents' = Tail(contents) /\ Return(c, Head(contents))
Peek(c)    == ~IsEmpty /\ UNCHANGED contents /\ Return(c, Head(contents))

\* A call finds that it cannot proceed, and either says so at once or waits.
Finds(r) == (r = "full" /\ IsFull) \/ (r = "empty" /\ IsEmpty)
Refuse(c, r) == Finds(r) /\ UNCHANGED contents /\ Return(c, r)
Wait(c, r) ==
  /\ Finds(r)
  /\ found' = [found EXCEPT ![c] = r] /\ result' = [result EXCEPT ![c] = "none"]
  /\ UNCHANGED contents

\* A call that waited gives up.
GiveUp(c) == found[c] # "none" /\ UNCHANGED contents /\ Return(c, found[c])

Reset == contents' = <<>> /\ UNCHANGED <<found, result>>

Next ==
  \/ Reset
  \/ \E c \in Clients :
       \/ Receive(c) \/ Peek(c) \/ GiveUp(c)
       \/ \E x \in Items : SendToBack(c, x) \/ SendToFront(c, x) \/ Overwrite(c, x)
       \/ \E r \in Refusals : Refuse(c, r) \/ Wait(c, r)

Spec == Init /\ [][Next]_vars
=============================================================================
