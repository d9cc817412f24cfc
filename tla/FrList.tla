------------------------------- MODULE FrList --------------------------------
(***************************************************************************)
(* A FreeRTOS list, freertos_test/FreeRTOS/list.c: a ring of items linked  *)
(* in both directions, through the marker of its end.  The scheduler keeps *)
(* ready tasks in the order of their turns, and delayed and waiting tasks  *)
(* sorted.  The other modules abstract from the links.                     *)
(*                                                                         *)
(* Atomicity.  Lists are used in critical sections or with the scheduler   *)
(* suspended: each operation is one step.                                  *)
(***************************************************************************)
EXTENDS Integers, FiniteSets

CONSTANTS
  Items,
  xListEnd,     \* the marker
  MaxDelay      \* portMAX_DELAY, the greatest value of an item

VARIABLES
  kind,         \* what the list is for: "turns" or "sorted"
  pxNext, pxPrevious,   \* of the marker and the items
  pxIndex,
  xItemValue,
  pxContainer,          \* whether an item is in the list
  uxNumberOfItems,
  earlier,      \* history: who was there when each item came, and is there still
  since,        \* history: who had a turn since each item had one or came, and is
                \* there still
  turns         \* history: how many turns others had since then

links    == <<pxNext, pxPrevious>>
listVars == <<kind, links, pxIndex, xItemValue, pxContainer, uxNumberOfItems, earlier,
              since, turns>>

Nodes   == Items \cup {xListEnd}
Members == {i \in Items : pxContainer[i]}
Ring    == Members \cup {xListEnd}
Value(n) == IF n = xListEnd THEN MaxDelay ELSE xItemValue[n]

\* vListInitialise() and vListInitialiseItem().
ListInit ==
  /\ kind \in {"turns", "sorted"}
  /\ pxNext = [n \in Nodes |-> xListEnd] /\ pxPrevious = [n \in Nodes |-> xListEnd]
  /\ pxIndex = xListEnd
  /\ xItemValue = [i \in Items |-> 0] /\ pxContainer = [i \in Items |-> FALSE]
  /\ uxNumberOfItems = 0
  /\ earlier = [i \in Items |-> {}]
  /\ since = [i \in Items |-> {}] /\ turns = [i \in Items |-> [j \in Items |-> 0]]
-----------------------------------------------------------------------------
\* Item i is linked in after node p.
LinkedAfter(p, i) ==
  /\ pxNext' = [pxNext EXCEPT ![i] = pxNext[p], ![p] = i]
  /\ pxPrevious' = [pxPrevious EXCEPT ![i] = p, ![pxNext[p]] = i]
  /\ pxContainer' = [pxContainer EXCEPT ![i] = TRUE]
  /\ uxNumberOfItems' = uxNumberOfItems + 1
  /\ earlier' = [earlier EXCEPT ![i] = Members]
  /\ since' = [j \in Items |-> IF j = i THEN {} ELSE since[j] \ {i}]
  /\ turns' = [turns EXCEPT ![i] = [j \in Items |-> 0]]
  /\ UNCHANGED pxIndex

\* vListInsertEnd(): the last to have its turn.
InsertEnd(i) ==
  /\ kind = "turns" /\ ~pxContainer[i]
  /\ LinkedAfter(pxPrevious[pxIndex], i)
  /\ UNCHANGED xItemValue

\* vListInsert(): behind the items of the same value.
Stays(v, w) == v <= w
Iterator(v) ==
  LET walk[n \in Ring] == IF Stays(Value(pxNext[n]), v) THEN walk[pxNext[n]] ELSE n
  IN IF v = MaxDelay THEN pxPrevious[xListEnd] ELSE walk[xListEnd]
Insert(i, v) ==
  /\ kind = "sorted" /\ ~pxContainer[i]
  /\ xItemValue' = [xItemValue EXCEPT ![i] = v]
  /\ LinkedAfter(Iterator(v), i)

\* uxListRemove(): when the item had its turn just now, the one before it had.
\* Mutant: the walk through the list stays at the item.
IndexStays(i)   == pxIndex
IndexWithout(i) == IF pxIndex = i THEN pxPrevious[i] ELSE pxIndex
Remove(i) ==
  /\ pxContainer[i]
  /\ pxPrevious' = [pxPrevious EXCEPT ![pxNext[i]] = pxPrevious[i]]
  /\ pxNext' = [pxNext EXCEPT ![pxPrevious[i]] = pxNext[i]]
  /\ pxIndex' = IndexWithout(i)
  /\ pxContainer' = [pxContainer EXCEPT ![i] = FALSE]
  /\ uxNumberOfItems' = uxNumberOfItems - 1
  /\ earlier' = [j \in Items |-> IF j = i THEN {} ELSE earlier[j] \ {i}]
  /\ UNCHANGED <<xItemValue, since, turns>>

\* listGET_OWNER_OF_NEXT_ENTRY(), of a list that is not empty.
NextEntry == IF pxNext[pxIndex] = xListEnd THEN pxNext[xListEnd] ELSE pxNext[pxIndex]
TakeTurn ==
  /\ kind = "turns" /\ uxNumberOfItems > 0
  /\ pxIndex' = NextEntry
  /\ since' = [i \in Items |-> IF i \notin Members \ {NextEntry} THEN {}
                              ELSE since[i] \cup {NextEntry}]
  /\ turns' = [i \in Items |-> IF i \notin Members \ {NextEntry} THEN [j \in Items |-> 0]
                              ELSE [turns[i] EXCEPT ![NextEntry] = @ + 1]]
  /\ UNCHANGED <<links, xItemValue, pxContainer, uxNumberOfItems, earlier>>

ListNext ==
  /\ UNCHANGED kind
  /\ \/ TakeTurn
     \/ \E i \in Items : InsertEnd(i) \/ Remove(i) \/ \E v \in 0 .. MaxDelay : Insert(i, v)

ListSpec == ListInit /\ [][ListNext]_listVars
-----------------------------------------------------------------------------
ListTypeOK ==
  /\ pxNext \in [Nodes -> Nodes] /\ pxPrevious \in [Nodes -> Nodes]
  /\ pxIndex \in Nodes
  /\ xItemValue \in [Items -> 0 .. MaxDelay] /\ pxContainer \in [Items -> BOOLEAN]
  /\ uxNumberOfItems \in 0 .. Cardinality(Items)

\* The node that is k links from the marker.
At(k) == LET at[j \in 0 .. k] == IF j = 0 THEN xListEnd ELSE pxNext[at[j - 1]] IN at[k]

\* The ring passes each member once, in both directions, and the walk is at one of them
\* or the marker.
RingRight ==
  /\ uxNumberOfItems = Cardinality(Members)
  /\ {At(k) : k \in 0 .. uxNumberOfItems} = Ring
  /\ \A n \in Ring : pxPrevious[pxNext[n]] = n
  /\ pxIndex \in Ring

\* A sorted list is sorted, and first come, first served among equals, tasks that wait
\* forever included.
SortedRight ==
  kind = "sorted" =>
    \A k \in 1 .. uxNumberOfItems - 1 :
      LET i == At(k)
          j == At(k + 1)
      IN xItemValue[i] < xItemValue[j] \/ (xItemValue[i] = xItemValue[j] /\ i \in earlier[j])

\* No member has two turns while another that was there has none, whoever comes and
\* goes meanwhile; and one that itself goes and comes back has no third.
TurnsFair ==
  kind = "turns" /\ Members # {} =>
    \A i \in Members \ {NextEntry} : NextEntry \notin since[i] /\ turns[i][NextEntry] < 2

ListRight == RingRight /\ SortedRight /\ TurnsFair
=============================================================================
