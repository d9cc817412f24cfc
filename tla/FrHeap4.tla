------------------------------ MODULE FrHeap4 --------------------------------
(***************************************************************************)
(* The FreeRTOS heap, freertos_test/FreeRTOS/portable/MemMang/heap_4.c:    *)
(* the first free block that is large enough is split, a freed block is    *)
(* joined with free neighbours.                                            *)
(*                                                                         *)
(* Atomicity.  pvPortMalloc() works with the scheduler suspended, and so   *)
(* does the second half of vPortFree(); handlers call neither.             *)
(*                                                                         *)
(* Addresses and sizes count units of portBYTE_ALIGNMENT from the start of *)
(* the heap.  The free list is a function from the addresses of its blocks *)
(* to their sizes, since it is kept in the order of addresses; pxEnd is at *)
(* the end of the heap, and xStart is no neighbour of any block.           *)
(***************************************************************************)
EXTENDS Integers, FiniteSets

CONSTANTS
  HeapEnd,          \* where pxEnd is
  HeapStructSize,   \* of the header of a block
  Wanted            \* sizes asked for, as rounded up

VARIABLES
  freeList,
  allocated,    \* blocks in use, a function likewise
  freeing,      \* blocks that a task is about to insert into the free list
  xFreeBytesRemaining, xMinimumEverFreeBytesRemaining

heapVars == <<freeList, allocated, freeing, xFreeBytesRemaining,
              xMinimumEverFreeBytesRemaining>>

MinimumBlockSize == 2 * HeapStructSize

Without(f, as)  == [a \in DOMAIN f \ as |-> f[a]]
With(f, a, s)   == [b \in DOMAIN f \cup {a} |-> IF b = a THEN s ELSE f[b]]

\* prvHeapInit(), called by the first allocation.
HeapInit ==
  /\ freeList = [a \in {0} |-> HeapEnd]
  /\ allocated = <<>> /\ freeing = <<>>
  /\ xFreeBytesRemaining = HeapEnd /\ xMinimumEverFreeBytesRemaining = HeapEnd
-----------------------------------------------------------------------------
\* prvInsertBlockIntoFreeList(): joined with the block before and the one after, if
\* they touch.  Mutant: the one after is forgotten when it was joined with the other.
TouchesBefore(f, a) == {p \in DOMAIN f : p + f[p] = a}
TouchedAfterOnly(f, a, s) == {n \in DOMAIN f : a + s = n /\ TouchesBefore(f, a) = {}}
TouchedAfter(f, a, s) == {n \in DOMAIN f : a + s = n}
Inserted(f, a, s) ==
  LET before == TouchesBefore(f, a)
      after  == TouchedAfter(f, a, s)
      start  == IF before = {} THEN a ELSE CHOOSE p \in before : TRUE
      end    == IF after = {} THEN a + s ELSE LET n == CHOOSE n \in after : TRUE
                                              IN n + f[n]
  IN With(Without(f, before \cup after), start, end - start)

\* pvPortMalloc(): the lowest block that is large enough, what is left of it put back
\* if that is more than a small block.  Without one it fails and changes nothing.
FirstFit(a, size) ==
  /\ a \in DOMAIN freeList /\ freeList[a] >= size
  /\ \A b \in DOMAIN freeList : b < a => freeList[b] < size
Malloc(wanted) ==
  LET size == wanted + HeapStructSize IN
  \E a \in DOMAIN freeList :
    /\ size <= xFreeBytesRemaining /\ FirstFit(a, size)
    /\ LET splits == freeList[a] - size > MinimumBlockSize
           taken  == IF splits THEN size ELSE freeList[a]
           rest   == Without(freeList, {a})
       IN /\ freeList' = IF splits THEN Inserted(rest, a + size, freeList[a] - size) ELSE rest
          /\ allocated' = With(allocated, a, taken)
          /\ xFreeBytesRemaining' = xFreeBytesRemaining - taken
          /\ xMinimumEverFreeBytesRemaining' =
               IF xFreeBytesRemaining' < xMinimumEverFreeBytesRemaining
                 THEN xFreeBytesRemaining' ELSE xMinimumEverFreeBytesRemaining
  /\ UNCHANGED freeing

\* vPortFree(): first the block is marked, then inserted.
MarkFree(a) ==
  /\ a \in DOMAIN allocated
  /\ allocated' = Without(allocated, {a}) /\ freeing' = With(freeing, a, allocated[a])
  /\ UNCHANGED <<freeList, xFreeBytesRemaining, xMinimumEverFreeBytesRemaining>>
InsertFree(a) ==
  /\ a \in DOMAIN freeing
  /\ freeing' = Without(freeing, {a})
  /\ freeList' = Inserted(freeList, a, freeing[a])
  /\ xFreeBytesRemaining' = xFreeBytesRemaining + freeing[a]
  /\ UNCHANGED <<allocated, xMinimumEverFreeBytesRemaining>>

HeapNext ==
  \/ \E wanted \in Wanted : Malloc(wanted)
  \/ \E a \in 0 .. HeapEnd - 1 : MarkFree(a) \/ InsertFree(a)

HeapSpec == HeapInit /\ [][HeapNext]_heapVars
-----------------------------------------------------------------------------
Blocks(f) == {a .. a + f[a] - 1 : a \in DOMAIN f}

HeapTypeOK ==
  /\ \A f \in {freeList, allocated, freeing} : UNION Blocks(f) \subseteq 0 .. HeapEnd - 1
  /\ xFreeBytesRemaining \in 0 .. HeapEnd /\ xMinimumEverFreeBytesRemaining \in 0 .. HeapEnd

\* Whatever was allocated and freed in whatever order, each byte of the heap is in one
\* block only, and lost to none (prvInsertBlockIntoFreeList).
Tiled ==
  \A byte \in 0 .. HeapEnd - 1 :
    Cardinality({b \in Blocks(freeList) : byte \in b})
    + Cardinality({b \in Blocks(allocated) : byte \in b})
    + Cardinality({b \in Blocks(freeing) : byte \in b}) = 1

\* Free space is not broken up: no two free blocks touch, so that what was wholly freed
\* is one block again.
Joined == \A a \in DOMAIN freeList : TouchesBefore(freeList, a) = {}

\* xPortGetFreeHeapSize() tells the size of all free blocks, and the other the least
\* there ever was.
Counted ==
  /\ xFreeBytesRemaining = Cardinality(UNION Blocks(freeList))
  /\ xMinimumEverFreeBytesRemaining <= xFreeBytesRemaining

HeapRight == Tiled /\ Joined /\ Counted
=============================================================================
