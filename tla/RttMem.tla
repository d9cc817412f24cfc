-------------------------------- MODULE RttMem -------------------------------
(***************************************************************************)
(* The system heap of RT-Thread, rtt_test/myrtt/src/mem.c: a chain of      *)
(* blocks in the order of their addresses, searched from the lowest free   *)
(* one.                                                                    *)
(*                                                                         *)
(* Atomicity.  Every function holds heap_sem while it is at the chain.     *)
(* rt_realloc() to what a block cannot be cut to is rt_malloc(), a copy    *)
(* and rt_free(), which are actions of their own: the block belongs to its *)
(* caller all along.                                                       *)
(*                                                                         *)
(* Addresses and sizes count units of RT_ALIGN_SIZE from heap_ptr.         *)
(***************************************************************************)
EXTENDS Integers, FiniteSets

CONSTANTS
  MemSize,    \* mem_size_aligned
  StructMem,  \* SIZEOF_STRUCT_MEM
  MinSize,    \* MIN_SIZE_ALIGNED
  Wanted      \* sizes asked for, as rounded up

VARIABLES
  next, prev, used,   \* of the blocks, functions of their addresses
  lfree,
  usedMem, maxMem,    \* used_mem, max_mem
  shrunk              \* history: rt_realloc() has cut a block

memVars == <<next, prev, used, lfree, usedMem, maxMem, shrunk>>

HeapEnd == MemSize + StructMem

\* rt_system_heap_init().
MemInit ==
  /\ next = [b \in {0, HeapEnd} |-> HeapEnd]
  /\ prev = [b \in {0, HeapEnd} |-> b]
  /\ used = [b \in {0, HeapEnd} |-> b = HeapEnd]
  /\ lfree = 0 /\ usedMem = 0 /\ maxMem = 0
  /\ shrunk = FALSE
-----------------------------------------------------------------------------
\* A state of the chain is a record of next, prev, used and lfree.
Chain == [next |-> next, prev |-> prev, used |-> used, lfree |-> lfree]
Becomes(c) == /\ next' = c.next /\ prev' = c.prev
              /\ used' = c.used /\ lfree' = c.lfree

With(f, b, x) == [d \in DOMAIN f \cup {b} |-> IF d = b THEN x ELSE f[d]]
Less(f, b)    == [d \in DOMAIN f \ {b} |-> f[d]]

\* The block b is cut at address at; the rest is a free block.  The end of the heap is
\* not told.
Cut(c, b, at) ==
  [next  |-> With(With(c.next, at, c.next[b]), b, at),
   prev  |-> With(IF c.next[b] = HeapEnd THEN c.prev ELSE With(c.prev, c.next[b], at), at, b),
   used  |-> With(c.used, at, FALSE),
   lfree |-> c.lfree]

\* The block b takes the one after it in; lfree follows if that is the one.
Merged(c, b) ==
  LET n == c.next[b] IN
  [next  |-> With(Less(c.next, n), b, c.next[n]),
   prev  |-> With(Less(c.prev, n), c.next[n], b),
   used  |-> Less(c.used, n),
   lfree |-> IF c.lfree = n THEN b ELSE c.lfree]

\* plug_holes(): b takes in the free block after it, and is taken in by one before it.
MergedAfter(c, b) == IF ~c.used[c.next[b]] THEN Merged(c, b) ELSE c
PlugHoles(c, b) ==
  LET d == MergedAfter(c, b)
      p == d.prev[b]
  IN IF p # b /\ ~d.used[p] THEN Merged(d, p) ELSE d

\* rt_malloc(): the first free block from lfree on that is large enough, of which what
\* is left is cut off if it makes a block.  A block that ends the heap has to be larger.
Room(b) == next[b] - b - StructMem
Fits(b, size) == /\ b >= lfree /\ b < MemSize - size
                 /\ ~used[b] /\ Room(b) >= size
Malloc(wanted) ==
  LET size == IF wanted < MinSize THEN MinSize ELSE wanted IN
  \E b \in DOMAIN used :
    /\ Fits(b, size) /\ \A d \in DOMAIN used : Fits(d, size) => b <= d
    /\ LET c     == IF Room(b) >= size + StructMem + MinSize
                    THEN Cut(Chain, b, b + StructMem + size) ELSE Chain
           inUse == [c.used EXCEPT ![b] = TRUE]
           open  == {d \in DOMAIN inUse : d >= b /\ (~inUse[d] \/ d = HeapEnd)}
       IN /\ Becomes([c EXCEPT !.used = inUse,
                        !.lfree = IF b # lfree THEN @
                                  ELSE CHOOSE d \in open : \A e \in open : d <= e])
          /\ usedMem' = usedMem + c.next[b] - b
          /\ maxMem' = IF maxMem < usedMem' THEN usedMem' ELSE maxMem
    /\ UNCHANGED shrunk

\* rt_realloc() to a size so small that the rest makes a block.
Shrink(b, newsize) ==
  /\ b \in DOMAIN used \ {HeapEnd} /\ used[b]
  /\ newsize + StructMem + MinSize < Room(b)
  /\ Becomes(PlugHoles(Cut(Chain, b, b + StructMem + newsize), b + StructMem + newsize))
  /\ usedMem' = usedMem - (Room(b) - newsize)
  /\ shrunk' = TRUE
  /\ UNCHANGED maxMem

\* rt_free().
Free(b) ==
  /\ b \in DOMAIN used \ {HeapEnd} /\ used[b]
  /\ Becomes(PlugHoles([Chain EXCEPT !.used = With(@, b, FALSE),
                                     !.lfree = IF b < @ THEN b ELSE @], b))
  /\ usedMem' = usedMem - (next[b] - b)
  /\ UNCHANGED <<maxMem, shrunk>>

MemNext ==
  \/ \E wanted \in Wanted : Malloc(wanted) \/ \E b \in DOMAIN used : Shrink(b, wanted)
  \/ \E b \in DOMAIN used : Free(b)

MemSpec == MemInit /\ [][MemNext]_memVars
-----------------------------------------------------------------------------
MemTypeOK ==
  /\ DOMAIN used \subseteq 0 .. HeapEnd
  /\ next \in [DOMAIN used -> 0 .. HeapEnd] /\ prev \in [DOMAIN used -> 0 .. HeapEnd]
  /\ used \in [DOMAIN used -> BOOLEAN] /\ shrunk \in BOOLEAN
  /\ usedMem \in 0 .. HeapEnd /\ maxMem \in 0 .. HeapEnd

\* The blocks are one chain from the start of the heap to its end, each with room for
\* its header and more, and linked back as well, except from the end, which nobody
\* asks (rt_malloc, rt_realloc, plug_holes).
Chained ==
  /\ 0 \in DOMAIN used /\ used[HeapEnd]
  /\ \A b \in DOMAIN used \ {HeapEnd} :
       LET n == next[b] IN
       /\ n \in DOMAIN used /\ n > b + StructMem
       /\ n = HeapEnd \/ prev[n] = b
       /\ \A d \in DOMAIN used : d <= b \/ d >= n

\* What was freed is joined: no two free blocks touch (plug_holes).
NoHoles == \A b \in DOMAIN used : used[b] \/ used[next[b]]

\* The search starts at a free block or at the end and, unless rt_realloc() has cut one
\* off below it, misses none.
LowestFree ==
  /\ lfree \in DOMAIN used /\ (used[lfree] => lfree = HeapEnd)
  /\ shrunk \/ \A b \in DOMAIN used : ~used[b] => lfree <= b

\* rt_memory_info() tells how much is in use, and was at most.
UsedCounted ==
  /\ usedMem = Cardinality({a \in 0 .. HeapEnd - 1 :
                              \E b \in DOMAIN used \ {HeapEnd} : used[b] /\ b <= a /\ a < next[b]})
  /\ usedMem <= maxMem

MemRight == Chained /\ NoHoles /\ LowestFree /\ UsedCounted
=============================================================================
