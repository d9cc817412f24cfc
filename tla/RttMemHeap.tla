------------------------------ MODULE RttMemHeap -----------------------------
(***************************************************************************)
(* The memory heaps of RT-Thread, rtt_test/myrtt/src/memheap.c: items in a *)
(* ring in the order of their addresses, the free ones also in a list, the *)
(* last one freed first.                                                   *)
(*                                                                         *)
(* Atomicity.  Every function holds the heap's lock while it is at the     *)
(* items.  rt_memheap_realloc() of an item that cannot grow in its place   *)
(* is rt_memheap_alloc(), a copy and rt_memheap_free(), which are actions  *)
(* of their own: the item belongs to its caller all along.                 *)
(*                                                                         *)
(* Addresses and sizes count units of RT_ALIGN_SIZE from start_addr.       *)
(***************************************************************************)
EXTENDS Integers, Sequences, FiniteSets

CONSTANTS
  PoolSize,   \* pool_size
  Header,     \* RT_MEMHEAP_SIZE
  MiniAlloc,  \* RT_MEMHEAP_MINIALLOC
  Wanted      \* sizes asked for, as rounded up

VARIABLES
  next, prev, used,     \* of the items, functions of their addresses
  freeItems,            \* the list from free_list->next_free on
  available, maxUsed    \* available_size, max_used_size

memHeapVars == <<next, prev, used, freeItems, available, maxUsed>>

Tailer == PoolSize - Header

\* rt_memheap_init().
MemHeapInit ==
  /\ next = [i \in {0, Tailer} |-> Tailer - i] /\ prev = next
  /\ used = [i \in {0, Tailer} |-> i = Tailer]
  /\ freeItems = <<0>>
  /\ available = PoolSize - 2 * Header /\ maxUsed = 2 * Header
-----------------------------------------------------------------------------
\* A state of the items is a record of next, prev, used and freeItems.
Items == [next |-> next, prev |-> prev, used |-> used, freeItems |-> freeItems]
Becomes(c) == /\ next' = c.next /\ prev' = c.prev
              /\ used' = c.used /\ freeItems' = c.freeItems

With(f, i, x)  == [j \in DOMAIN f \cup {i} |-> IF j = i THEN x ELSE f[j]]
Less(f, i)     == [j \in DOMAIN f \ {i} |-> f[j]]
Unlinked(s, i) ==
  IF \E k \in DOMAIN s : s[k] = i
    THEN LET k == CHOOSE k \in DOMAIN s : s[k] = i
         IN SubSeq(s, 1, k - 1) \o SubSeq(s, k + 1, Len(s))
    ELSE s

\* MEMITEM_SIZE().
Size(c, i) == c.next[i] - i - Header

\* The item i is cut at address at, and the rest is put first in the free list.
Split(c, i, at) ==
  [next      |-> With(With(c.next, at, c.next[i]), i, at),
   prev      |-> With(With(c.prev, c.next[i], at), at, i),
   used      |-> With(c.used, at, FALSE),
   freeItems |-> <<at>> \o c.freeItems]

\* The item i takes in the next one, which leaves the free list.
Joined(c, i) ==
  LET n == c.next[i] IN
  [next      |-> With(Less(c.next, n), i, c.next[n]),
   prev      |-> With(Less(c.prev, n), c.next[n], i),
   used      |-> Less(c.used, n),
   freeItems |-> Unlinked(c.freeItems, n)]

MostUsed(free) == IF PoolSize - free > maxUsed THEN PoolSize - free ELSE maxUsed

\* rt_memheap_alloc(): the first item of the free list that is large enough.
Alloc(wanted) ==
  LET size == IF wanted < MiniAlloc THEN MiniAlloc ELSE wanted IN
  \E k \in DOMAIN freeItems :
    LET i      == freeItems[k]
        room   == Size(Items, i)
        splits == room >= size + Header + MiniAlloc
        c      == IF splits THEN Split(Items, i, i + size + Header) ELSE Items
    IN
    /\ size < available
    /\ room >= size /\ \A j \in 1 .. k - 1 : Size(Items, freeItems[j]) < size
    /\ Becomes([c EXCEPT !.used[i] = TRUE, !.freeItems = Unlinked(@, i)])
    /\ available' = available - (IF splits THEN size + Header ELSE room)
    /\ maxUsed' = MostUsed(available')

\* rt_memheap_realloc() of an item whose next one is free and has more than enough
\* room to grow into ...
Grow(i, newsize) ==
  LET n == next[i] IN
  /\ i \in DOMAIN used \ {Tailer} /\ used[i] /\ ~used[n]
  /\ newsize > Size(Items, i)
  /\ Size(Items, n) + Size(Items, i) > newsize + MiniAlloc
  /\ Becomes(Split(Joined(Items, i), i, i + Header + newsize))
  /\ available' = available - (newsize - Size(Items, i))
  /\ maxUsed' = MostUsed(available')

\* ... and to so small a size that the rest makes an item, joined with a free one after
\* it.
Shrink(i, newsize) ==
  LET at == i + newsize + Header
      c  == Split(Items, i, at)
      d  == IF used[next[i]] THEN c ELSE Joined(c, at)
  IN
  /\ i \in DOMAIN used \ {Tailer} /\ used[i]
  /\ newsize + Header + MiniAlloc < Size(Items, i)
  /\ Becomes(d)
  /\ available' = available + Size(d, at)
                    - (IF used[next[i]] THEN 0 ELSE Size(Items, next[i]))
  /\ UNCHANGED maxUsed

\* rt_memheap_free(): joined with the item before, which is in the free list already, and
\* with the one after.
Free(i) ==
  LET before == ~used[prev[i]]
      c      == IF before THEN Joined(Items, prev[i])
                ELSE [Items EXCEPT !.used[i] = FALSE, !.freeItems = <<i>> \o @]
      j      == IF before THEN prev[i] ELSE i
      after  == ~used[next[i]]
  IN
  /\ i \in DOMAIN used \ {Tailer} /\ used[i]
  /\ Becomes(IF after THEN Joined(c, j) ELSE c)
  /\ available' = available + Size(Items, i) + (IF before THEN Header ELSE 0)
                    + (IF after THEN Header ELSE 0)
  /\ UNCHANGED maxUsed

MemHeapNext ==
  \/ \E wanted \in Wanted : Alloc(wanted)
  \/ \E i \in DOMAIN used : \/ Free(i)
                            \/ \E newsize \in Wanted : newsize >= MiniAlloc
                                 /\ (Grow(i, newsize) \/ Shrink(i, newsize))

MemHeapSpec == MemHeapInit /\ [][MemHeapNext]_memHeapVars
-----------------------------------------------------------------------------
MemHeapTypeOK ==
  /\ DOMAIN used \subseteq 0 .. Tailer
  /\ next \in [DOMAIN used -> 0 .. Tailer] /\ prev \in [DOMAIN used -> 0 .. Tailer]
  /\ used \in [DOMAIN used -> BOOLEAN] /\ freeItems \in Seq(DOMAIN used)
  /\ available \in 0 .. PoolSize /\ maxUsed \in 0 .. PoolSize

\* The items are a ring, linked both ways, in which only the tailer leads back to a lower
\* address (rt_memheap_alloc, rt_memheap_realloc, rt_memheap_free).
Ring ==
  /\ {0, Tailer} \subseteq DOMAIN used /\ used[Tailer] /\ next[Tailer] = 0
  /\ \A i \in DOMAIN used :
       /\ next[i] \in DOMAIN used /\ prev[next[i]] = i
       /\ i = Tailer \/ (/\ next[i] >= i + Header + MiniAlloc
                         /\ \A j \in DOMAIN used : j <= i \/ j >= next[i])

\* The free list has each free item once, and no two of them touch.
FreeListed ==
  /\ \A i \in DOMAIN used :
       Cardinality({k \in DOMAIN freeItems : freeItems[k] = i}) = IF used[i] THEN 0 ELSE 1
  /\ \A i \in DOMAIN used : used[i] \/ used[next[i]]

\* available_size is what the free items have room for, and max_used_size the most there
\* was of the rest when memory was asked for.
Accounted ==
  /\ available = Cardinality({a \in 0 .. PoolSize :
                                \E i \in DOMAIN used : ~used[i] /\ i + Header <= a
                                                        /\ a < next[i]})
  /\ PoolSize - available <= maxUsed

MemHeapRight == Ring /\ FreeListed /\ Accounted
=============================================================================
