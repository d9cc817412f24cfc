----------------------------- MODULE RttMessages -----------------------------
(***************************************************************************)
(* The objects of RT-Thread that threads and interrupt handlers exchange   *)
(* more than a word with: events and message queues                        *)
(* (rtt_test/myrtt/src/ipc.c) and memory pools                             *)
(* (rtt_test/myrtt/src/mempool.c), beside those of RttIpc.                 *)
(*                                                                         *)
(* A block of a message queue is filled, and read, with interrupts         *)
(* enabled: in between it is in none of the queue's lists.                 *)
(***************************************************************************)
EXTENDS RttIpc

CONSTANTS
  Bits,        \* bits of an event
  Blocks,      \* blocks of the message queue
  PoolSize,    \* blocks of the memory pool
  MaxSuspended \* bound: its suspend_thread_count

Event == "event"      \* the suspend lists
Queue == "queue"
Pool  == "pool"

ASSUME MessagesAssumption ==
  /\ {Event, Queue, Pool} \subseteq Lists \ Objects /\ Pool \notin FifoLists
  /\ IsFiniteSet(Blocks) /\ Blocks \subseteq Nat
  /\ PoolSize \in Nat /\ MaxSuspended \in Nat

VARIABLES
  set,         \* set of the event
  wanted,      \* event_set and event_info of each thread
  free, queue, \* blocks of the message queue: msg_queue_free, and from msg_queue_head on
  contents,    \* of each block
  freeCount,   \* block_free_count of the pool
  suspended,   \* its suspend_thread_count
  blocks       \* how many of its blocks each thread has

eventVars == <<set, wanted>>
queueVars == <<free, queue, contents>>
poolVars  == <<freeCount, suspended, blocks>>
msgVars   == <<eventVars, queueVars, poolVars>>
allVars   == <<ipcAndKernel, msgVars>>

MessagesInit ==
  /\ IpcInit
  /\ set = {}
  /\ wanted = [t \in Threads |-> [bits |-> {}, all |-> FALSE, clear |-> FALSE]]
  /\ free \in {s \in [1 .. Cardinality(Blocks) -> Blocks] :
                 \A i, j \in DOMAIN s : i < j => s[i] > s[j]}
  /\ queue = <<>>
  /\ \E x \in Msgs : contents = [b \in Blocks |-> x]
  /\ freeCount = PoolSize /\ suspended = 0
  /\ blocks = [t \in Threads |-> 0]
-----------------------------------------------------------------------------
\* Events.

\* The thread t that waits is content with the bits s, and what it gets of them.
\* Mutant: one of the bits for all.
MetByAny(t, s) == wanted[t].bits \cap s # {}
Met(t, s) == IF wanted[t].all THEN wanted[t].bits \subseteq s ELSE wanted[t].bits \cap s # {}
Got(t, s) == wanted[t].bits \cap s

\* rt_event_send(): the threads of the suspend list that the bits s let go, one after
\* another, each of which may take its bits away.
Passed(s) ==
  LET w == waitList[Event]
      after[i \in 0 .. Len(w)] ==
        IF i = 0 THEN [set |-> s, resumed |-> <<>>]
        ELSE LET p == after[i - 1]
             IN IF ~Met(w[i], p.set) THEN p
                ELSE [set |-> IF wanted[w[i]].clear THEN p.set \ Got(w[i], p.set) ELSE p.set,
                      resumed |-> Append(p.resumed, <<w[i], Got(w[i], p.set)>>)]
  IN after[Len(w)]

SetBits(s) ==
  LET p     == Passed(set \cup s)
      pairs == p.resumed
      all   == [i \in DOMAIN pairs |-> pairs[i][1]]
  IN
  /\ set' = p.set
  /\ wanted' = [t \in Threads |->
                  IF t \in Elems(all)
                  THEN [bits  |-> CHOOSE g \in SUBSET wanted[t].bits : <<t, g>> \in Elems(pairs),
                        all   |-> wanted[t].all, clear |-> wanted[t].clear]
                  ELSE wanted[t]]
  /\ stat' = [t \in Threads |-> IF t \in Elems(all) THEN "ready" ELSE stat[t]]
  /\ ready' = TimedOut(ready, all)
  /\ waitList' = [waitList EXCEPT ![Event] = Without(@, Elems(all))]
  /\ timers' = Stopped(timers, Elems(all))
  /\ UNCHANGED <<queueVars, poolVars>>

EventSend(s) ==
  /\ Calls("event_send")
  /\ SetBits(s) /\ CallerGoes(Passed(set \cup s).resumed # <<>>)
  /\ UNCHANGED <<priority, lockNest, tick, remaining, defunct, error, does, left, ipcVars>>

EventSendISR(s) ==
  /\ Has(NoThread, "event_send")
  /\ SetBits(s) /\ HandlerGoes(Passed(set \cup s).resumed # <<>>)
  /\ UNCHANGED <<priority, lockNest, tick, remaining, defunct, error, does, left, ipcVars>>

\* rt_event_recv(s, option, n); with n = 0 it only fails if the bits are not set.
EventRecv(s, all, clear, n) ==
  LET met == IF all THEN s \subseteq set ELSE s \cap set # {}
  IN
  /\ Calls("event_recv")
  /\ \/ /\ met
        /\ set' = IF clear THEN set \ s ELSE set
        /\ error' = [error EXCEPT ![current] = "ok"]
        /\ UNCHANGED <<wanted, stat, ready, waitList, timers, todo, left, spent>>
     \/ /\ ~met /\ n # 0 /\ lockNest = 0
        /\ wanted' = [wanted EXCEPT ![current] = [bits |-> s, all |-> all, clear |-> clear]]
        /\ SuspendOn(Event, n, ready, <<"event_end", s>>) /\ Begins(n)
        /\ UNCHANGED set
  /\ UNCHANGED <<current, priority, lockNest, tick, remaining, defunct, does, value,
                 mutexVars, boxVars, ghosts, queueVars, poolVars>>

EventEnd ==
  /\ At("event_end")
  /\ Returns /\ Then(<<>>)
  /\ UNCHANGED <<current, schedVars, lockNest, tick, remaining, timers, waitList, defunct,
                 error, does, value, mutexVars, boxVars, ghosts, msgVars>>

\* rt_event_control(RT_IPC_CMD_RESET).
EventReset ==
  /\ Calls("event_reset")
  /\ ResumeAll(<<Event>>)
  /\ set' = {}
  /\ CallerGoes(TRUE)
  /\ UNCHANGED <<priority, lockNest, tick, remaining, defunct, does, left, ipcVars,
                 wanted, queueVars, poolVars>>
-----------------------------------------------------------------------------
\* Message queues.

\* A block b with message x goes to the end, or with rt_mq_urgent() to the front.
Linked(how, b, x) ==
  /\ queue' = IF how = "mq_urgent" THEN <<b>> \o queue ELSE Append(queue, b)
  /\ contents' = [contents EXCEPT ![b] = x]

\* rt_mq_send(x), or rt_mq_urgent(x), by a thread takes a free block; the block is
\* filled, then linked.  Without a free block it only fails.
MqSend(how, x) ==
  /\ Calls(how) /\ free # <<>>
  /\ free' = Tail(free)
  /\ Goes(<<<<how, x, Head(free)>>>>)
  /\ UNCHANGED <<current, schedVars, lockNest, tick, remaining, timers, waitList, defunct,
                 error, does, left, ipcVars, eventVars, queue, contents, poolVars>>

MqLink(how) ==
  LET call == Head(todo[current])
  IN
  /\ At(how)
  /\ Linked(how, call[3], call[2])
  /\ ResumeOne(Queue) /\ CallerGoes(waitList[Queue] # <<>>)
  /\ UNCHANGED <<priority, lockNest, tick, remaining, defunct, error, does, left, ipcVars,
                 eventVars, free, poolVars>>

\* By an interrupt handler, which no thread and no tick interrupts.
MqSendISR(how, x) ==
  /\ Has(NoThread, how) /\ free # <<>>
  /\ free' = Tail(free)
  /\ Linked(how, Head(free), x)
  /\ ResumeOne(Queue) /\ HandlerGoes(waitList[Queue] # <<>>)
  /\ UNCHANGED <<priority, lockNest, tick, remaining, defunct, error, does, left, ipcVars,
                 eventVars, poolVars>>

\* rt_mq_recv(n): the first block is taken, its message copied, and then the block is
\* free again.  Mutant: it is free at once.
TakeFirstFree == queue' = Tail(queue) /\ free' = <<Head(queue)>> \o free
TakeFirst == queue' = Tail(queue) /\ UNCHANGED free
Copying(b) == <<<<"mq_copy", b, contents[b]>>>>

MqReceive(n) ==
  /\ Calls("mq_recv")
  /\ \/ /\ queue # <<>>
        /\ TakeFirst
        /\ Goes(Copying(Head(queue)))
        /\ UNCHANGED <<stat, ready, waitList, timers, spent, error, left>>
     \/ /\ queue = <<>> /\ n # 0 /\ lockNest = 0
        /\ SuspendOn(Queue, n, ready, <<"mq_again", n>>) /\ Begins(n)
        /\ UNCHANGED <<free, queue>>
  /\ UNCHANGED <<current, priority, lockNest, tick, remaining, defunct, does, value,
                 mutexVars, boxVars, ghosts, eventVars, contents, poolVars>>

MqReceiveAgain ==
  LET n == Head(todo[current])[2]
  IN
  /\ At("mq_again")
  /\ \/ Fails(queue = <<>>, n) /\ UNCHANGED <<free, queue>>
     \/ /\ error[current] = "ok" /\ queue # <<>>
        /\ TakeFirst
        /\ Then(Copying(Head(queue)))
        /\ Returns
        /\ UNCHANGED <<current, stat, ready, waitList, timers, boxVars, error>>
     \/ /\ queue = <<>>
        /\ WaitsAgain(Queue, WaitLeft(n), <<"mq_again", WaitLeft(n)>>)
        /\ UNCHANGED <<free, queue>>
  /\ UNCHANGED <<priority, lockNest, tick, remaining, defunct, does, value,
                 mutexVars, ghosts, eventVars, contents, poolVars>>

MqCopied ==
  /\ At("mq_copy")
  /\ received' = contents[Subject]
  /\ free' = <<Subject>> \o free
  /\ Then(<<>>)
  /\ UNCHANGED <<current, schedVars, lockNest, tick, remaining, timers, waitList, defunct,
                 error, does, left, value, mutexVars, boxVars, spent, permits, taken,
                 eventVars, queue, contents, poolVars>>

\* rt_mq_control(RT_IPC_CMD_RESET): the blocks in the queue become free, the last of
\* them the next to be used.
MqReset ==
  /\ Calls("mq_reset")
  /\ ResumeAll(<<Queue>>)
  /\ queue' = <<>>
  /\ free' = [i \in DOMAIN queue |-> queue[Len(queue) + 1 - i]] \o free
  /\ CallerGoes(TRUE)
  /\ UNCHANGED <<priority, lockNest, tick, remaining, defunct, does, left, ipcVars,
                 eventVars, contents, poolVars>>
-----------------------------------------------------------------------------
\* Memory pools.

\* rt_mp_alloc(n): a thread that has to wait comes first in the list.  How much time is
\* left is found before the section that looks again.  A thread has one block at most.
TakeBlock == /\ freeCount' = freeCount - 1
             /\ blocks' = [blocks EXCEPT ![current] = @ + 1]
             /\ UNCHANGED suspended
WaitForBlock(n) ==
  /\ SuspendIn(Pool, <<current>> \o waitList[Pool], n, ready, <<"mp_woken", n>>)
  /\ error' = [error EXCEPT ![current] = "ok"]
  /\ suspended < MaxSuspended /\ suspended' = suspended + 1
  /\ Begins(n)
  /\ UNCHANGED <<freeCount, blocks>>

MpAlloc(n) ==
  /\ Calls("mp_alloc") /\ blocks[current] = 0
  /\ \/ freeCount > 0 /\ TakeBlock
        /\ UNCHANGED <<stat, ready, waitList, timers, spent, todo, error, left>>
     \/ freeCount = 0 /\ n # 0 /\ lockNest = 0 /\ WaitForBlock(n)
  /\ UNCHANGED <<current, priority, lockNest, tick, remaining, defunct, does, value,
                 mutexVars, boxVars, ghosts, eventVars, queueVars>>

MpWoken ==
  LET n == Head(todo[current])[2]
  IN
  /\ At("mp_woken")
  /\ Then(IF error[current] = "ok" THEN <<<<"mp_again", WaitLeft(n)>>>> ELSE <<>>)
  /\ Returns
  /\ UNCHANGED <<current, schedVars, lockNest, tick, remaining, timers, waitList, defunct,
                 error, does, value, mutexVars, boxVars, ghosts, msgVars>>

MpAgain ==
  LET n == Head(todo[current])[2]
  IN
  /\ At("mp_again")
  /\ \/ /\ freeCount > 0 /\ TakeBlock /\ Then(<<>>)
        /\ UNCHANGED <<stat, ready, waitList, timers, spent, error, left>>
     \/ /\ freeCount = 0 /\ n = 0 /\ Then(<<>>)
        /\ UNCHANGED <<stat, ready, waitList, timers, spent, error, left, poolVars>>
     \/ freeCount = 0 /\ n # 0 /\ WaitForBlock(n)
  /\ UNCHANGED <<current, priority, lockNest, tick, remaining, defunct, does, value,
                 mutexVars, boxVars, ghosts, eventVars, queueVars>>

\* rt_mp_free().  A wait that times out leaves the thread counted in suspended: with
\* nobody in the list any more, what is resumed is no thread, and what follows is
\* undefined.
MpFree ==
  /\ todo[current] = <<>> /\ blocks[current] > 0
  /\ suspended > 0 => waitList[Pool] # <<>>
  /\ freeCount' = freeCount + 1
  /\ blocks' = [blocks EXCEPT ![current] = @ - 1]
  /\ \/ /\ suspended > 0
        /\ suspended' = suspended - 1
        /\ ResumeFirst(Pool, ready, priority)
        /\ error' = [error EXCEPT ![Head(waitList[Pool])] = "ok"]
     \/ /\ suspended = 0
        /\ ResumeNobody(ready)
        /\ UNCHANGED <<suspended, error>>
  /\ CallerGoes(suspended > 0)
  /\ UNCHANGED <<priority, lockNest, tick, remaining, defunct, does, left, ipcVars,
                 eventVars, queueVars>>
-----------------------------------------------------------------------------
Ways == {"mq_send", "mq_urgent"}
MsgInCall == EventEnd \/ (\E how \in Ways : MqLink(how)) \/ MqReceiveAgain \/ MqCopied
               \/ MpWoken \/ MpAgain
MsgCall ==
  \/ \E s \in (SUBSET Bits) \ {{}} :
       \/ EventSend(s)
       \/ \E all, clear \in BOOLEAN, n \in WaitTimes \cup {Forever} :
            EventRecv(s, all, clear, n)
  \/ EventReset
  \/ \E how \in Ways, x \in Msgs : MqSend(how, x)
  \/ \E n \in WaitTimes \cup {Forever} : MqReceive(n) \/ MpAlloc(n)
  \/ MqReset
  \/ MpFree
MsgHandler == \/ \E s \in (SUBSET Bits) \ {{}} : EventSendISR(s)
              \/ \E how \in Ways, x \in Msgs : MqSendISR(how, x)

Next == current # NoThread /\ \/ IpcNext /\ UNCHANGED msgVars
                              \/ MsgInCall \/ MsgCall \/ MsgHandler
Spec == MessagesInit /\ [][Next]_allVars

\* Ticks come, a thread goes on with the call it is in, and it unlocks the scheduler
\* again, whatever else it calls before.
GoesOn == current # NoThread /\ (MsgInCall \/ (InCall /\ UNCHANGED msgVars))
FairSpec == /\ Spec
            /\ WF_allVars(TickOfAll /\ UNCHANGED msgVars) /\ WF_allVars(GoesOn)
            /\ SF_allVars(ExitCritical /\ UNCHANGED <<ipcVars, msgVars>>)
-----------------------------------------------------------------------------
TypeOK ==
  /\ IpcTypeOK
  /\ set \subseteq Bits
  /\ wanted \in [Threads -> [bits : SUBSET Bits, all : BOOLEAN, clear : BOOLEAN]]
  /\ free \in Seq(Blocks) /\ queue \in Seq(Blocks) /\ contents \in [Blocks -> Msgs]
  /\ freeCount \in 0 .. PoolSize /\ blocks \in [Threads -> 0 .. PoolSize]
  /\ suspended \in 0 .. MaxSuspended

\* Every block of a message queue is free, in the queue, or in the hands of one thread,
\* which finds in it the message it took (rt_mq_send, rt_mq_recv, rt_mq_control).
InHand(b) == {t \in Threads : /\ todo[t] # <<>>
                              /\ \/ Head(todo[t])[1] \in Ways /\ Head(todo[t])[3] = b
                                 \/ Head(todo[t])[1] = "mq_copy" /\ Head(todo[t])[2] = b}
MessagesKept ==
  /\ \A b \in Blocks : Times(b, free) + Times(b, queue) + Cardinality(InHand(b)) = 1
  /\ \A t \in Threads : todo[t] # <<>> /\ Head(todo[t])[1] = "mq_copy" =>
       contents[Head(todo[t])[2]] = Head(todo[t])[3]

\* The pool's blocks are free or a thread's, which has one at most (rt_mp_alloc,
\* rt_mp_free).
PoolKept ==
  /\ \A t \in Threads : blocks[t] <= 1
  /\ freeCount + Cardinality({t \in Threads : blocks[t] = 1}) = PoolSize

\* What threads share is neither lost nor doubled: permits, mutexes, blocks.
ResourcesRight == HoldingsRight /\ MessagesKept /\ PoolKept

\* A thread that waits for bits is not content with those that are set, and one that is
\* resumed got some it asked for (rt_event_send, rt_event_recv).
BitsArrive ==
  /\ \A t \in Elems(waitList[Event]) : ~Met(t, set)
  /\ \A t \in Threads :
       /\ todo[t] # <<>> /\ Last(t)[1] = "event_end" /\ error[t] = "ok"
       /\ t \notin Elems(waitList[Event])
       => /\ wanted[t].bits \subseteq Last(t)[2] /\ wanted[t].bits # {}
          /\ wanted[t].all => wanted[t].bits = Last(t)[2]

\* While threads wait for a message or a block, as many resumed threads as there are of
\* these are on their way to look again (rt_mq_send, rt_mq_recv, rt_mp_free).
WakeUpsCovered ==
  /\ MailCovered
  /\ BitsArrive
  /\ waitList[Queue] # <<>> => Cardinality(Looking("mq_again")) >= Len(queue)
  /\ waitList[Pool] # <<>> =>
       Cardinality(Looking("mp_woken") \cup Looking("mp_again")) >= freeCount

\* Messages are delivered in the order of the queue, in which one sent is the last and
\* an urgent one the first (rt_mq_send, rt_mq_urgent, rt_mq_recv).
Messages == [i \in DOMAIN queue |-> contents[queue[i]]]
MessagesInOrder ==
  /\ MailInOrder
  /\ [][\/ UNCHANGED Messages
        \/ \E x \in Msgs : Messages' \in {Append(Messages, x), <<x>> \o Messages}
        \/ Messages # <<>> /\ Messages' = Tail(Messages)
             /\ \E b \in Blocks : Head(todo'[current]) = <<"mq_copy", b, Head(Messages)>>
        \/ MqReset]_<<Messages>>
=============================================================================
