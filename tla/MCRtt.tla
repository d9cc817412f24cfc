-------------------------------- MODULE MCRtt --------------------------------
(***************************************************************************)
(* RttMessages for TLC: the threads, and the applications they run.        *)
(***************************************************************************)
EXTENDS RttMessages, TLC

CONSTANTS main, idle, a, b, none, sem, mutex, other

ThreadsDef == {main, idle, a, b}
ListsDef == {sem, mutex, other, Receivers, Senders, Event, Queue, Pool}
WaitsDef == (a :> {1, 2}) @@ (b :> {2}) @@ (main :> {1}) @@ (idle :> {})

\* Main, which is the most urgent, starts the others; a and b are peers.
PrioDef == (main :> 0) @@ (a :> 1) @@ (b :> 1) @@ (idle :> 2)
Start == {<<main, "startup">>, <<main, "sleep">>}
Both(op) == {<<a, op>>, <<b, op>>}
All(op)  == Both(op) \cup {<<main, op>>}

Sharing  == Start \cup Both("yield") \cup Both("lock") \cup All("exit")
Sleeping == Start \cup All("sleep") \cup {<<b, "lock">>}
Managing == Start \cup {<<main, "suspend">>, <<a, "suspended">>, <<main, "detach">>,
                        <<b, "detached">>, <<main, "priority">>}
Taking   == Start \cup All("take") \cup {<<none, "post">>}
Counting == Start \cup Both("take") \cup {<<main, "reset">>, <<b, "post">>}
Locking  == Start \cup All("lock_mutex") \cup {<<a, "yield">>}
Nesting  == Start \cup {<<t, op>> : t \in {main, a}, op \in {"lock_mutex", "nest"}}
Mailing  == Start \cup {<<a, "send">>, <<main, "send">>, <<b, "recv">>}
Emptying == Start \cup {<<a, "send">>, <<b, "recv">>, <<main, "reset_box">>}
Serving  == Start \cup {<<none, "send">>} \cup Both("recv")
Flagging == Start \cup {<<main, "event_send">>} \cup Both("event_recv")
Clearing == Start \cup {<<none, "event_send">>, <<main, "event_reset">>, <<a, "event_recv">>}
Queueing == Start \cup {<<a, "mq_send">>, <<main, "mq_urgent">>, <<b, "mq_recv">>}
Posting  == Start \cup {<<none, "mq_send">>, <<main, "mq_reset">>} \cup Both("mq_recv")
Pooling  == Start \cup All("mp_alloc")

AllRoles == {Sharing, Sleeping, Managing, Taking, Counting, Locking, Nesting, Mailing,
             Emptying, Serving, Flagging, Clearing, Queueing, Posting, Pooling}
DetachRole == {Start \cup {<<main, "detach">>, <<a, "detached">>, <<a, "sleep">>}}
ShareRole  == {Start \cup {<<main, "take">>, <<main, "exit">>, <<a, "lock">>, <<b, "exit">>}
                    \cup Both("yield")}

\* The tick count is seen where applications sleep: elsewhere only its distance to
\* when timers are due.  A thread's error outside a call, and a place of the mailbox
\* without a message, are not read again; blocks of the queue are alike, and so are all
\* bits and any bit of one.
Due == [i \in DOMAIN timers |-> <<timers[i].thread, (timers[i].due - tick) % TickMod>>]
Wanted == [t \in Threads |->
             IF todo[t] = <<>> \/ Last(t)[1] # "event_end" THEN <<>>
             ELSE <<wanted[t].bits, wanted[t].all /\ Cardinality(wanted[t].bits) > 1,
                    wanted[t].clear /\ t \in Elems(waitList[Event])>>]
InHands == [k \in Blocks |-> IF InHand(k) # {} THEN contents[k] ELSE 0]
Errors == [t \in Threads |-> IF todo[t] = <<>> THEN "ok" ELSE error[t]]
Viewed == <<current, schedVars, lockNest, remaining, Due, waitList, defunct, Errors, todo,
            does, left, value, mutexVars, Mail, in, spent, permits, taken,
            set, Wanted, Messages, InHands, poolVars,
            IF does = Sleeping THEN tick ELSE 0>>
=============================================================================
