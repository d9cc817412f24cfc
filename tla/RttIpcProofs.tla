------------------------------ MODULE RttIpcProofs -----------------------------
(***************************************************************************)
(* Theorems about what threads of RT-Thread share: mailbox and message     *)
(* queue, semaphores, mutexes and memory pool, and about who is woken up   *)
(* for them.                                                               *)
(***************************************************************************)
EXTENDS RttProofs

-----------------------------------------------------------------------------
\* Which calls a step begins, goes on with or ends.

\* The call c is none, or one whose last section is one of K or none of interest.
Aside == {"schedule", "slept"}
Within(K, c) == c # <<>> => c[Len(c)][1] \in K \cup Aside
SameLast(c, d) == c = d \/ (c # <<>> /\ d # <<>> /\ c[Len(c)] = d[Len(d)])
Touches(K) ==
  \A t \in Threads : SameLast(todo[t], todo'[t]) \/ (Within(K, todo[t]) /\ Within(K, todo'[t]))

LEMMA LastFacts ==
  /\ \A K : Within(K, <<>>) /\ Within(K, <<Sch>>)
  /\ \A e : /\ <<e>> # <<>> /\ <<e>>[Len(<<e>>)] = e
            /\ <<Sch, e>> # <<>> /\ <<Sch, e>>[Len(<<Sch, e>>)] = e
  /\ \A K, e : e[1] \in K \cup Aside => Within(K, <<e>>) /\ Within(K, <<Sch, e>>)
  /\ \A K, u : /\ Within(K, <<<<"unlink", u>>, <<"insert", u>>, Sch>>)
               /\ Within(K, <<<<"insert", u>>, Sch>>)
  <1>1. Sch[1] = "schedule"
    BY DEF Sch
  <1>2. \A e : /\ <<e>> # <<>> /\ <<e>>[Len(<<e>>)] = e
               /\ <<Sch, e>> # <<>> /\ <<Sch, e>>[Len(<<Sch, e>>)] = e
    OBVIOUS
  <1>3. ASSUME NEW K, NEW e, e[1] \in K \cup Aside PROVE Within(K, <<e>>) /\ Within(K, <<Sch, e>>)
    BY <1>2, <1>3 DEF Within
  <1>4. ASSUME NEW K, NEW u
        PROVE  /\ Within(K, <<<<"unlink", u>>, <<"insert", u>>, Sch>>)
               /\ Within(K, <<<<"insert", u>>, Sch>>)
    <2>. DEFINE c == <<<<"unlink", u>>, <<"insert", u>>, Sch>>
                d == <<<<"insert", u>>, Sch>>
    <2>1. c[Len(c)] = Sch /\ d[Len(d)] = Sch
      OBVIOUS
    <2>. HIDE DEF c, d
    <2>2. Within(K, c) /\ Within(K, d)
      BY <1>1, <2>1 DEF Within, Aside
    <2>. QED
      BY <2>2 DEF c, d
  <1>5. \A K : Within(K, <<>>)
    BY DEF Within
  <1>6. \A K : Within(K, <<Sch>>)
    BY <1>1, <1>3 DEF Aside
  <1>. QED
    BY <1>2, <1>3, <1>4, <1>5, <1>6

LEMMA TouchGoes ==
  ASSUME ThreadInv, NEW K, NEW c, todo' = [todo EXCEPT ![current] = c],
         Within(K, todo[current]), Within(K, c)
  PROVE  Touches(K)
  <1>1. current \in Threads /\ todo = [t \in Threads |-> todo[t]]
    BY DEF ThreadInv, ListInv, CurrentRight, CallsRight
  <1>2. \A t \in Threads : todo'[t] = IF t = current THEN c ELSE todo[t]
    BY <1>1
  <1>. QED
    BY <1>2 DEF Touches, SameLast

LEMMA TouchStays ==
  ASSUME UNCHANGED todo, NEW K
  PROVE  Touches(K)
  BY DEF Touches, SameLast

LEMMA TouchCaller ==
  ASSUME ThreadInv, NEW K, Within(K, todo[current]), NEW b, CallerGoes(b)
  PROVE  Touches(K)
  <1>1. PICK c : todo' = [todo EXCEPT ![current] = c] /\ (c = <<>> \/ c = <<Sch>>)
    BY DEF CallerGoes, Sch
  <1>. QED
    BY <1>1, LastFacts, TouchGoes

LEMMA TouchSuspends ==
  ASSUME ThreadInv, NEW K, Within(K, todo[current]),
         NEW l, NEW w, NEW n, NEW r, NEW next, next[1] \in K, SuspendIn(l, w, n, r, next)
  PROVE  Touches(K)
  <1>. DEFINE c == <<Sch, next>>
  <1>1. todo' = [todo EXCEPT ![current] = c]
    BY DEF SuspendIn, Sch
  <1>2. Within(K, c)
    BY LastFacts
  <1>. HIDE DEF c
  <1>. QED
    BY <1>1, <1>2, TouchGoes

\* A section that comes last in its call.
LEMMA TouchAt ==
  ASSUME ThreadInv, NEW K, NEW s \in EndNames \cup WorkNames, At(s), s \in K \cup Aside
  PROVE  /\ Within(K, todo[current]) /\ todo[current] = <<todo[current][1]>>
         /\ Head(todo[current]) = todo[current][1] /\ todo[current][1][1] = s
         /\ Last(current) = todo[current][1] /\ todo[current] # <<>> /\ current \in Threads
         /\ \A m : m \o Tail(todo[current]) = m \o <<>>
         /\ stat[current] = "ready"
  <1>. DEFINE e == todo[current][1]
  <1>1. /\ todo[current] = <<e>> /\ e[1] = s /\ Head(todo[current]) = e /\ current \in Threads
        /\ \A m : m \o Tail(todo[current]) = m \o <<>>
        /\ stat[current] = "ready"
    BY LastSection
  <1>. HIDE DEF e
  <1>2. Within(K, <<e>>) /\ <<e>>[Len(<<e>>)] = e /\ <<e>> # <<>>
    BY <1>1, LastFacts
  <1>3. Last(current) = e
    BY <1>1, <1>2 DEF Last
  <1>. QED
    BY <1>1, <1>2, <1>3 DEF e

LEMMA TouchEnds ==
  ASSUME ThreadInv, NEW K, NEW s \in EndNames \cup WorkNames, At(s), s \in K \cup Aside,
         Then(<<>>)
  PROVE  Touches(K) /\ todo' = [todo EXCEPT ![current] = <<>>]
  <1>1. Within(K, todo[current]) /\ <<>> \o Tail(todo[current]) = <<>> \o <<>>
    BY TouchAt
  <1>2. todo' = [todo EXCEPT ![current] = <<>>]
    BY <1>1, RestFacts DEF Then
  <1>. QED
    BY <1>1, <1>2, LastFacts, TouchGoes

\* No call of interest begins or ends in the kernel.
LEMMA TouchKernel ==
  ASSUME ThreadInv, Section \/ Call
  PROVE  Touches({})
  <1>1. CASE Schedule
    <2>1. todo' = [todo EXCEPT ![current] = <<>> \o Tail(@)] /\ At("schedule")
      BY <1>1 DEF Schedule, Then
    <2>2. /\ current \in Threads /\ todo = [t \in Threads |-> todo[t]] /\ IsCall(todo[current])
          /\ todo[current] # <<>> /\ Head(todo[current])[1] = "schedule"
      BY <2>1 DEF At, ThreadInv, ListInv, CallsRight, CurrentRight
    <2>3. todo[current] = <<Sch>> \/ \E e : todo[current] = <<Sch, e>>
      BY <2>2, HeadFacts
    <2>4. SameLast(todo[current], <<>> \o Tail(todo[current]))
          \/ (Within({}, todo[current]) /\ Within({}, <<>> \o Tail(todo[current])))
      <3>1. CASE todo[current] = <<Sch>>
        BY <3>1, RestFacts, LastFacts
      <3>2. CASE \E e : todo[current] = <<Sch, e>>
        <4>1. PICK e : todo[current] = <<Sch, e>>
          BY <3>2
        <4>2. <<>> \o Tail(todo[current]) = <<e>>
          BY <4>1, RestFacts
        <4>. QED
          BY <4>1, <4>2, LastFacts DEF SameLast
      <3>. QED
        BY <2>3, <3>1, <3>2
    <2>5. \A t \in Threads : todo'[t] = IF t = current THEN <<>> \o Tail(todo[t]) ELSE todo[t]
      BY <2>1, <2>2
    <2>. QED
      BY <2>4, <2>5 DEF Touches, SameLast
  <1>2. CASE Slept
    BY <1>2, TouchEnds DEF Slept, EndNames, Aside
  <1>3. ~SuspendNow /\ ~RemoveNow /\ ~StopNow /\ ~CloseNow
    <2>1. \A s : At(s) /\ s # "schedule" => s \notin {"suspend", "remove", "stop", "close"}
      BY SectionFacts, HeadFacts
    <2>. QED
      BY <2>1 DEF SuspendNow, RemoveNow, StopNow, CloseNow
  <1>4. CASE UnlinkNow
    <2>1. /\ todo' = [todo EXCEPT ![current] = <<>> \o Tail(@)] /\ At("unlink")
      BY <1>4 DEF UnlinkNow, Then
    <2>2. /\ IsCall(todo[current]) /\ todo[current] # <<>> /\ todo[current][1][1] = "unlink"
      BY <2>1, SectionFacts
    <2>3. PICK u \in Threads : todo[current] = <<<<"unlink", u>>, <<"insert", u>>, Sch>>
      BY <2>2, HeadFacts
    <2>4. <<>> \o Tail(todo[current]) = <<<<"insert", u>>, Sch>>
      BY <2>3, RestFacts
    <2>. DEFINE c == <<<<"insert", u>>, Sch>>
    <2>5. todo' = [todo EXCEPT ![current] = c]
      BY <2>1, <2>4
    <2>6. Within({}, c)
      BY LastFacts
    <2>7. Within({}, todo[current])
      <3>1. Within({}, <<<<"unlink", u>>, <<"insert", u>>, Sch>>)
        BY LastFacts
      <3>. QED
        BY <2>3, <3>1
    <2>. HIDE DEF c
    <2>. QED
      BY <2>5, <2>6, <2>7, TouchGoes
  <1>5. CASE InsertNow
    <2>1. todo' = [todo EXCEPT ![current] = <<>> \o Tail(@)] /\ At("insert")
      BY <1>5 DEF InsertNow, Then
    <2>2. IsCall(todo[current]) /\ todo[current] # <<>> /\ todo[current][1][1] = "insert"
      BY <2>1, SectionFacts
    <2>3. PICK u \in Threads : todo[current] = <<<<"insert", u>>, Sch>>
      BY <2>2, HeadFacts
    <2>4. <<>> \o Tail(todo[current]) = <<Sch>>
      BY <2>3
    <2>5. todo' = [todo EXCEPT ![current] = <<Sch>>]
      BY <2>1, <2>4
    <2>6. Within({}, todo[current])
      <3>1. Within({}, <<<<"insert", u>>, Sch>>)
        BY LastFacts
      <3>. QED
        BY <2>3, <3>1
    <2>. QED
      BY <2>5, <2>6, LastFacts, TouchGoes
  <1>6. CASE EnterCritical \/ IdleCleanup
    BY <1>6, TouchStays DEF EnterCritical, IdleCleanup, threadVars
  <1>7. CASE ExitCritical \/ Yield \/ Exit
    <2>1. PICK c : todo' = [todo EXCEPT ![current] = c] /\ (c = <<>> \/ c = <<Sch>>)
      BY <1>7 DEF ExitCritical, Yield, Exit, Goes, Sch
    <2>2. todo[current] = <<>>
      BY <1>7 DEF ExitCritical, Yield, Exit, Calls
    <2>. QED
      BY <2>1, <2>2, LastFacts, TouchGoes
  <1>8. ASSUME NEW n \in WaitTimes, Sleep(n) PROVE Touches({})
    <2>. DEFINE e == <<"slept">>
    <2>1. todo' = [todo EXCEPT ![current] = <<Sch, e>>] /\ todo[current] = <<>>
      BY <1>8 DEF Sleep, Goes, Sch, Calls
    <2>2. e[1] \in {} \cup Aside
      BY DEF Aside
    <2>. HIDE DEF e
    <2>3. Within({}, <<Sch, e>>) /\ Within({}, todo[current])
      BY <2>1, <2>2, LastFacts
    <2>. DEFINE c == <<Sch, e>>
    <2>4. todo' = [todo EXCEPT ![current] = c] /\ Within({}, c)
      BY <2>1, <2>3
    <2>. HIDE DEF c
    <2>. QED
      BY <2>3, <2>4, TouchGoes
  <1>9. ASSUME NEW u \in Threads, Startup(u) PROVE Touches({})
    <2>1. /\ todo' = [todo EXCEPT ![current] = <<<<"unlink", u>>, <<"insert", u>>, Sch>>]
          /\ todo[current] = <<>>
      BY <1>9 DEF Startup, AboutThread, Goes, Sch, Calls
    <2>. QED
      BY <2>1, LastFacts, TouchGoes
  <1>10. \A u \in Threads : /\ ~Suspend(u) /\ ~Resume(u) /\ ~Detach(u)
                            /\ \A p \in Prios : ~ChangePriority(u, p)
    <2>1. ~Calls("suspend") /\ ~Calls("detach") /\ ~Calls("priority")
      BY CallerFacts
    <2>. QED
      BY <2>1 DEF Suspend, Resume, Detach, ChangePriority, AboutThread
  <1>. QED
    BY <1>1, <1>2, <1>3, <1>4, <1>5, <1>6, <1>7, <1>8, <1>9, <1>10 DEF Section, Call

\* More sections are of interest.
LEMMA TouchMore ==
  ASSUME NEW K, NEW L, K \subseteq L, Touches(K)
  PROVE  Touches(L)
  <1>1. \A c : Within(K, c) => Within(L, c)
    BY DEF Within
  <1>. QED
    BY <1>1 DEF Touches

\* A call begins to wait, or a resumed one goes on.
LEMMA TouchBegins ==
  ASSUME ThreadInv, todo[current] = <<>>, NEW K, NEW next, next[1] \in K,
         NEW l, NEW n, NEW r, SuspendOn(l, n, r, next)
  PROVE  Touches(K)
  <1>1. Within(K, todo[current])
    BY LastFacts
  <1>. QED
    BY <1>1, TouchSuspends DEF SuspendOn

LEMMA TouchLoop ==
  ASSUME ThreadInv, NEW s \in Looping, At(s), NEW l, NEW m, NEW w, NEW n, NEW refused, NEW next,
         next[1] = s, Fails(refused, n) \/ Works(l) \/ WaitsAgain(m, w, next)
  PROVE  Touches({s})
  <1>1. s \in EndNames \cup WorkNames /\ s \in {s} \cup Aside
    BY DEF Looping, EndNames
  <1>2. CASE Fails(refused, n)
    BY <1>1, <1>2, TouchEnds DEF Fails
  <1>3. Within({s}, todo[current])
    BY <1>1, TouchAt
  <1>4. CASE Works(l)
    BY <1>3, <1>4, TouchCaller DEF Works
  <1>5. CASE WaitsAgain(m, w, next)
    BY <1>3, <1>5, TouchSuspends DEF WaitsAgain, SuspendOn
  <1>. QED
    BY <1>2, <1>4, <1>5

LEMMA TouchReturns ==
  ASSUME ThreadInv, todo[current] = <<>>, NEW b, CallerGoes(b), NEW K
  PROVE  Touches(K)
  BY LastFacts, TouchCaller

\* The sections of RttIpc.
LEMMA TouchSemTake ==
  ASSUME ThreadInv, NEW s, NEW n, SemTake(s, n)
  PROVE  Touches({"sem_end"})
  <1>1. CASE UNCHANGED todo
    BY <1>1, TouchStays
  <1>2. CASE SuspendOn(s, n, ready, <<"sem_end", s>>)
    <2>. DEFINE next == <<"sem_end", s>>
    <2>1. next[1] \in {"sem_end"} /\ SuspendOn(s, n, ready, next)
      BY <1>2
    <2>2. todo[current] = <<>>
      BY DEF SemTake, Calls
    <2>. HIDE DEF next
    <2>. QED
      BY <2>1, <2>2, TouchBegins
  <1>. QED
    BY <1>1, <1>2 DEF SemTake

LEMMA TouchMutexTake ==
  ASSUME ThreadInv, NEW m, NEW n, MutexTakeAgain(m) \/ MutexTakeFree(m) \/ MutexTakeWait(m, n)
  PROVE  Touches({"mutex_end"})
  <1>1. CASE MutexTakeAgain(m) \/ MutexTakeFree(m)
    <2>1. UNCHANGED todo
      BY <1>1 DEF MutexTakeAgain, MutexTakeFree
    <2>. QED
      BY <2>1, TouchStays
  <1>2. CASE MutexTakeWait(m, n)
    <2>. DEFINE next == <<"mutex_end", m>>
    <2>1. PICK r : SuspendOn(m, n, r, next)
      BY <1>2 DEF MutexTakeWait
    <2>2. next[1] \in {"mutex_end"} /\ todo[current] = <<>>
      BY <1>2 DEF MutexTakeWait, MayTake, Calls
    <2>. HIDE DEF next
    <2>. QED
      BY <2>1, <2>2, TouchBegins
  <1>. QED
    BY <1>1, <1>2

LEMMA TouchGives ==
  ASSUME ThreadInv, NEW K, NEW s, NEW n,
         SemRelease(s) \/ SemReleaseISR(s) \/ SemReset(s, n) \/ MutexRelease(s) \/ BoxReset
           \/ EventReset \/ MqReset \/ MpFree
  PROVE  Touches(K)
  <1>1. CASE SemReleaseISR(s)
    BY <1>1, TouchStays DEF SemReleaseISR, HandlerGoes
  <1>2. CASE ~SemReleaseISR(s)
    <2>1. todo[current] = <<>> /\ \E b : CallerGoes(b)
      BY <1>2 DEF SemRelease, SemReset, MutexRelease, BoxReset, EventReset, MqReset, MpFree, Calls
    <2>. QED
      BY <2>1, TouchReturns
  <1>. QED
    BY <1>1, <1>2

LEMMA TouchEnd ==
  ASSUME ThreadInv
  PROVE  /\ SemEnd => Touches({"sem_end"})
         /\ MutexEnd => Touches({"mutex_end"})
         /\ EventEnd => Touches({"event_end"})
         /\ \A how \in Ways : MqLink(how) => Touches(Ways)
         /\ MqCopied => Touches({"mq_copy"})
  <1>1. /\ SemEnd => Touches({"sem_end"})
        /\ MutexEnd => Touches({"mutex_end"})
        /\ EventEnd => Touches({"event_end"})
        /\ MqCopied => Touches({"mq_copy"})
    BY TouchEnds DEF SemEnd, MutexEnd, EventEnd, MqCopied, EndNames, WorkNames
  <1>2. ASSUME NEW how \in Ways, MqLink(how) PROVE Touches(Ways)
    <2>1. how \in WorkNames /\ At(how) /\ CallerGoes(waitList[Queue] # <<>>)
      BY <1>2 DEF MqLink, Ways, WorkNames
    <2>2. Within(Ways, todo[current])
      BY <2>1, TouchAt
    <2>. QED
      BY <2>1, <2>2, TouchCaller
  <1>. QED
    BY <1>1, <1>2

LEMMA TouchMail ==
  ASSUME ThreadInv, NEW x, NEW n, Send(x, n) \/ SendISR(x) \/ Receive(n)
  PROVE  Touches({"send_again", "recv_again"})
  <1>. DEFINE K == {"send_again", "recv_again"}
              a == <<"send_again", x, n>>
              b == <<"recv_again", n>>
  <1>1. a[1] \in K /\ b[1] \in K
    OBVIOUS
  <1>2. CASE SendISR(x)
    BY <1>2, TouchStays DEF SendISR, HandlerGoes
  <1>3. CASE Send(x, n) \/ Receive(n)
    <2>1. /\ todo[current] = <<>>
          /\ \/ \E q : CallerGoes(q)
             \/ SuspendOn(Senders, n, ready, a) \/ SuspendOn(Receivers, n, ready, b)
      BY <1>3 DEF Send, Receive, Calls
    <2>. HIDE DEF a, b, K
    <2>2. Touches(K)
      BY <1>1, <2>1, TouchReturns, TouchBegins
    <2>. QED
      BY <2>2 DEF K
  <1>. QED
    BY <1>2, <1>3

LEMMA TouchMailAgain ==
  ASSUME ThreadInv, SendAgain \/ ReceiveAgain
  PROVE  Touches({"send_again", "recv_again"})
  <1>. DEFINE x == Head(todo[current])[2]
              n == Head(todo[current])[3]
              a == <<"send_again", x, WaitLeft(n)>>
              b == <<"recv_again", WaitLeft(x)>>
  <1>1. a[1] = "send_again" /\ b[1] = "recv_again"
    OBVIOUS
  <1>2. \A s \in {"send_again", "recv_again"} : s \in Looping
    BY DEF Looping
  <1>3. CASE SendAgain
    <2>1. /\ At("send_again")
          /\ Fails(entry = BoxSize, n) \/ Works(Receivers) \/ WaitsAgain(Senders, WaitLeft(n), a)
      BY <1>3 DEF SendAgain
    <2>. HIDE DEF a, n
    <2>2. Touches({"send_again"})
      BY <1>1, <1>2, <2>1, TouchLoop
    <2>. QED
      BY <2>2, TouchMore
  <1>4. CASE ReceiveAgain
    <2>1. /\ At("recv_again")
          /\ Fails(entry = 0, x) \/ Works(Senders) \/ WaitsAgain(Receivers, WaitLeft(x), b)
      BY <1>4 DEF ReceiveAgain
    <2>. HIDE DEF b, x
    <2>2. Touches({"recv_again"})
      BY <1>1, <1>2, <2>1, TouchLoop
    <2>. QED
      BY <2>2, TouchMore
  <1>. QED
    BY <1>3, <1>4

\* All steps of RttIpc and RttKernel.
IpcEnds == {"sem_end", "mutex_end", "send_again", "recv_again"}
LEMMA TouchIpc ==
  ASSUME ThreadInv, IpcNext
  PROVE  Touches(IpcEnds)
  <1>0. /\ {} \subseteq IpcEnds /\ {"sem_end"} \subseteq IpcEnds /\ {"mutex_end"} \subseteq IpcEnds
        /\ {"send_again", "recv_again"} \subseteq IpcEnds
    BY DEF IpcEnds
  <1>1. CASE TickOfAll
    BY <1>1, TouchStays DEF TickOfAll, Tick
  <1>2. CASE InCall
    BY <1>0, <1>2, TouchKernel, TouchEnd, TouchMailAgain, TouchMore DEF InCall
  <1>3. CASE ApplicationCall
    <2>1. CASE Call
      BY <1>0, <2>1, TouchKernel, TouchMore
    <2>2. CASE \E s \in Sems : \/ SemRelease(s)
                               \/ \E n \in WaitTimes \cup {Forever} : SemTake(s, n)
                               \/ \E n \in 0 .. MaxPermits : SemReset(s, n)
      BY <1>0, <2>2, TouchGives, TouchSemTake, TouchMore
    <2>3. CASE \E m \in Mutexes : \/ MutexTakeAgain(m) \/ MutexTakeFree(m) \/ MutexRelease(m)
                                  \/ \E n \in WaitTimes \cup {Forever} : MutexTakeWait(m, n)
      BY <1>0, <2>3, TouchGives, TouchMutexTake, TouchMore
    <2>4. CASE \E n \in WaitTimes \cup {Forever} : Receive(n) \/ \E x \in Msgs : Send(x, n)
      BY <1>0, <2>4, TouchMail, TouchMore
    <2>5. CASE BoxReset
      BY <2>5, TouchGives
    <2>. QED
      BY <1>3, <2>1, <2>2, <2>3, <2>4, <2>5 DEF ApplicationCall
  <1>4. CASE Handler
    BY <1>0, <1>4, TouchGives, TouchMail, TouchMore DEF Handler
  <1>. QED
    BY <1>1, <1>2, <1>3, <1>4 DEF IpcNext

\* Of RttMessages.
LEMMA TouchEvent ==
  ASSUME ThreadInv, NEW s, NEW all, NEW clear, NEW n,
         EventSend(s) \/ EventSendISR(s) \/ EventRecv(s, all, clear, n)
  PROVE  Touches({"event_end"})
  <1>1. CASE EventSend(s)
    BY <1>1, TouchReturns DEF EventSend, Calls
  <1>2. CASE EventSendISR(s)
    BY <1>2, TouchStays DEF EventSendISR, HandlerGoes
  <1>3. CASE EventRecv(s, all, clear, n)
    <2>. DEFINE next == <<"event_end", s>>
    <2>1. /\ todo[current] = <<>> /\ next[1] \in {"event_end"}
          /\ UNCHANGED todo \/ SuspendOn(Event, n, ready, next)
      BY <1>3 DEF EventRecv, Calls
    <2>. HIDE DEF next
    <2>. QED
      BY <2>1, TouchStays, TouchBegins
  <1>. QED
    BY <1>1, <1>2, <1>3

LEMMA TouchPool ==
  ASSUME ThreadInv, NEW n, MpAlloc(n) \/ MpWoken \/ MpAgain
  PROVE  Touches({"mp_woken", "mp_again"})
  <1>. DEFINE K == {"mp_woken", "mp_again"}
              w == Head(todo[current])[2]
              a == <<"mp_woken", n>>
              b == <<"mp_woken", w>>
              e == <<"mp_again", WaitLeft(w)>>
              c == IF error[current] = "ok" THEN <<e>> ELSE <<>>
  <1>1. a[1] \in K /\ b[1] \in K /\ e[1] \in K \cup Aside
    OBVIOUS
  <1>2. CASE MpAlloc(n)
    <2>1. /\ todo[current] = <<>>
          /\ \/ UNCHANGED todo
             \/ SuspendIn(Pool, <<current>> \o waitList[Pool], n, ready, a)
      BY <1>2 DEF MpAlloc, Calls, WaitForBlock
    <2>. HIDE DEF a, K
    <2>2. Within(K, todo[current])
      BY <2>1, LastFacts
    <2>. QED
      BY <1>1, <2>1, <2>2, TouchStays, TouchSuspends DEF K
  <1>3. CASE MpWoken
    <2>1. At("mp_woken") /\ todo' = [todo EXCEPT ![current] = c \o Tail(@)]
      BY <1>3 DEF MpWoken, Then
    <2>2. "mp_woken" \in EndNames \cup WorkNames /\ "mp_woken" \in K \cup Aside
      BY DEF EndNames
    <2>3. c = <<e>> \/ c = <<>>
      OBVIOUS
    <2>. HIDE DEF c, e, K
    <2>4. Within(K, todo[current]) /\ c \o Tail(todo[current]) = c \o <<>>
      BY <2>1, <2>2, TouchAt
    <2>5. todo' = [todo EXCEPT ![current] = c] /\ Within(K, c)
      BY <1>1, <2>1, <2>3, <2>4, RestFacts, LastFacts
    <2>. QED
      BY <2>4, <2>5, TouchGoes DEF K
  <1>4. CASE MpAgain
    <2>1. /\ At("mp_again")
          /\ Then(<<>>) \/ SuspendIn(Pool, <<current>> \o waitList[Pool], w, ready, b)
      BY <1>4 DEF MpAgain, WaitForBlock
    <2>2. "mp_again" \in EndNames \cup WorkNames /\ "mp_again" \in K \cup Aside
      BY DEF WorkNames
    <2>. HIDE DEF b, w, K
    <2>3. Within(K, todo[current])
      BY <2>1, <2>2, TouchAt
    <2>4. Touches(K)
      BY <1>1, <2>1, <2>2, <2>3, TouchEnds, TouchSuspends
    <2>. QED
      BY <2>4 DEF K
  <1>. QED
    BY <1>2, <1>3, <1>4
-----------------------------------------------------------------------------
\* The mailbox.

BoxInv ==
  /\ pool \in [0 .. BoxSize - 1 -> Msgs]
  /\ out \in 0 .. BoxSize - 1 /\ entry \in 0 .. BoxSize
  /\ in = (out + entry) % BoxSize

\* Going round in it.
LEMMA RoundFacts ==
  ASSUME NEW B \in Nat \ {0}, NEW a \in 0 .. B - 1, NEW k \in 0 .. B
  PROVE  /\ (a + k) % B = IF a + k < B THEN a + k ELSE a + k - B
         /\ (a + k) % B \in 0 .. B - 1
  <1>1. CASE a + k < B
    BY <1>1
  <1>2. CASE a + k >= B
    <2>1. a + k - B \in 0 .. B - 1
      BY <1>2
    <2>2. (a + k) % B = a + k - B
      BY <1>2, <2>1
    <2>. QED
      BY <1>2, <2>1, <2>2
  <1>. QED
    BY <1>1, <1>2

LEMMA AdvancedFacts ==
  ASSUME NEW a \in 0 .. BoxSize - 1
  PROVE  /\ Advanced(a) = IF a + 1 < BoxSize THEN a + 1 ELSE a + 1 - BoxSize
         /\ Advanced(a) \in 0 .. BoxSize - 1
  <1>1. BoxSize \in Nat \ {0}
    BY IpcAssumption
  <1>. QED
    BY <1>1 DEF Advanced

LEMMA MailFacts ==
  ASSUME BoxInv
  PROVE  /\ Mail \in Seq(Msgs) /\ Len(Mail) = entry
         /\ \A i \in 1 .. entry : Mail[i] = pool[(out + i - 1) % BoxSize]
  <1>1. BoxSize \in Nat \ {0}
    BY IpcAssumption
  <1>2. entry \in Nat /\ DOMAIN Mail = 1 .. entry
    BY <1>1 DEF BoxInv, Mail
  <1>3. ASSUME NEW i \in 1 .. entry PROVE pool[(out + i - 1) % BoxSize] \in Msgs
    <2>1. i - 1 \in 0 .. BoxSize /\ out + (i - 1) = out + i - 1
      BY <1>1 DEF BoxInv
    <2>2. (out + (i - 1)) % BoxSize \in 0 .. BoxSize - 1
      BY <1>1, <2>1, RoundFacts DEF BoxInv
    <2>. QED
      BY <2>1, <2>2 DEF BoxInv
  <1>. QED
    BY <1>2, <1>3 DEF Mail

LEMMA PutFacts ==
  ASSUME BoxInv, entry < BoxSize, NEW x \in Msgs, Put(x)
  PROVE  BoxInv' /\ Len(Mail) < BoxSize /\ Mail' = Append(Mail, x)
  <1>1. BoxSize \in Nat \ {0}
    BY IpcAssumption
  <1>2. PICK B \in Nat \ {0}, o \in 0 .. BoxSize - 1, k \in 0 .. BoxSize :
          B = BoxSize /\ o = out /\ k = entry
    BY <1>1 DEF BoxInv
  <1>3. /\ out' = o /\ entry' = k + 1 /\ k < B /\ in = (o + k) % B /\ in \in 0 .. B - 1
        /\ pool' = [pool EXCEPT ![in] = x] /\ in' = Advanced(in)
    BY <1>2, RoundFacts DEF BoxInv, Put
  <1>4. in = IF o + k < B THEN o + k ELSE o + k - B
    BY <1>2, <1>3, RoundFacts
  <1>5. in' = IF in + 1 < B THEN in + 1 ELSE in + 1 - B
    BY <1>2, <1>3, AdvancedFacts
  <1>6. (o + (k + 1)) % B = IF o + (k + 1) < B THEN o + (k + 1) ELSE o + (k + 1) - B
    <2>1. k + 1 \in 0 .. B
      BY <1>2, <1>3
    <2>. QED
      BY <1>2, <2>1, RoundFacts
  <1>7. in' = (o + (k + 1)) % B
    BY <1>2, <1>3, <1>4, <1>5, <1>6
  <1>8. pool' \in [0 .. B - 1 -> Msgs] /\ pool'[in] = x
        /\ \A j \in 0 .. B - 1 : j # in => pool'[j] = pool[j]
    BY <1>2, <1>3 DEF BoxInv
  <1>9. BoxInv'
    <2>1. entry' \in 0 .. BoxSize /\ out' \in 0 .. BoxSize - 1
      BY <1>2, <1>3
    <2>2. in' = (out' + entry') % BoxSize
      BY <1>2, <1>3, <1>7
    <2>. QED
      BY <1>2, <1>8, <2>1, <2>2 DEF BoxInv
  <1>10. Mail \in Seq(Msgs) /\ Len(Mail) = k /\ \A i \in 1 .. k : Mail[i] = pool[(o + i - 1) % B]
    BY <1>2, MailFacts
  <1>11. Mail' = [i \in 1 .. k + 1 |-> pool'[(o + i - 1) % B]]
    BY <1>2, <1>3 DEF Mail
  <1>12. ASSUME NEW i \in 1 .. k PROVE Mail'[i] = Mail[i]
    <2>1. i - 1 \in 0 .. B /\ o + (i - 1) = o + i - 1 /\ i \in 1 .. k + 1
      BY <1>2
    <2>2. /\ (o + (i - 1)) % B = IF o + (i - 1) < B THEN o + (i - 1) ELSE o + (i - 1) - B
          /\ (o + (i - 1)) % B \in 0 .. B - 1
      BY <1>2, <2>1, RoundFacts
    <2>3. (o + (i - 1)) % B # in
      BY <1>2, <1>3, <1>4, <2>2
    <2>. QED
      BY <1>8, <1>10, <1>11, <2>1, <2>2, <2>3
  <1>13. Mail'[k + 1] = x
    <2>1. k + 1 \in 1 .. k + 1 /\ o + (k + 1) - 1 = o + k
      BY <1>2
    <2>. QED
      BY <1>3, <1>8, <1>11, <2>1
  <1>14. Mail' = Append(Mail, x)
    <2>. DEFINE y == Mail'
                z == Append(Mail, x)
                v == Mail
    <2>1. /\ z \in Seq(Msgs) /\ Len(z) = k + 1 /\ z[k + 1] = x
          /\ \A i \in 1 .. k : z[i] = v[i]
      BY <1>2, <1>10, AppendProperties
    <2>2. y \in Seq(Msgs) /\ Len(y) = k + 1 /\ y[k + 1] = x /\ \A i \in 1 .. k : y[i] = v[i]
      <3>1. \A i \in 1 .. k + 1 : i \in 1 .. k \/ i = k + 1
        BY <1>2
      <3>2. \A i \in 1 .. k : Mail[i] \in Msgs
        BY <1>10, ElementOfSeq
      <3>3. \A i \in 1 .. k + 1 : Mail'[i] \in Msgs
        BY <1>12, <1>13, <3>1, <3>2
      <3>4. k + 1 \in Nat /\ DOMAIN Mail' = 1 .. k + 1
        BY <1>2, <1>11
      <3>5. Mail' = [i \in 1 .. k + 1 |-> Mail'[i]]
        BY <1>11
      <3>6. Mail' \in [1 .. k + 1 -> Msgs]
        BY <3>3, <3>5
      <3>7. y \in Seq(Msgs) /\ Len(y) = k + 1
        BY <3>4, <3>6
      <3>. QED
        BY <1>12, <1>13, <3>7
    <2>. HIDE DEF y, z, v
    <2>3. \A i \in 1 .. k + 1 : y[i] = z[i]
      <3>1. \A i \in 1 .. k + 1 : i \in 1 .. k \/ i = k + 1
        BY <1>2
      <3>. QED
        BY <2>1, <2>2, <3>1
    <2>4. y = z
      BY <2>1, <2>2, <2>3, SeqEqual
    <2>. QED
      BY <2>4 DEF y, z
  <1>. QED
    BY <1>2, <1>3, <1>9, <1>10, <1>14

LEMMA GetFacts ==
  ASSUME BoxInv, entry > 0, Get
  PROVE  BoxInv' /\ Mail # <<>> /\ Mail' = Tail(Mail) /\ received' = Head(Mail)
  <1>1. BoxSize \in Nat \ {0}
    BY IpcAssumption
  <1>2. PICK B \in Nat \ {0}, o \in 0 .. BoxSize - 1, k \in 0 .. BoxSize :
          B = BoxSize /\ o = out /\ k = entry
    BY <1>1 DEF BoxInv
  <1>3. /\ out' = Advanced(o) /\ entry' = k - 1 /\ k > 0 /\ in' = in /\ in = (o + k) % B
        /\ UNCHANGED pool /\ received' = pool[o]
    BY <1>2 DEF BoxInv, Get
  <1>4. PICK q \in 0 .. B - 1 : q = out' /\ q = IF o + 1 < B THEN o + 1 ELSE o + 1 - B
    BY <1>2, <1>3, AdvancedFacts
  <1>5. ASSUME NEW j \in 0 .. B - 1 PROVE (q + j) % B = (o + (j + 1)) % B
    <2>0. j \in 0 .. B
      BY <1>2
    <2>1. /\ (q + j) % B = IF q + j < B THEN q + j ELSE q + j - B
      BY <1>2, <2>0, RoundFacts
    <2>2. j + 1 \in 0 .. B
      BY <1>2
    <2>3. (o + (j + 1)) % B = IF o + (j + 1) < B THEN o + (j + 1) ELSE o + (j + 1) - B
      BY <1>2, <2>2, RoundFacts
    <2>. QED
      BY <1>2, <1>4, <2>1, <2>3
  <1>6. BoxInv'
    <2>1. k - 1 \in 0 .. B - 1 /\ k - 1 + 1 = k
      BY <1>2, <1>3
    <2>2. (q + (k - 1)) % B = (o + k) % B
      BY <1>5, <2>1
    <2>. QED
      BY <1>2, <1>3, <1>4, <2>1, <2>2 DEF BoxInv
  <1>7. Mail \in Seq(Msgs) /\ Len(Mail) = k /\ \A i \in 1 .. k : Mail[i] = pool[(o + i - 1) % B]
    BY <1>2, MailFacts
  <1>8. Mail' = [i \in 1 .. k - 1 |-> pool[(q + i - 1) % B]]
    BY <1>2, <1>3, <1>4 DEF Mail
  <1>10. ASSUME NEW i \in 1 .. k - 1 PROVE Mail'[i] = Mail[i + 1]
    <2>1. /\ i - 1 \in 0 .. B - 1 /\ q + (i - 1) = q + i - 1 /\ i + 1 \in 1 .. k
          /\ o + ((i - 1) + 1) = o + (i + 1) - 1
      BY <1>2
    <2>2. (q + (i - 1)) % B = (o + ((i - 1) + 1)) % B
      BY <1>5, <2>1
    <2>. QED
      BY <1>7, <1>8, <2>1, <2>2
  <1>11. Mail' = Tail(Mail)
    <2>. DEFINE y == Mail'
                z == Tail(Mail)
                v == Mail
    <2>1. /\ z \in Seq(Msgs) /\ Len(z) = k - 1 /\ \A i \in 1 .. k - 1 : z[i] = v[i + 1]
      <3>1. Mail # <<>>
        BY <1>2, <1>3, <1>7
      <3>. QED
        BY <1>7, <3>1, HeadTailProperties
    <2>2. y \in Seq(Msgs) /\ Len(y) = k - 1 /\ \A i \in 1 .. k - 1 : y[i] = v[i + 1]
      <3>1. \A i \in 1 .. k - 1 : i + 1 \in 1 .. k
        BY <1>2
      <3>2. \A i \in 1 .. k - 1 : Mail'[i] \in Msgs
        BY <1>7, <1>10, <3>1, ElementOfSeq
      <3>3. k - 1 \in Nat
        BY <1>2, <1>3
      <3>. QED
        BY <1>8, <1>10, <3>2, <3>3
    <2>. HIDE DEF y, z, v
    <2>3. y = z
      BY <2>1, <2>2, SeqEqual
    <2>. QED
      BY <2>3 DEF y, z
  <1>12. Mail # <<>> /\ Head(Mail) = pool[o]
    <2>1. 1 \in 1 .. k /\ o + 1 - 1 = o /\ o % B = o
      BY <1>2, <1>3
    <2>2. Mail[1] = pool[o]
      BY <1>7, <2>1
    <2>. QED
      BY <1>2, <1>3, <1>7, <2>2
  <1>. QED
    BY <1>3, <1>6, <1>11, <1>12

\* What a step may do to the box.
BoxStep ==
  \/ UNCHANGED Mail
  \/ Len(Mail) < BoxSize /\ \E x \in Msgs : Mail' = Append(Mail, x)
  \/ Mail # <<>> /\ Mail' = Tail(Mail) /\ received' = Head(Mail)
  \/ BoxReset

LEMMA BoxStays ==
  ASSUME BoxInv, UNCHANGED boxVars
  PROVE  BoxInv' /\ BoxStep
  BY DEF BoxInv, BoxStep, Mail, boxVars

LEMMA BoxGains ==
  ASSUME BoxInv, entry < BoxSize, NEW x \in Msgs, Put(x)
  PROVE  BoxInv' /\ BoxStep
  BY PutFacts DEF BoxStep

LEMMA BoxLoses ==
  ASSUME BoxInv, entry > 0, Get
  PROVE  BoxInv' /\ BoxStep
  BY GetFacts DEF BoxStep

LEMMA BoxIpc ==
  ASSUME ThreadInv, BoxInv, IpcNext
  PROVE  BoxInv' /\ BoxStep
  <1>1. CASE TickOfAll
    BY <1>1, BoxStays DEF TickOfAll
  <1>2. CASE InCall
    <2>1. CASE (Section /\ UNCHANGED ipcVars) \/ SemEnd \/ MutexEnd
      BY <2>1, BoxStays DEF ipcVars, SemEnd, MutexEnd
    <2>2. CASE SendAgain
      <3>. DEFINE x == Head(todo[current])[2]
                  n == Head(todo[current])[3]
      <3>1. \/ entry < BoxSize /\ Put(x)
            \/ Fails(entry = BoxSize, n)
            \/ WaitsAgain(Senders, WaitLeft(n), <<"send_again", x, WaitLeft(n)>>)
        BY <2>2 DEF SendAgain
      <3>2. x \in Msgs
        <4>. DEFINE e == todo[current][1]
        <4>1. At("send_again") /\ "send_again" \in EndNames
          BY <2>2 DEF SendAgain, EndNames
        <4>2. Head(todo[current]) = e /\ e[1] = "send_again" /\ IsEnd(e)
          BY <4>1, LastSection
        <4>3. <<"slept">>[1] = "slept"
          OBVIOUS
        <4>. HIDE DEF e
        <4>4. e[2] \in Msgs
          BY <4>2, <4>3 DEF IsEnd
        <4>. QED
          BY <4>2, <4>4
      <3>. HIDE DEF x, n
      <3>. QED
        BY <3>1, <3>2, BoxGains, BoxStays DEF Fails, WaitsAgain
    <2>3. CASE ReceiveAgain
      BY <2>3, BoxLoses, BoxStays DEF ReceiveAgain, Fails, WaitsAgain
    <2>. QED
      BY <1>2, <2>1, <2>2, <2>3 DEF InCall
  <1>3. CASE ApplicationCall
    <2>1. CASE Call /\ UNCHANGED ipcVars
      BY <2>1, BoxStays DEF ipcVars
    <2>2. ASSUME NEW s, NEW n, SemRelease(s) \/ SemTake(s, n) \/ SemReset(s, n)
          PROVE  BoxInv' /\ BoxStep
      BY <2>2, BoxStays DEF SemRelease, SemTake, SemReset
    <2>3. ASSUME NEW m, NEW n,
                 MutexTakeAgain(m) \/ MutexTakeFree(m) \/ MutexRelease(m) \/ MutexTakeWait(m, n)
          PROVE  BoxInv' /\ BoxStep
      <3>1. UNCHANGED boxVars
        BY <2>3 DEF MutexTakeAgain, MutexTakeFree, MutexRelease, MutexTakeWait
      <3>. QED
        BY <3>1, BoxStays
    <2>4. ASSUME NEW n, NEW x \in Msgs, Receive(n) \/ Send(x, n) PROVE BoxInv' /\ BoxStep
      BY <2>4, BoxGains, BoxLoses, BoxStays DEF Receive, Send
    <2>5. ASSUME NEW n, Receive(n) PROVE BoxInv' /\ BoxStep
      BY <2>5, BoxLoses, BoxStays DEF Receive
    <2>6. CASE BoxReset
      <3>1. in' = 0 /\ out' = 0 /\ entry' = 0 /\ UNCHANGED pool
        BY <2>6 DEF BoxReset
      <3>2. BoxSize \in Nat \ {0} /\ 0 % BoxSize = 0
        BY IpcAssumption
      <3>. QED
        BY <2>6, <3>1, <3>2 DEF BoxInv, BoxStep
    <2>. QED
      BY <1>3, <2>1, <2>2, <2>3, <2>4, <2>5, <2>6 DEF ApplicationCall
  <1>4. CASE Handler
    BY <1>4, BoxStays, BoxGains DEF Handler, SemReleaseISR, SendISR
  <1>. QED
    BY <1>1, <1>2, <1>3, <1>4 DEF IpcNext

LEMMA BoxMessages ==
  ASSUME BoxInv, MsgInCall \/ MsgCall \/ MsgHandler
  PROVE  BoxInv' /\ BoxStep
  <1>1. UNCHANGED boxVars
    <2>1. CASE MsgInCall
      BY <2>1 DEF MsgInCall, EventEnd, MqLink, MqReceiveAgain, Fails, WaitsAgain, MqCopied, MpWoken,
                  MpAgain, ipcVars
    <2>2. CASE MsgCall
      BY <2>2 DEF MsgCall, EventSend, EventRecv, EventReset, MqSend, MqReceive, MpAlloc, MqReset,
                  MpFree, ipcVars
    <2>3. CASE MsgHandler
      BY <2>3 DEF MsgHandler, EventSendISR, MqSendISR, ipcVars
    <2>. QED
      BY <2>1, <2>2, <2>3
  <1>. QED
    BY <1>1, BoxStays

LEMMA BoxInit ==
  MessagesInit => BoxInv
  <1>. SUFFICES ASSUME MessagesInit PROVE BoxInv
    OBVIOUS
  <1>1. BoxSize \in Nat \ {0} /\ 0 % BoxSize = 0
    BY IpcAssumption
  <1>. QED
    BY <1>1 DEF MessagesInit, IpcInit, BoxInv

LEMMA BoxNext ==
  ThreadInv /\ BoxInv /\ [Next]_allVars => BoxInv' /\ BoxStep
  <1>1. ASSUME ThreadInv, BoxInv, Next PROVE BoxInv' /\ BoxStep
    BY <1>1, BoxIpc, BoxMessages DEF Next
  <1>2. ASSUME BoxInv, UNCHANGED allVars PROVE BoxInv' /\ BoxStep
    BY <1>2, BoxStays DEF allVars, ipcAndKernel, ipcVars
  <1>. QED
    BY <1>1, <1>2
-----------------------------------------------------------------------------
\* The blocks of the message queue.

\* The block a thread has in its hands in the call c, and the message that comes with it.
Carrying == {"mq_send", "mq_urgent", "mq_copy"}
BlockOf(e) == IF e[1] = "mq_copy" THEN e[2] ELSE e[3]
HandOf(c) == IF c # <<>> /\ c[Len(c)][1] \in Carrying THEN {BlockOf(c[Len(c)])} ELSE {}
WordRight(c, words) ==
  c # <<>> => /\ c[Len(c)][1] \in Ways => c[Len(c)][2] \in Msgs
              /\ c[Len(c)][1] = "mq_copy" => c[Len(c)][3] = words[c[Len(c)][2]]

\* Every block is in one place: in one of the lists, F and Q, or in one thread's hands.
Apart(F, Q, H) ==
  /\ F \cap Q = {} /\ F \cup Q \subseteq Blocks
  /\ \A t \in Threads : H[t] \subseteq Blocks \ (F \cup Q)
  /\ \A t, u \in Threads : t # u => H[t] \cap H[u] = {}
  /\ \A b \in Blocks : b \in F \cup Q \/ \E t \in Threads : b \in H[t]
Hands == [t \in Threads |-> HandOf(todo[t])]

BlockInv ==
  /\ free \in Seq(Blocks) /\ NoneTwice(free) /\ queue \in Seq(Blocks) /\ NoneTwice(queue)
  /\ contents \in [Blocks -> Msgs]
  /\ Apart(Elems(free), Elems(queue), Hands)
  /\ \A t \in Threads : WordRight(todo[t], contents)

LEMMA HandFacts ==
  /\ HandOf(<<>>) = {} /\ HandOf(<<Sch>>) = {}
  /\ \A K, c, w : Within(K, c) /\ K \cap Carrying = {} => HandOf(c) = {} /\ WordRight(c, w)
  /\ \A w : WordRight(<<>>, w) /\ WordRight(<<Sch>>, w)
  /\ \A e : e[1] \in Carrying => HandOf(<<e>>) = {BlockOf(e)}
  /\ \A e, w : WordRight(<<e>>, w) <=> /\ e[1] \in Ways => e[2] \in Msgs
                                       /\ e[1] = "mq_copy" => e[3] = w[e[2]]
  /\ \A c, d, w : SameLast(c, d) => HandOf(c) = HandOf(d)
                                    /\ (WordRight(c, w) => WordRight(d, w))
  <1>1. \A e : <<e>> # <<>> /\ <<e>>[Len(<<e>>)] = e
    OBVIOUS
  <1>2. ASSUME NEW K, NEW c, NEW w, Within(K, c), K \cap Carrying = {}
        PROVE  HandOf(c) = {} /\ WordRight(c, w)
    <2>1. c = <<>> \/ c[Len(c)][1] \notin Carrying
      <3>1. Aside \cap Carrying = {}
        BY DEF Aside, Carrying
      <3>. QED
        BY <1>2, <3>1 DEF Within
    <2>2. Ways \subseteq Carrying /\ "mq_copy" \in Carrying
      BY DEF Ways, Carrying
    <2>. QED
      BY <2>1, <2>2 DEF HandOf, WordRight
  <1>3. Within({}, <<>>) /\ Within({}, <<Sch>>)
    BY LastFacts
  <1>4. \A w : /\ HandOf(<<>>) = {} /\ HandOf(<<Sch>>) = {}
             /\ WordRight(<<>>, w) /\ WordRight(<<Sch>>, w)
    BY <1>2, <1>3
  <1>5. \A e : e[1] \in Carrying => HandOf(<<e>>) = {BlockOf(e)}
    BY <1>1 DEF HandOf
  <1>6. \A e, w : WordRight(<<e>>, w) <=> /\ e[1] \in Ways => e[2] \in Msgs
                                          /\ e[1] = "mq_copy" => e[3] = w[e[2]]
    BY <1>1 DEF WordRight
  <1>7. ASSUME NEW c, NEW d, NEW w, SameLast(c, d)
        PROVE  HandOf(c) = HandOf(d) /\ (WordRight(c, w) => WordRight(d, w))
    BY <1>7 DEF SameLast, HandOf, WordRight
  <1>. QED
    BY <1>2, <1>4, <1>5, <1>6, <1>7

\* Nobody takes or leaves a block.
LEMMA BlocksStay ==
  ASSUME BlockInv, NEW K, K \cap Carrying = {}, Touches(K), UNCHANGED queueVars
  PROVE  BlockInv'
  <1>1. ASSUME NEW t \in Threads
        PROVE  HandOf(todo'[t]) = HandOf(todo[t]) /\ WordRight(todo'[t], contents)
    <2>1. WordRight(todo[t], contents)
      BY DEF BlockInv
    <2>. QED
      BY <2>1, HandFacts DEF Touches
  <1>2. Hands' = Hands
    BY <1>1 DEF Hands
  <1>. QED
    BY <1>1, <1>2 DEF BlockInv, queueVars

\* The lists and the thread that runs exchange blocks.
LEMMA Exchange ==
  ASSUME ThreadInv, BlockInv, NEW c, todo' = [todo EXCEPT ![current] = c],
         free' \in Seq(Blocks), NoneTwice(free'), queue' \in Seq(Blocks), NoneTwice(queue'),
         contents' \in [Blocks -> Msgs],
         Elems(free') \cap Elems(queue') = {},
         HandOf(c) \cap (Elems(free') \cup Elems(queue')) = {},
         Elems(free') \cup Elems(queue') \cup HandOf(c)
           = Elems(free) \cup Elems(queue) \cup HandOf(todo[current]),
         WordRight(c, contents'),
         \A t \in Threads \ {current} : WordRight(todo[t], contents')
  PROVE  BlockInv'
  <1>1. current \in Threads /\ todo = [t \in Threads |-> todo[t]]
    BY DEF ThreadInv, ListInv, CurrentRight, CallsRight
  <1>2. \A t \in Threads : todo'[t] = IF t = current THEN c ELSE todo[t]
    BY <1>1
  <1>3. \A t \in Threads : WordRight(todo'[t], contents')
    BY <1>2
  <1>4. /\ \A t \in Threads : Hands[t] = HandOf(todo[t])
        /\ \A t \in Threads : Hands'[t] = IF t = current THEN HandOf(c) ELSE HandOf(todo[t])
    BY <1>2 DEF Hands
  <1>. DEFINE F == Elems(free)
              Q == Elems(queue)
              G == Elems(free')
              R == Elems(queue')
              h == HandOf(todo[current])
              k == HandOf(c)
  <1>5. /\ Apart(F, Q, Hands) /\ G \cap R = {} /\ k \cap (G \cup R) = {}
        /\ G \cup R \cup k = F \cup Q \cup h
    BY DEF BlockInv
  <1>. HIDE DEF F, Q, G, R, h, k
  <1>6. h \subseteq Blocks \ (F \cup Q) /\ F \cup Q \subseteq Blocks
    BY <1>1, <1>4, <1>5 DEF Apart, h
  <1>7. \A t \in Threads : Hands'[t] = IF t = current THEN k ELSE Hands[t]
    BY <1>4 DEF k
  <1>8. Hands[current] = h
    BY <1>1, <1>4 DEF h
  <1>9. Apart(G, R, Hands')
    <2>1. G \cup R \subseteq Blocks /\ k \subseteq Blocks \ (G \cup R)
      BY <1>5, <1>6
    <2>2. ASSUME NEW t \in Threads, t # current
          PROVE  Hands[t] \subseteq Blocks \ (G \cup R \cup k)
      <3>1. Hands[t] \subseteq Blocks \ (F \cup Q) /\ Hands[t] \cap h = {}
        BY <1>1, <1>5, <1>8, <2>2 DEF Apart
      <3>. QED
        BY <1>5, <3>1
    <2>3. \A t \in Threads : Hands'[t] \subseteq Blocks \ (G \cup R)
      BY <1>7, <2>1, <2>2
    <2>4. ASSUME NEW t \in Threads, NEW u \in Threads, t # u PROVE Hands'[t] \cap Hands'[u] = {}
      <3>1. CASE t = current
        BY <1>7, <2>2, <2>4, <3>1
      <3>2. CASE u = current
        BY <1>7, <2>2, <2>4, <3>2
      <3>3. CASE t # current /\ u # current
        BY <1>5, <1>7, <2>4, <3>3 DEF Apart
      <3>. QED
        BY <3>1, <3>2, <3>3
    <2>5. ASSUME NEW b \in Blocks PROVE b \in G \cup R \/ \E t \in Threads : b \in Hands'[t]
      <3>1. CASE b \in F \cup Q \cup h
        BY <1>1, <1>5, <1>7, <3>1
      <3>2. CASE b \notin F \cup Q \cup h
        <4>1. PICK t \in Threads : b \in Hands[t]
          BY <1>5, <3>2 DEF Apart
        <4>. QED
          BY <1>7, <1>8, <3>2, <4>1
      <3>. QED
        BY <3>1, <3>2
    <2>. QED
      BY <1>5, <2>1, <2>3, <2>4, <2>5 DEF Apart
  <1>. QED
    BY <1>3, <1>9 DEF BlockInv, G, R

\* A message is written into a block in nobody's hands but, perhaps, the current thread's.
LEMMA WordsStay ==
  ASSUME BlockInv, NEW b \in Blocks, NEW x \in Msgs, contents' = [contents EXCEPT ![b] = x],
         NEW t \in Threads, b \notin HandOf(todo[t])
  PROVE  WordRight(todo[t], contents')
  <1>. DEFINE c == todo[t]
              e == c[Len(c)]
  <1>1. WordRight(c, contents) /\ HandOf(c) \subseteq Blocks /\ contents \in [Blocks -> Msgs]
    BY DEF BlockInv, Apart, Hands
  <1>. HIDE DEF c
  <1>2. CASE c # <<>> /\ e[1] = "mq_copy"
    <2>1. HandOf(c) = {e[2]}
      BY <1>2 DEF HandOf, Carrying, BlockOf
    <2>2. e[2] \in Blocks /\ e[2] # b
      BY <1>1, <2>1 DEF c
    <2>3. contents'[e[2]] = contents[e[2]]
      BY <1>1, <2>2
    <2>. QED
      BY <1>1, <1>2, <2>3 DEF WordRight, c
  <1>3. CASE ~(c # <<>> /\ e[1] = "mq_copy")
    BY <1>1, <1>3 DEF WordRight, c
  <1>. QED
    BY <1>2, <1>3

\* The messages in the blocks of a list w.
Words(w, words) == [i \in DOMAIN w |-> words[w[i]]]
LEMMA WordsFacts ==
  ASSUME NEW words \in [Blocks -> Msgs], NEW w \in Seq(Blocks)
  PROVE  /\ Words(w, words) \in Seq(Msgs) /\ Len(Words(w, words)) = Len(w)
         /\ \A i \in 1 .. Len(w) : Words(w, words)[i] = words[w[i]]
  <1>1. DOMAIN w = 1 .. Len(w) /\ Len(w) \in Nat /\ \A i \in 1 .. Len(w) : words[w[i]] \in Msgs
    BY ListDomain
  <1>. QED
    BY <1>1 DEF Words

\* A block is filled and linked, at the end or at the front.
LEMMA LinkedMessages ==
  ASSUME contents \in [Blocks -> Msgs], queue \in Seq(Blocks), NEW b \in Blocks, NEW x \in Msgs,
         b \notin Elems(queue), contents' = [contents EXCEPT ![b] = x]
  PROVE  /\ Words(Append(queue, b), contents') = Append(Words(queue, contents), x)
         /\ Words(<<b>> \o queue, contents') = <<x>> \o Words(queue, contents)
  <1>. DEFINE w == queue
              words == contents
              more == contents'
  <1>a. /\ words \in [Blocks -> Msgs] /\ w \in Seq(Blocks) /\ b \notin Elems(w)
        /\ more \in [Blocks -> Msgs] /\ more[b] = x /\ \A a \in Blocks : a # b => more[a] = words[a]
    OBVIOUS
  <1>. HIDE DEF w, words, more
  <1>1. /\ Len(w) \in Nat /\ \A i \in 1 .. Len(w) : w[i] \in Blocks /\ w[i] # b
        /\ more \in [Blocks -> Msgs] /\ more[b] = x
        /\ \A a \in Blocks : a # b => more[a] = words[a]
    <2>1. \A o \in Seq(Blocks) : \A i \in 1 .. Len(o) : o[i] \in Blocks /\ o[i] \in Elems(o)
      BY ListDomain
    <2>2. Len(w) \in Nat
      BY <1>a
    <2>3. \A i \in 1 .. Len(w) : w[i] \in Blocks /\ w[i] \in Elems(w)
      BY <1>a, <2>1
    <2>. QED
      BY <1>a, <2>2, <2>3
  <1>. DEFINE v == Words(w, words)
              n == Len(w)
  <1>2. v \in Seq(Msgs) /\ Len(v) = n /\ \A i \in 1 .. n : v[i] = words[w[i]]
    BY <1>a, WordsFacts
  <1>. HIDE DEF v
  <1>0. n \in Nat
    BY <1>1
  <1>3. Words(Append(w, b), more) = Append(v, x)
    <2>. DEFINE s == Append(w, b)
                z == Append(v, x)
                y == Words(s, more)
    <2>1. s \in Seq(Blocks) /\ Len(s) = n + 1 /\ s[n + 1] = b /\ \A i \in 1 .. n : s[i] = w[i]
      BY <1>a, <1>1
    <2>. HIDE DEF n
    <2>3. /\ z \in Seq(Msgs) /\ Len(z) = n + 1 /\ z[n + 1] = x
          /\ \A i \in 1 .. n : z[i] = v[i]
      BY <1>2, AppendProperties
    <2>. HIDE DEF s, z
    <2>2. /\ y \in Seq(Msgs) /\ Len(y) = Len(s) /\ \A i \in 1 .. Len(s) : y[i] = more[s[i]]
      BY <1>a, <1>1, <2>1, WordsFacts
    <2>. HIDE DEF y
    <2>4. ASSUME NEW i \in 1 .. n + 1 PROVE y[i] = z[i]
      <3>1. y[i] = more[s[i]]
        BY <2>1, <2>2
      <3>2. CASE i = n + 1
        BY <1>1, <2>1, <2>3, <3>1, <3>2
      <3>3. CASE i # n + 1
        <4>1. i \in 1 .. n
          BY <1>0, <3>3
        <4>2. more[s[i]] = words[w[i]]
          BY <1>1, <2>1, <4>1 DEF n
        <4>. QED
          BY <1>2, <2>3, <3>1, <4>1, <4>2
      <3>. QED
        BY <3>2, <3>3
    <2>5. y = z
      BY <2>1, <2>2, <2>3, <2>4, SeqEqual
    <2>. QED
      BY <2>5 DEF s, y, z
  <1>4. Words(<<b>> \o w, more) = <<x>> \o v
    <2>. DEFINE s == <<b>> \o w
                z == <<x>> \o v
                y == Words(s, more)
    <2>1. /\ s \in Seq(Blocks) /\ Len(s) = n + 1 /\ s[1] = b
          /\ \A i \in 1 .. n : s[i + 1] = w[i]
      BY <1>a, <1>1
    <2>. HIDE DEF n
    <2>3. /\ z \in Seq(Msgs) /\ Len(z) = n + 1 /\ z[1] = x
          /\ \A i \in 1 .. n : z[i + 1] = v[i]
      BY <1>0, <1>2
    <2>. HIDE DEF s, z
    <2>2. /\ y \in Seq(Msgs) /\ Len(y) = Len(s) /\ \A i \in 1 .. Len(s) : y[i] = more[s[i]]
      BY <1>a, <1>1, <2>1, WordsFacts
    <2>. HIDE DEF y
    <2>4. ASSUME NEW i \in 1 .. n + 1 PROVE y[i] = z[i]
      <3>1. y[i] = more[s[i]]
        BY <2>1, <2>2
      <3>2. CASE i = 1
        BY <1>1, <2>1, <2>3, <3>1, <3>2
      <3>3. CASE i # 1
        <4>1. PICK j \in 1 .. n : i = j + 1
          <5>1. i - 1 \in 1 .. n /\ i = (i - 1) + 1
            BY <1>0, <3>3
          <5>. QED
            BY <5>1
        <4>2. s[i] = w[j] /\ w[j] \in Blocks /\ w[j] # b
          BY <1>1, <2>1, <4>1 DEF n
        <4>3. more[s[i]] = words[w[j]]
          BY <1>1, <4>2
        <4>4. z[i] = words[w[j]]
          BY <1>2, <2>3, <4>1
        <4>. QED
          BY <3>1, <4>3, <4>4
      <3>. QED
        BY <3>2, <3>3
    <2>5. y = z
      BY <2>1, <2>2, <2>3, <2>4, SeqEqual
    <2>. QED
      BY <2>5 DEF s, y, z
  <1>. QED
    BY <1>3, <1>4 DEF v, w, words, more

LEMMA TakenWords ==
  ASSUME NEW words \in [Blocks -> Msgs], NEW w \in Seq(Blocks), w # <<>>
  PROVE  /\ Words(w, words) # <<>> /\ Words(Tail(w), words) = Tail(Words(w, words))
         /\ Head(Words(w, words)) = words[Head(w)]
  <1>1. Len(w) \in Nat /\ Len(w) # 0
    BY ListDomain
  <1>. DEFINE v == Words(w, words)
              n == Len(w)
  <1>2. v \in Seq(Msgs) /\ Len(v) = n /\ \A i \in 1 .. n : v[i] = words[w[i]]
    BY WordsFacts
  <1>3. /\ Tail(w) \in Seq(Blocks) /\ Len(Tail(w)) = n - 1 /\ Head(w) = w[1]
        /\ \A i \in 1 .. n - 1 : Tail(w)[i] = w[i + 1]
    BY <1>1
  <1>4. /\ Words(Tail(w), words) \in Seq(Msgs) /\ Len(Words(Tail(w), words)) = n - 1
        /\ \A i \in 1 .. n - 1 : Words(Tail(w), words)[i] = words[Tail(w)[i]]
    BY <1>3, WordsFacts
  <1>. HIDE DEF v
  <1>5. /\ v # <<>> /\ Tail(v) \in Seq(Msgs) /\ Len(Tail(v)) = n - 1 /\ Head(v) = v[1]
        /\ \A i \in 1 .. n - 1 : Tail(v)[i] = v[i + 1]
    BY <1>1, <1>2
  <1>6. \A i \in 1 .. n - 1 : i + 1 \in 1 .. n
    BY <1>1
  <1>. HIDE DEF n
  <1>. DEFINE y == Words(Tail(w), words)
              z == Tail(v)
  <1>. HIDE DEF y, z
  <1>7. ASSUME NEW i \in 1 .. n - 1 PROVE y[i] = z[i]
    <2>1. y[i] = words[w[i + 1]]
      BY <1>3, <1>4 DEF y
    <2>2. z[i] = v[i + 1] /\ i + 1 \in 1 .. n
      BY <1>5, <1>6 DEF z
    <2>3. v[i + 1] = words[w[i + 1]]
      BY <1>2, <2>2
    <2>. QED
      BY <2>1, <2>2, <2>3
  <1>8. Words(Tail(w), words) = Tail(v)
    <2>1. y \in Seq(Msgs) /\ z \in Seq(Msgs) /\ Len(y) = n - 1 /\ Len(z) = n - 1
      BY <1>4, <1>5 DEF y, z
    <2>2. y = z
      BY <1>7, <2>1, SeqEqual
    <2>. QED
      BY <2>2 DEF y, z
  <1>9. 1 \in 1 .. n
    BY <1>1 DEF n
  <1>. QED
    BY <1>2, <1>3, <1>5, <1>8, <1>9 DEF v

\* The list backwards.
LEMMA BackwardsFacts ==
  ASSUME NEW S, NEW w \in Seq(S), NoneTwice(w), NEW r,
         r = [i \in DOMAIN w |-> w[Len(w) + 1 - i]]
  PROVE  r \in Seq(S) /\ NoneTwice(r) /\ Elems(r) = Elems(w)
  <1>1. /\ DOMAIN w = 1 .. Len(w) /\ Len(w) \in Nat /\ Elems(w) = {w[i] : i \in 1 .. Len(w)}
        /\ \A i \in 1 .. Len(w) : w[i] \in S
    BY ListDomain
  <1>. DEFINE n == Len(w)
              m(i) == n + 1 - i
  <1>2. \A i \in 1 .. n : m(i) \in 1 .. n /\ m(m(i)) = i
    BY <1>1
  <1>3. \A i, j \in 1 .. n : m(i) = m(j) => i = j
    BY <1>1
  <1>4. \A i \in 1 .. n : r[i] = w[m(i)]
    BY <1>1
  <1>5. r \in [1 .. n -> S]
    BY <1>1, <1>2
  <1>6. r \in Seq(S) /\ Len(r) = n
    BY <1>1, <1>5
  <1>. HIDE DEF m, n
  <1>7. NoneTwice(r)
    BY <1>2, <1>3, <1>4, <1>6 DEF NoneTwice, n
  <1>8. \A y : y \in Elems(r) <=> \E i \in 1 .. n : r[i] = y
    <2>1. \A s \in Seq(S) : \A y : y \in Elems(s) <=> \E i \in 1 .. Len(s) : s[i] = y
      BY ListDomain
    <2>. QED
      BY <1>6, <2>1
  <1>9. Elems(r) \subseteq Elems(w)
    BY <1>1, <1>2, <1>4, <1>8 DEF n
  <1>10. ASSUME NEW i \in 1 .. n PROVE w[i] \in Elems(r)
    <2>1. r[m(i)] = w[i] /\ m(i) \in 1 .. n
      BY <1>2, <1>4
    <2>. QED
      BY <1>8, <2>1
  <1>11. Elems(w) \subseteq Elems(r)
    BY <1>1, <1>10 DEF n
  <1>. QED
    BY <1>6, <1>7, <1>9, <1>11

\* What a step may do to the messages.
QueueStep ==
  \/ UNCHANGED Messages
  \/ \E x \in Msgs : Messages' \in {Append(Messages, x), <<x>> \o Messages}
  \/ Messages # <<>> /\ Messages' = Tail(Messages)
       /\ \E b \in Blocks : Head(todo'[current]) = <<"mq_copy", b, Head(Messages)>>
  \/ MqReset

LEMMA QueueStays ==
  ASSUME BlockInv, NEW K, K \cap Carrying = {}, Touches(K), UNCHANGED queueVars
  PROVE  BlockInv' /\ QueueStep
  <1>1. UNCHANGED Messages
    BY DEF Messages, queueVars
  <1>. QED
    BY <1>1, BlocksStay DEF QueueStep

LEMMA BlockFacts ==
  ASSUME ThreadInv, BlockInv
  PROVE  /\ current \in Threads /\ todo = [t \in Threads |-> todo[t]]
         /\ Elems(free) \cap Elems(queue) = {}
         /\ \A t \in Threads : HandOf(todo[t]) \subseteq Blocks \ (Elems(free) \cup Elems(queue))
         /\ \A t, u \in Threads : t # u => HandOf(todo[t]) \cap HandOf(todo[u]) = {}
         /\ \A t \in Threads : WordRight(todo[t], contents)
         /\ Messages = Words(queue, contents)
         /\ Messages' = Words(queue', contents')
  <1>1. \A t \in Threads : Hands[t] = HandOf(todo[t])
    BY DEF Hands
  <1>. QED
    BY <1>1 DEF ThreadInv, ListInv, CurrentRight, CallsRight, BlockInv, Apart, Messages, Words

\* A free block is taken, to be filled.
LEMMA BlockMqSend ==
  ASSUME ThreadInv, BlockInv, NEW how \in Ways, NEW x \in Msgs, MqSend(how, x)
  PROVE  BlockInv' /\ QueueStep
  <1>. DEFINE e == <<how, x, Head(free)>>
              c == <<e>>
  <1>1. /\ todo' = [todo EXCEPT ![current] = c] /\ todo[current] = <<>>
        /\ free # <<>> /\ free' = Tail(free) /\ queue' = queue /\ contents' = contents
    BY DEF MqSend, Calls, Goes
  <1>2. e[1] = how /\ e[2] = x /\ e[3] = Head(free)
    OBVIOUS
  <1>3. e[1] \in Carrying /\ e[1] # "mq_copy"
    BY DEF Carrying, Ways
  <1>. HIDE DEF e
  <1>4. HandOf(c) = {Head(free)} /\ HandOf(todo[current]) = {} /\ \A w : WordRight(c, w)
    BY <1>1, <1>2, <1>3, HandFacts DEF BlockOf
  <1>. HIDE DEF c
  <1>5. free \in Seq(Blocks) /\ NoneTwice(free)
    BY DEF BlockInv
  <1>6. /\ Tail(free) \in Seq(Blocks) /\ NoneTwice(Tail(free)) /\ Head(free) \in Elems(free)
        /\ Elems(Tail(free)) = Elems(free) \ {Head(free)}
    BY <1>1, <1>5, TailFacts
  <1>7. BlockInv'
    <2>1. \A t \in Threads \ {current} : WordRight(todo[t], contents')
      BY <1>1, BlockFacts
    <2>2. /\ free' \in Seq(Blocks) /\ NoneTwice(free')
          /\ queue' \in Seq(Blocks) /\ NoneTwice(queue')
          /\ contents' \in [Blocks -> Msgs]
      BY <1>1, <1>6 DEF BlockInv
    <2>3. Elems(free) \cap Elems(queue) = {}
      BY BlockFacts
    <2>4. /\ Elems(free') \cap Elems(queue') = {}
          /\ HandOf(c) \cap (Elems(free') \cup Elems(queue')) = {}
          /\ Elems(free') \cup Elems(queue') \cup HandOf(c)
               = Elems(free) \cup Elems(queue) \cup HandOf(todo[current])
      BY <1>1, <1>4, <1>6, <2>3
    <2>. QED
      BY <1>1, <1>4, <2>1, <2>2, <2>4, Exchange
  <1>8. QueueStep
    BY <1>1 DEF QueueStep, Messages
  <1>. QED
    BY <1>7, <1>8

\* The filled block is linked: by the thread that has it, or by a handler that took it.
LEMMA BlockLinked ==
  ASSUME ThreadInv, BlockInv, NEW how, NEW b, NEW x \in Msgs, Linked(how, b, x),
         NEW c, todo' = [todo EXCEPT ![current] = c], HandOf(c) = HandOf(todo[current]) \ {b},
         WordRight(c, contents'),
         free' \in Seq(Blocks), NoneTwice(free'),
         b \in Elems(free) \cup HandOf(todo[current]), Elems(free') = Elems(free) \ {b}
  PROVE  BlockInv' /\ QueueStep
  <1>1. /\ current \in Threads /\ Elems(free) \cap Elems(queue) = {}
        /\ \A t \in Threads : HandOf(todo[t]) \subseteq Blocks \ (Elems(free) \cup Elems(queue))
        /\ \A t, u \in Threads : t # u => HandOf(todo[t]) \cap HandOf(todo[u]) = {}
        /\ Messages = Words(queue, contents) /\ Messages' = Words(queue', contents')
    BY BlockFacts
  <1>2. queue \in Seq(Blocks) /\ NoneTwice(queue) /\ contents \in [Blocks -> Msgs]
        /\ Elems(free) \subseteq Blocks
    BY ListDomain DEF BlockInv
  <1>3. b \in Blocks /\ b \notin Elems(queue)
    BY <1>1, <1>2
  <1>4. contents' = [contents EXCEPT ![b] = x] /\ contents' \in [Blocks -> Msgs]
    BY <1>2, <1>3 DEF Linked
  <1>5. /\ queue' \in {Append(queue, b), <<b>> \o queue}
        /\ queue' \in Seq(Blocks) /\ NoneTwice(queue') /\ Elems(queue') = Elems(queue) \cup {b}
    BY <1>2, <1>3, AppendFacts, FrontFacts DEF Linked
  <1>6. ASSUME NEW t \in Threads \ {current} PROVE WordRight(todo[t], contents')
    <2>1. b \notin HandOf(todo[t])
      BY <1>1
    <2>. QED
      BY <1>3, <1>4, <2>1, WordsStay
  <1>7. BlockInv'
    <2>. DEFINE F == Elems(free)
                Q == Elems(queue)
                h == HandOf(todo[current])
    <2>1. F \cap Q = {} /\ h \cap (F \cup Q) = {} /\ b \in F \cup h
      BY <1>1
    <2>. HIDE DEF F, Q, h
    <2>2. /\ Elems(free') = F \ {b} /\ Elems(queue') = Q \cup {b} /\ HandOf(c) = h \ {b}
      BY <1>5 DEF F, Q, h
    <2>3. /\ Elems(free') \cap Elems(queue') = {}
          /\ HandOf(c) \cap (Elems(free') \cup Elems(queue')) = {}
          /\ Elems(free') \cup Elems(queue') \cup HandOf(c) = F \cup Q \cup h
      BY <2>1, <2>2
    <2>. QED
      BY <1>4, <1>5, <1>6, <2>3, Exchange DEF F, Q, h
  <1>8. Messages' \in {Append(Messages, x), <<x>> \o Messages}
    <2>1. /\ Words(Append(queue, b), contents') = Append(Words(queue, contents), x)
          /\ Words(<<b>> \o queue, contents') = <<x>> \o Words(queue, contents)
      BY <1>2, <1>3, <1>4, LinkedMessages
    <2>. QED
      BY <1>1, <1>5, <2>1
  <1>. QED
    BY <1>7, <1>8 DEF QueueStep

LEMMA BlockMqLink ==
  ASSUME ThreadInv, BlockInv, NEW how \in Ways, MqLink(how)
  PROVE  BlockInv' /\ QueueStep
  <1>. DEFINE e == todo[current][1]
  <1>1. /\ At(how) /\ Linked(how, Head(todo[current])[3], Head(todo[current])[2])
        /\ UNCHANGED free /\ CallerGoes(waitList[Queue] # <<>>)
    BY DEF MqLink
  <1>2. todo[current] = <<e>> /\ Head(todo[current]) = e /\ e[1] = how
    BY <1>1, LastSection DEF Ways, WorkNames
  <1>. HIDE DEF e
  <1>3. HandOf(<<e>>) = {e[3]} /\ e[2] \in Msgs
    <2>1. how \in Carrying /\ how # "mq_copy"
      BY DEF Ways, Carrying
    <2>2. WordRight(todo[current], contents)
      BY BlockFacts
    <2>. QED
      BY <1>2, <2>1, <2>2, HandFacts DEF BlockOf
  <1>4. PICK c : todo' = [todo EXCEPT ![current] = c] /\ (c = <<>> \/ c = <<Sch>>)
    BY <1>1 DEF CallerGoes, Sch
  <1>5. HandOf(c) = {} /\ WordRight(c, contents')
    BY <1>4, HandFacts
  <1>6. e[3] \notin Elems(free) /\ free \in Seq(Blocks) /\ NoneTwice(free)
    BY <1>2, <1>3, BlockFacts DEF BlockInv
  <1>7. Linked(how, e[3], e[2])
    BY <1>1, <1>2
  <1>. QED
    BY <1>1, <1>2, <1>3, <1>4, <1>5, <1>6, <1>7, BlockLinked

LEMMA BlockMqSendISR ==
  ASSUME ThreadInv, BlockInv, NEW how \in Ways, NEW x \in Msgs, MqSendISR(how, x)
  PROVE  BlockInv' /\ QueueStep
  <1>. DEFINE c == todo[current]
  <1>1. /\ free # <<>> /\ free' = Tail(free) /\ Linked(how, Head(free), x) /\ UNCHANGED todo
    BY DEF MqSendISR, HandlerGoes
  <1>2. free \in Seq(Blocks) /\ NoneTwice(free)
    BY DEF BlockInv
  <1>3. /\ Tail(free) \in Seq(Blocks) /\ NoneTwice(Tail(free)) /\ Head(free) \in Elems(free)
        /\ Elems(Tail(free)) = Elems(free) \ {Head(free)} /\ Head(free) \in Blocks
    BY <1>1, <1>2, TailFacts
  <1>4. /\ todo' = [todo EXCEPT ![current] = c] /\ Head(free) \notin HandOf(c)
        /\ current \in Threads
    BY <1>1, <1>3, BlockFacts
  <1>5. WordRight(c, contents')
    BY <1>1, <1>3, <1>4, WordsStay DEF Linked
  <1>6. HandOf(c) = HandOf(todo[current]) \ {Head(free)}
    BY <1>4
  <1>. HIDE DEF c
  <1>. QED
    BY <1>1, <1>3, <1>4, <1>5, <1>6, BlockLinked

\* The first block is taken, to be copied.
LEMMA BlockTaken ==
  ASSUME ThreadInv, BlockInv, queue # <<>>, TakeFirst, UNCHANGED contents,
         HandOf(todo[current]) = {}, todo' = [todo EXCEPT ![current] = Copying(Head(queue))]
  PROVE  BlockInv' /\ QueueStep
  <1>. DEFINE b == Head(queue)
              e == <<"mq_copy", b, contents[b]>>
              c == <<e>>
  <1>1. todo' = [todo EXCEPT ![current] = c] /\ queue' = Tail(queue) /\ UNCHANGED <<free, contents>>
    BY DEF TakeFirst, Copying
  <1>2. e[1] = "mq_copy" /\ e[2] = b /\ e[3] = contents[b] /\ Head(c) = e
    OBVIOUS
  <1>3. WordRight(c, contents) /\ HandOf(c) = {b}
    <2>1. "mq_copy" \in Carrying /\ "mq_copy" \notin Ways
      BY DEF Carrying, Ways
    <2>. HIDE DEF e
    <2>. QED
      BY <1>2, <2>1, HandFacts DEF BlockOf
  <1>4. queue \in Seq(Blocks) /\ NoneTwice(queue) /\ contents \in [Blocks -> Msgs]
    BY DEF BlockInv
  <1>5. /\ Tail(queue) \in Seq(Blocks) /\ NoneTwice(Tail(queue))
        /\ b \in Elems(queue) /\ b \in Blocks
        /\ Elems(Tail(queue)) = Elems(queue) \ {b}
    BY <1>4, TailFacts
  <1>6. current \in Threads /\ todo = [t \in Threads |-> todo[t]]
    BY BlockFacts
  <1>7. todo'[current] = c
    BY <1>1, <1>6
  <1>8. Messages = Words(queue, contents) /\ Messages' = Words(queue', contents')
    BY BlockFacts
  <1>9. /\ Messages # <<>> /\ Messages' = Tail(Messages) /\ Head(Messages) = contents[b]
    BY <1>1, <1>4, <1>8, TakenWords
  <1>10. QueueStep
    <2>1. Head(todo'[current]) = <<"mq_copy", b, Head(Messages)>>
      BY <1>2, <1>7, <1>9
    <2>. HIDE DEF b
    <2>. QED
      BY <1>5, <1>9, <2>1 DEF QueueStep
  <1>. HIDE DEF c
  <1>11. BlockInv'
    <2>1. \A t \in Threads \ {current} : WordRight(todo[t], contents')
      BY <1>1, BlockFacts
    <2>2. /\ free' \in Seq(Blocks) /\ NoneTwice(free')
          /\ queue' \in Seq(Blocks) /\ NoneTwice(queue')
          /\ contents' \in [Blocks -> Msgs]
      BY <1>1, <1>5 DEF BlockInv
    <2>3. Elems(free) \cap Elems(queue) = {}
      BY BlockFacts
    <2>. HIDE DEF b
    <2>4. /\ Elems(free') \cap Elems(queue') = {}
          /\ HandOf(c) \cap (Elems(free') \cup Elems(queue')) = {}
          /\ Elems(free') \cup Elems(queue') \cup HandOf(c)
               = Elems(free) \cup Elems(queue) \cup HandOf(todo[current])
      BY <1>1, <1>3, <1>5, <2>3
    <2>5. WordRight(c, contents')
      BY <1>1, <1>3
    <2>. QED
      BY <1>1, <2>1, <2>2, <2>4, <2>5, Exchange
  <1>. QED
    BY <1>10, <1>11

LEMMA BlockMqReceive ==
  ASSUME ThreadInv, BlockInv, NEW n, MqReceive(n)
  PROVE  BlockInv' /\ QueueStep
  <1>1. todo[current] = <<>> /\ UNCHANGED contents
    BY DEF MqReceive, Calls
  <1>2. CASE queue # <<>> /\ TakeFirst /\ Goes(Copying(Head(queue)))
    <2>1. HandOf(todo[current]) = {}
      BY <1>1, HandFacts
    <2>. QED
      BY <1>1, <1>2, <2>1, BlockTaken DEF Goes
  <1>3. CASE SuspendOn(Queue, n, ready, <<"mq_again", n>>) /\ UNCHANGED <<free, queue>>
    <2>. DEFINE next == <<"mq_again", n>>
    <2>1. next[1] \in {"mq_again"} /\ SuspendOn(Queue, n, ready, next)
      BY <1>3
    <2>. HIDE DEF next
    <2>2. Touches({"mq_again"})
      BY <1>1, <2>1, TouchBegins
    <2>3. {"mq_again"} \cap Carrying = {} /\ UNCHANGED queueVars
      BY <1>1, <1>3 DEF Carrying, queueVars
    <2>. QED
      BY <2>2, <2>3, QueueStays
  <1>. QED
    BY <1>2, <1>3 DEF MqReceive

LEMMA BlockMqReceiveAgain ==
  ASSUME ThreadInv, BlockInv, MqReceiveAgain
  PROVE  BlockInv' /\ QueueStep
  <1>. DEFINE n == Head(todo[current])[2]
              next == <<"mq_again", WaitLeft(n)>>
              c == Copying(Head(queue))
  <1>1. /\ At("mq_again") /\ UNCHANGED contents
        /\ \/ /\ Fails(queue = <<>>, n) \/ WaitsAgain(Queue, WaitLeft(n), next)
              /\ UNCHANGED <<free, queue>>
           \/ queue # <<>> /\ TakeFirst /\ Then(c)
    BY DEF MqReceiveAgain
  <1>2. /\ "mq_again" \in Looping /\ "mq_again" \in EndNames \cup WorkNames
        /\ "mq_again" \in {"mq_again"} \cup Aside
    BY DEF Looping, EndNames
  <1>3. {"mq_again"} \cap Carrying = {} /\ next[1] = "mq_again"
    BY DEF Carrying
  <1>4. c \o <<>> = c
    BY RestFacts DEF Copying
  <1>. HIDE DEF next, n, c
  <1>5. CASE /\ Fails(queue = <<>>, n) \/ WaitsAgain(Queue, WaitLeft(n), next)
             /\ UNCHANGED <<free, queue>>
    <2>1. Touches({"mq_again"})
      BY <1>1, <1>2, <1>3, <1>5, TouchLoop
    <2>. QED
      BY <1>1, <1>3, <1>5, <2>1, QueueStays DEF queueVars
  <1>6. CASE queue # <<>> /\ TakeFirst /\ Then(c)
    <2>1. Within({"mq_again"}, todo[current]) /\ c \o Tail(todo[current]) = c \o <<>>
      BY <1>1, <1>2, TouchAt
    <2>2. todo' = [todo EXCEPT ![current] = c]
      BY <1>4, <1>6, <2>1 DEF Then
    <2>3. HandOf(todo[current]) = {}
      BY <1>3, <2>1, HandFacts
    <2>. QED
      BY <1>1, <1>6, <2>2, <2>3, BlockTaken DEF c
  <1>. QED
    BY <1>1, <1>5, <1>6

\* The copied block is free again.
LEMMA BlockMqCopied ==
  ASSUME ThreadInv, BlockInv, MqCopied
  PROVE  BlockInv' /\ QueueStep
  <1>. DEFINE e == todo[current][1]
              b == e[2]
  <1>1. /\ At("mq_copy") /\ free' = <<Subject>> \o free /\ Then(<<>>)
        /\ UNCHANGED <<queue, contents>>
    BY DEF MqCopied
  <1>2. "mq_copy" \in WorkNames /\ "mq_copy" \in Carrying
    BY DEF WorkNames, Carrying
  <1>3. todo[current] = <<e>> /\ Head(todo[current]) = e /\ e[1] = "mq_copy" /\ current \in Threads
    BY <1>1, <1>2, LastSection
  <1>4. todo' = [todo EXCEPT ![current] = <<>>]
    <2>1. "mq_copy" \in {"mq_copy"} \cup Aside
      OBVIOUS
    <2>. QED
      BY <1>1, <1>2, <2>1, TouchEnds
  <1>. HIDE DEF e
  <1>5. HandOf(todo[current]) = {b}
    BY <1>2, <1>3, HandFacts DEF BlockOf
  <1>6. free' = <<b>> \o free
    BY <1>1, <1>3 DEF Subject
  <1>. HIDE DEF b
  <1>7. b \in Blocks /\ b \notin Elems(free) \cup Elems(queue)
    BY <1>3, <1>5, BlockFacts
  <1>8. free \in Seq(Blocks) /\ NoneTwice(free)
    BY DEF BlockInv
  <1>9. free' \in Seq(Blocks) /\ NoneTwice(free') /\ Elems(free') = Elems(free) \cup {b}
    BY <1>6, <1>7, <1>8, FrontFacts
  <1>10. BlockInv'
    <2>1. \A t \in Threads \ {current} : WordRight(todo[t], contents')
      BY <1>1, BlockFacts
    <2>2. /\ queue' \in Seq(Blocks) /\ NoneTwice(queue') /\ contents' \in [Blocks -> Msgs]
      BY <1>1 DEF BlockInv
    <2>3. Elems(free) \cap Elems(queue) = {}
      BY BlockFacts
    <2>4. HandOf(<<>>) = {} /\ WordRight(<<>>, contents')
      BY HandFacts
    <2>. DEFINE c == <<>>
    <2>. HIDE DEF c
    <2>5. HandOf(c) = {} /\ WordRight(c, contents') /\ todo' = [todo EXCEPT ![current] = c]
      BY <1>4, <2>4 DEF c
    <2>6. /\ Elems(free') \cap Elems(queue') = {}
          /\ HandOf(c) \cap (Elems(free') \cup Elems(queue')) = {}
          /\ Elems(free') \cup Elems(queue') \cup HandOf(c)
               = Elems(free) \cup Elems(queue) \cup HandOf(todo[current])
      BY <1>1, <1>5, <1>7, <1>9, <2>3, <2>5
    <2>. QED
      BY <1>9, <2>1, <2>2, <2>5, <2>6, Exchange
  <1>11. QueueStep
    BY <1>1 DEF QueueStep, Messages
  <1>. QED
    BY <1>10, <1>11

\* The blocks in the queue become free.
LEMMA BlockMqReset ==
  ASSUME ThreadInv, BlockInv, MqReset
  PROVE  BlockInv' /\ QueueStep
  <1>. DEFINE r == [i \in DOMAIN queue |-> queue[Len(queue) + 1 - i]]
  <1>1. /\ todo[current] = <<>> /\ CallerGoes(TRUE) /\ queue' = <<>> /\ free' = r \o free
        /\ UNCHANGED contents
    BY DEF MqReset, Calls
  <1>2. /\ free \in Seq(Blocks) /\ NoneTwice(free) /\ queue \in Seq(Blocks) /\ NoneTwice(queue)
    BY DEF BlockInv
  <1>3. r \in Seq(Blocks) /\ NoneTwice(r) /\ Elems(r) = Elems(queue)
    BY <1>2, BackwardsFacts
  <1>. HIDE DEF r
  <1>4. Elems(free) \cap Elems(queue) = {}
    BY BlockFacts
  <1>5. /\ free' \in Seq(Blocks) /\ NoneTwice(free') /\ Elems(free') = Elems(queue) \cup Elems(free)
    BY <1>1, <1>2, <1>3, <1>4, ConcatFacts
  <1>6. queue' \in Seq(Blocks) /\ NoneTwice(queue') /\ Elems(queue') = {}
    <2>1. <<>> \in Seq(Blocks) /\ Len(<<>>) = 0
      OBVIOUS
    <2>2. Elems(<<>>) = {}
      BY <2>1, ListDomain
    <2>. QED
      BY <1>1, <2>1, <2>2 DEF NoneTwice
  <1>7. PICK c : todo' = [todo EXCEPT ![current] = c] /\ c = <<Sch>>
    BY <1>1 DEF CallerGoes, Sch
  <1>8. HandOf(c) = {} /\ HandOf(todo[current]) = {} /\ WordRight(c, contents')
    BY <1>1, <1>7, HandFacts
  <1>9. /\ contents' \in [Blocks -> Msgs]
        /\ \A t \in Threads \ {current} : WordRight(todo[t], contents')
    BY <1>1, BlockFacts DEF BlockInv
  <1>10. /\ Elems(free') \cap Elems(queue') = {}
         /\ HandOf(c) \cap (Elems(free') \cup Elems(queue')) = {}
         /\ Elems(free') \cup Elems(queue') \cup HandOf(c)
              = Elems(free) \cup Elems(queue) \cup HandOf(todo[current])
    BY <1>5, <1>6, <1>8
  <1>11. BlockInv'
    BY <1>5, <1>6, <1>7, <1>8, <1>9, <1>10, Exchange
  <1>. QED
    BY <1>11 DEF QueueStep

\* The steps that have nothing to do with message queues.
LEMMA BlockMessages ==
  ASSUME ThreadInv, BlockInv, MsgInCall \/ MsgCall \/ MsgHandler
  PROVE  BlockInv' /\ QueueStep
  <1>0. /\ {"event_end"} \cap Carrying = {} /\ {"mp_woken", "mp_again"} \cap Carrying = {}
        /\ {} \cap Carrying = {}
    BY DEF Carrying
  <1>1. CASE EventEnd \/ MpWoken \/ MpAgain
    <2>1. UNCHANGED queueVars
      BY <1>1 DEF EventEnd, MpWoken, MpAgain, msgVars
    <2>2. Touches({"event_end"}) \/ Touches({"mp_woken", "mp_again"})
      BY <1>1, TouchEnd, TouchPool
    <2>. QED
      BY <1>0, <2>1, <2>2, QueueStays
  <1>2. ASSUME NEW s, NEW all, NEW clear, NEW n,
               EventSend(s) \/ EventRecv(s, all, clear, n) \/ EventSendISR(s)
        PROVE  BlockInv' /\ QueueStep
    <2>1. UNCHANGED queueVars
      BY <1>2 DEF EventSend, EventRecv, EventSendISR, SetBits
    <2>. QED
      BY <1>0, <1>2, <2>1, TouchEvent, QueueStays
  <1>3. CASE EventReset \/ MpFree
    <2>1. UNCHANGED queueVars /\ Touches({})
      BY <1>3, TouchGives DEF EventReset, MpFree
    <2>. QED
      BY <1>0, <2>1, QueueStays
  <1>4. ASSUME NEW n, MpAlloc(n) PROVE BlockInv' /\ QueueStep
    <2>1. UNCHANGED queueVars /\ Touches({"mp_woken", "mp_again"})
      BY <1>4, TouchPool DEF MpAlloc
    <2>. QED
      BY <1>0, <2>1, QueueStays
  <1>5. CASE MsgInCall
    BY <1>1, <1>5, BlockMqLink, BlockMqReceiveAgain, BlockMqCopied DEF MsgInCall
  <1>6. CASE MsgCall
    BY <1>2, <1>3, <1>4, <1>6, BlockMqSend, BlockMqReceive, BlockMqReset DEF MsgCall
  <1>7. CASE MsgHandler
    BY <1>2, <1>7, BlockMqSendISR DEF MsgHandler
  <1>. QED
    BY <1>5, <1>6, <1>7

LEMMA BlockNext ==
  ThreadInv /\ BlockInv /\ [Next]_allVars => BlockInv' /\ QueueStep
  <1>1. ASSUME ThreadInv, BlockInv, IpcNext, UNCHANGED msgVars PROVE BlockInv' /\ QueueStep
    <2>1. IpcEnds \cap Carrying = {} /\ UNCHANGED queueVars
      BY <1>1 DEF IpcEnds, Carrying, msgVars
    <2>. QED
      BY <1>1, <2>1, TouchIpc, QueueStays
  <1>2. ASSUME BlockInv, UNCHANGED allVars PROVE BlockInv' /\ QueueStep
    <2>1. UNCHANGED queueVars /\ UNCHANGED todo
      BY <1>2 DEF allVars, ipcAndKernel, vars, threadVars, msgVars
    <2>2. Touches({}) /\ {} \cap Carrying = {}
      BY <2>1, TouchStays
    <2>. QED
      BY <1>2, <2>1, <2>2, QueueStays
  <1>. QED
    BY <1>1, <1>2, BlockMessages DEF Next

LEMMA BlockInit ==
  MessagesInit => BlockInv
  <1>. SUFFICES ASSUME MessagesInit PROVE BlockInv
    OBVIOUS
  <1>. DEFINE n == Cardinality(Blocks)
  <1>1. /\ free \in [1 .. n -> Blocks] /\ \A i, j \in DOMAIN free : i < j => free[i] > free[j]
        /\ queue = <<>> /\ \E x \in Msgs : contents = [b \in Blocks |-> x]
        /\ todo = [t \in Threads |-> <<>>]
    BY DEF MessagesInit, IpcInit, Init
  <1>2. IsFiniteSet(Blocks) /\ n \in Nat /\ Blocks \subseteq Nat
    BY MessagesAssumption, FS_CardinalityType
  <1>3. \A i, j \in 1 .. n : free[i] = free[j] => i = j
    <2>. SUFFICES ASSUME NEW i \in 1 .. n, NEW j \in 1 .. n, free[i] = free[j], i # j PROVE FALSE
      OBVIOUS
    <2>1. free[i] \in Nat /\ free[j] \in Nat
      BY <1>1, <1>2
    <2>2. i < j \/ j < i
      BY <1>2
    <2>3. DOMAIN free = 1 .. n
      BY <1>1
    <2>. QED
      BY <1>1, <2>1, <2>2, <2>3
  <1>4. free \in Injection(1 .. n, Blocks)
    BY <1>1, <1>3 DEF Injection, IsInjective
  <1>5. Cardinality(1 .. n) = n
    BY <1>2, FS_Interval
  <1>6. free \in Surjection(1 .. n, Blocks)
    BY <1>2, <1>4, <1>5, FS_Injection
  <1>7. \A b \in Blocks : \E i \in 1 .. n : free[i] = b
    BY <1>6 DEF Surjection
  <1>. HIDE DEF n
  <1>8. free \in Seq(Blocks) /\ Len(free) = n
    BY <1>1, <1>2
  <1>9. NoneTwice(free)
    BY <1>3, <1>8 DEF NoneTwice
  <1>10. Elems(free) = Blocks
    <2>1. Elems(free) = {free[i] : i \in 1 .. n} /\ Elems(free) \subseteq Blocks
      BY <1>8, ListDomain
    <2>. QED
      BY <1>7, <2>1
  <1>11. queue \in Seq(Blocks) /\ NoneTwice(queue) /\ Elems(queue) = {}
    <2>1. <<>> \in Seq(Blocks) /\ Len(<<>>) = 0
      OBVIOUS
    <2>2. Elems(<<>>) = {}
      BY <2>1, ListDomain
    <2>. QED
      BY <1>1, <2>1, <2>2 DEF NoneTwice
  <1>12. \A t \in Threads : Hands[t] = {} /\ WordRight(todo[t], contents)
    BY <1>1, HandFacts DEF Hands
  <1>13. Apart(Elems(free), Elems(queue), Hands)
    BY <1>10, <1>11, <1>12 DEF Apart
  <1>. QED
    BY <1>1, <1>8, <1>9, <1>11, <1>12, <1>13 DEF BlockInv

\* The mailbox and the message queue are FIFO queues, for any number of threads, messages
\* and places: every step adds what is sent at the end, or at the front if it is urgent,
\* takes the first and delivers it, or empties them (rt_mb_send_wait, rt_mb_recv, rt_mq_send,
\* rt_mq_urgent, rt_mq_recv), although a message is copied with interrupts enabled.
THEOREM MessagesInOrderCorrect ==
  Spec /\ Unmanaged => MessagesInOrder
  <1>1. MessagesInit /\ Unmanaged => ThreadInv /\ BoxInv /\ BlockInv
    BY InvInit, BoxInit, BlockInit
  <1>2. ThreadInv /\ BoxInv /\ BlockInv /\ [Next]_allVars => (ThreadInv /\ BoxInv /\ BlockInv)'
    BY InvStep, BoxNext, BlockNext
  <1>3. ThreadInv /\ BoxInv /\ [Next]_allVars =>
          [\/ UNCHANGED Mail
           \/ Len(Mail) < BoxSize /\ \E x \in Msgs : Mail' = Append(Mail, x)
           \/ Mail # <<>> /\ Mail' = Tail(Mail) /\ received' = Head(Mail)
           \/ BoxReset]_<<Mail, received>>
    BY BoxNext DEF BoxStep
  <1>4. ThreadInv /\ BlockInv /\ [Next]_allVars =>
          [\/ UNCHANGED Messages
           \/ \E x \in Msgs : Messages' \in {Append(Messages, x), <<x>> \o Messages}
           \/ Messages # <<>> /\ Messages' = Tail(Messages)
                /\ \E b \in Blocks : Head(todo'[current]) = <<"mq_copy", b, Head(Messages)>>
           \/ MqReset]_<<Messages>>
    BY BlockNext DEF QueueStep
  <1>. QED
    BY <1>1, <1>2, <1>3, <1>4, PTL DEF Spec, MessagesInOrder, MailInOrder
-----------------------------------------------------------------------------
\* Nothing is lost of the message queue and the memory pool.

LEMMA CarryFacts ==
  ASSUME NEW c, IsCall(c), c # <<>>
  PROVE  /\ c[Len(c)][1] \in Carrying => Head(c) = c[Len(c)]
         /\ Head(c)[1] \in Carrying => Head(c) = c[Len(c)]
  <1>0. <<"slept">>[1] = "slept" /\ Sch[1] = "schedule" /\ "schedule" \notin Carrying
    BY DEF Sch, Carrying
  <1>1. CASE c = <<c[1]>>
    <2>. DEFINE e == c[1]
    <2>. HIDE DEF e
    <2>1. <<e>>[Len(<<e>>)] = e /\ Head(<<e>>) = e
      OBVIOUS
    <2>. QED
      BY <1>1, <2>1 DEF e
  <1>2. CASE c = <<Sch>>
    BY <1>2
  <1>3. CASE c = <<Sch, c[2]>> /\ IsEnd(c[2])
    <2>. DEFINE e == c[2]
    <2>1. e[1] \notin Carrying
      BY <1>0, <1>3 DEF IsEnd, Carrying
    <2>. HIDE DEF e
    <2>2. <<Sch, e>>[Len(<<Sch, e>>)] = e /\ Head(<<Sch, e>>) = Sch
      OBVIOUS
    <2>. QED
      BY <1>0, <1>3, <2>1, <2>2 DEF e
  <1>4. ASSUME NEW u \in Threads, Starts(c, u)
        PROVE  c[Len(c)][1] \notin Carrying /\ Head(c)[1] \notin Carrying
    <2>1. CASE c = <<<<"unlink", u>>, <<"insert", u>>, Sch>>
      <3>1. c[Len(c)] = Sch /\ Head(c) = <<"unlink", u>> /\ Head(c)[1] = "unlink"
        BY <2>1
      <3>. QED
        BY <1>0, <3>1 DEF Carrying
    <2>2. CASE c = <<<<"insert", u>>, Sch>>
      <3>1. c[Len(c)] = Sch /\ Head(c) = <<"insert", u>> /\ Head(c)[1] = "insert"
        BY <2>2
      <3>. QED
        BY <1>0, <3>1 DEF Carrying
    <2>. QED
      BY <1>4, <2>1, <2>2 DEF Starts
  <1>. QED
    BY <1>1, <1>2, <1>3, <1>4 DEF IsCall

\* A list has its elements once, others not at all.
LEMMA OnceFacts ==
  ASSUME NEW S, NEW s \in Seq(S), NoneTwice(s), NEW b
  PROVE  Times(b, s) = IF b \in Elems(s) THEN 1 ELSE 0
  <1>. DEFINE I == {i \in DOMAIN s : s[i] = b}
  <1>0. DOMAIN s = 1 .. Len(s) /\ Elems(s) = {s[i] : i \in 1 .. Len(s)}
    BY ListDomain
  <1>1. CASE b \in Elems(s)
    <2>1. PICK i \in 1 .. Len(s) : s[i] = b
      BY <1>0, <1>1
    <2>2. I = {i}
      BY <1>0, <2>1 DEF NoneTwice
    <2>3. Cardinality(I) = 1
      BY <2>2, FS_Singleton
    <2>. QED
      BY <1>1, <2>3 DEF Times
  <1>2. CASE b \notin Elems(s)
    <2>1. I = {}
      BY <1>0, <1>2
    <2>2. Cardinality(I) = 0
      BY <2>1, FS_EmptySet
    <2>. QED
      BY <1>2, <2>2 DEF Times
  <1>. QED
    BY <1>1, <1>2

LEMMA KeptFacts ==
  ThreadInv /\ BlockInv => MessagesKept
  <1>. SUFFICES ASSUME ThreadInv, BlockInv PROVE MessagesKept
    OBVIOUS
  <1>1. \A t \in Threads : IsCall(todo[t])
    BY DEF ThreadInv, ListInv, CallsRight
  <1>2. ASSUME NEW t \in Threads, NEW b
        PROVE  b \in HandOf(todo[t]) <=>
                 /\ todo[t] # <<>>
                 /\ \/ Head(todo[t])[1] \in Ways /\ Head(todo[t])[3] = b
                    \/ Head(todo[t])[1] = "mq_copy" /\ Head(todo[t])[2] = b
    <2>. DEFINE c == todo[t]
    <2>1. c # <<>> => /\ c[Len(c)][1] \in Carrying => Head(c) = c[Len(c)]
                      /\ Head(c)[1] \in Carrying => Head(c) = c[Len(c)]
      BY <1>1, CarryFacts
    <2>2. \A x : x \in Carrying <=> x \in Ways \/ x = "mq_copy"
      BY DEF Carrying, Ways
    <2>3. "mq_copy" \notin Ways
      BY DEF Ways
    <2>. HIDE DEF c
    <2>4. b \in HandOf(c) <=>
                 /\ c # <<>>
                 /\ \/ Head(c)[1] \in Ways /\ Head(c)[3] = b
                    \/ Head(c)[1] = "mq_copy" /\ Head(c)[2] = b
      BY <2>1, <2>2, <2>3 DEF HandOf, BlockOf
    <2>. QED
      BY <2>4 DEF c
  <1>3. ASSUME NEW b \in Blocks
        PROVE  Times(b, free) + Times(b, queue) + Cardinality(InHand(b)) = 1
    <2>1. InHand(b) = {t \in Threads : b \in HandOf(todo[t])}
      BY <1>2 DEF InHand
    <2>2. /\ Times(b, free) = IF b \in Elems(free) THEN 1 ELSE 0
          /\ Times(b, queue) = IF b \in Elems(queue) THEN 1 ELSE 0
      BY OnceFacts DEF BlockInv
    <2>3. /\ Elems(free) \cap Elems(queue) = {}
          /\ \A t \in Threads : HandOf(todo[t]) \subseteq Blocks \ (Elems(free) \cup Elems(queue))
          /\ \A t, u \in Threads : t # u => HandOf(todo[t]) \cap HandOf(todo[u]) = {}
      BY BlockFacts
    <2>4. CASE b \in Elems(free) \cup Elems(queue)
      <3>1. InHand(b) = {}
        BY <2>1, <2>3, <2>4
      <3>2. Cardinality(InHand(b)) = 0
        BY <3>1, FS_EmptySet
      <3>. QED
        BY <2>2, <2>3, <2>4, <3>2
    <2>5. CASE b \notin Elems(free) \cup Elems(queue)
      <3>1. PICK t \in Threads : b \in Hands[t]
        BY <2>5 DEF BlockInv, Apart
      <3>2. InHand(b) = {t}
        BY <2>1, <2>3, <3>1 DEF Hands
      <3>3. Cardinality(InHand(b)) = 1
        BY <3>2, FS_Singleton
      <3>. QED
        BY <2>2, <2>5, <3>3
    <2>. QED
      BY <2>4, <2>5
  <1>4. ASSUME NEW t \in Threads, todo[t] # <<>>, Head(todo[t])[1] = "mq_copy"
        PROVE  contents[Head(todo[t])[2]] = Head(todo[t])[3]
    <2>1. Head(todo[t]) = todo[t][Len(todo[t])]
      BY <1>1, <1>4, CarryFacts DEF Carrying
    <2>2. WordRight(todo[t], contents)
      BY DEF BlockInv
    <2>. QED
      BY <1>4, <2>1, <2>2 DEF WordRight
  <1>. QED
    BY <1>3, <1>4 DEF MessagesKept

\* No message of the queue is lost or sent twice: each block is free, linked, or in the hands
\* of the one thread that fills or empties it, and who copies a message out copies the one it
\* took (rt_mq_send_wait, rt_mq_urgent, rt_mq_recv, rt_mq_control).
THEOREM MessagesKeptCorrect ==
  Spec /\ Unmanaged => []MessagesKept
  <1>1. MessagesInit /\ Unmanaged => ThreadInv /\ BlockInv
    BY InvInit, BlockInit
  <1>2. ThreadInv /\ BlockInv /\ [Next]_allVars => (ThreadInv /\ BlockInv)'
    BY InvStep, BlockNext
  <1>. QED
    BY <1>1, <1>2, KeptFacts, PTL DEF Spec
-----------------------------------------------------------------------------
\* The blocks of the memory pool: a thread that waits for one, or looks again, has none.
PoolEnds == {"mp_woken", "mp_again"}
PoolInv ==
  /\ blocks \in [Threads -> {0, 1}] /\ freeCount \in Nat
  /\ freeCount + Cardinality({t \in Threads : blocks[t] = 1}) = PoolSize
  /\ \A t \in Threads : todo[t] # <<>> /\ Last(t)[1] \in PoolEnds => blocks[t] = 0

LEMMA PoolStays ==
  ASSUME PoolInv, NEW K, K \cap PoolEnds = {}, Touches(K), UNCHANGED poolVars
  PROVE  PoolInv'
  <1>1. Aside \cap PoolEnds = {}
    BY DEF Aside, PoolEnds
  <1>2. ASSUME NEW t \in Threads, todo'[t] # <<>>, Last(t)'[1] \in PoolEnds PROVE blocks[t] = 0
    <2>1. ~Within(K, todo'[t])
      BY <1>1, <1>2 DEF Within, Last
    <2>2. SameLast(todo[t], todo'[t])
      BY <2>1 DEF Touches
    <2>3. todo[t] # <<>> /\ Last(t)[1] \in PoolEnds
      BY <1>2, <2>2 DEF SameLast, Last
    <2>. QED
      BY <2>3 DEF PoolInv
  <1>. QED
    BY <1>2 DEF PoolInv, poolVars

\* The thread that runs has no block and goes on with the call c.
LEMMA PoolGoes ==
  ASSUME ThreadInv, PoolInv, blocks[current] = 0, UNCHANGED <<blocks, freeCount>>,
         NEW c, todo' = [todo EXCEPT ![current] = c]
  PROVE  PoolInv'
  <1>1. current \in Threads /\ todo = [t \in Threads |-> todo[t]]
    BY DEF ThreadInv, ListInv, CurrentRight, CallsRight
  <1>2. \A t \in Threads : t # current => todo'[t] = todo[t]
    BY <1>1
  <1>. QED
    BY <1>2 DEF PoolInv, Last

\* It takes a block, or gives its block back.
LEMMA PoolTakes ==
  ASSUME ThreadInv, PoolInv, freeCount > 0, blocks[current] = 0, TakeBlock,
         todo' = [todo EXCEPT ![current] = <<>>]
  PROVE  PoolInv'
  <1>. DEFINE S == {t \in Threads : blocks[t] = 1}
  <1>1. current \in Threads /\ todo = [t \in Threads |-> todo[t]]
    BY DEF ThreadInv, ListInv, CurrentRight, CallsRight
  <1>2. /\ todo'[current] = <<>>
        /\ \A t \in Threads : t # current => todo'[t] = todo[t] /\ blocks'[t] = blocks[t]
        /\ blocks'[current] = 1 /\ blocks' \in [Threads -> {0, 1}]
        /\ freeCount \in Nat /\ freeCount' = freeCount - 1 /\ freeCount' \in Nat
    BY <1>1 DEF PoolInv, TakeBlock
  <1>3. IsFiniteSet(S) /\ Cardinality(S) \in Nat
    BY KernelAssumption, FS_Subset, FS_CardinalityType
  <1>4. {t \in Threads : blocks'[t] = 1} = S \cup {current} /\ current \notin S
    <2>1. \A t \in Threads : blocks'[t] = 1 <=> t \in S \/ t = current
      BY <1>1, <1>2
    <2>. QED
      BY <1>1, <2>1
  <1>5. freeCount + Cardinality(S) = PoolSize
    BY DEF PoolInv
  <1>. HIDE DEF S
  <1>6. Cardinality(S \cup {current}) = Cardinality(S) + 1
    BY <1>3, <1>4, FS_AddElement
  <1>7. freeCount' + Cardinality(S \cup {current}) = PoolSize
    BY <1>2, <1>3, <1>5, <1>6
  <1>8. \A t \in Threads : todo'[t] # <<>> /\ Last(t)'[1] \in PoolEnds => blocks'[t] = 0
    BY <1>2 DEF PoolInv, Last
  <1>. QED
    BY <1>2, <1>4, <1>7, <1>8 DEF PoolInv

LEMMA PoolGives ==
  ASSUME ThreadInv, PoolInv, MpFree
  PROVE  PoolInv'
  <1>. DEFINE S == {t \in Threads : blocks[t] = 1}
  <1>1. current \in Threads /\ todo = [t \in Threads |-> todo[t]]
    BY DEF ThreadInv, ListInv, CurrentRight, CallsRight
  <1>2. /\ blocks' = [blocks EXCEPT ![current] = @ - 1] /\ blocks[current] > 0
        /\ freeCount' = freeCount + 1 /\ todo[current] = <<>>
    BY DEF MpFree
  <1>3. PICK c : todo' = [todo EXCEPT ![current] = c] /\ (c = <<>> \/ c = <<Sch>>)
    BY DEF MpFree, CallerGoes, Sch
  <1>4. /\ \A t \in Threads : t # current => todo'[t] = todo[t] /\ blocks'[t] = blocks[t]
        /\ todo'[current] = c /\ blocks[current] = 1
        /\ blocks'[current] = 0 /\ blocks' \in [Threads -> {0, 1}]
        /\ freeCount \in Nat /\ freeCount' \in Nat
    BY <1>1, <1>2, <1>3 DEF PoolInv
  <1>5. IsFiniteSet(S) /\ Cardinality(S) \in Nat
    BY KernelAssumption, FS_Subset, FS_CardinalityType
  <1>6. {t \in Threads : blocks'[t] = 1} = S \ {current} /\ current \in S
    BY <1>1, <1>4
  <1>7. freeCount + Cardinality(S) = PoolSize
    BY DEF PoolInv
  <1>. HIDE DEF S
  <1>8. Cardinality(S \ {current}) = Cardinality(S) - 1
    BY <1>5, <1>6, FS_RemoveElement
  <1>9. freeCount' + Cardinality(S \ {current}) = PoolSize
    BY <1>2, <1>4, <1>5, <1>7, <1>8
  <1>10. \A t \in Threads : todo'[t] # <<>> /\ Last(t)'[1] \in PoolEnds => blocks'[t] = 0
    BY <1>4 DEF PoolInv, Last
  <1>. QED
    BY <1>4, <1>6, <1>9, <1>10 DEF PoolInv

LEMMA PoolMpAlloc ==
  ASSUME ThreadInv, PoolInv, NEW n, MpAlloc(n)
  PROVE  PoolInv'
  <1>1. blocks[current] = 0 /\ todo[current] = <<>> /\ todo = [t \in Threads |-> todo[t]]
    BY DEF MpAlloc, Calls, ThreadInv, ListInv, CallsRight
  <1>2. CASE freeCount > 0 /\ TakeBlock /\ UNCHANGED todo
    <2>1. todo' = [todo EXCEPT ![current] = <<>>]
      BY <1>1, <1>2
    <2>. QED
      BY <1>1, <1>2, <2>1, PoolTakes
  <1>3. CASE freeCount = 0 /\ WaitForBlock(n)
    <2>. DEFINE c == <<<<"schedule">>, <<"mp_woken", n>>>>
    <2>1. blocks' = blocks /\ freeCount' = freeCount /\ todo' = [todo EXCEPT ![current] = c]
      BY <1>3 DEF WaitForBlock, SuspendIn
    <2>. HIDE DEF c
    <2>. QED
      BY <1>1, <2>1, PoolGoes
  <1>. QED
    BY <1>2, <1>3 DEF MpAlloc

LEMMA PoolSections ==
  ASSUME ThreadInv, PoolInv, MpWoken \/ MpAgain
  PROVE  PoolInv'
  <1>1. ASSUME NEW s \in PoolEnds, At(s)
        PROVE  /\ blocks[current] = 0
               /\ Then(<<>>) => todo' = [todo EXCEPT ![current] = <<>>]
    <2>1. s \in EndNames \cup WorkNames /\ s \in PoolEnds \cup Aside
      BY DEF PoolEnds, EndNames, WorkNames
    <2>2. /\ todo[current] # <<>> /\ current \in Threads
          /\ Last(current) = todo[current][1] /\ todo[current][1][1] = s
      BY <1>1, <2>1, TouchAt
    <2>3. blocks[current] = 0
      BY <2>2 DEF PoolInv
    <2>. QED
      BY <1>1, <2>1, <2>3, TouchEnds
  <1>2. "mp_woken" \in PoolEnds /\ "mp_again" \in PoolEnds
    BY DEF PoolEnds
  <1>3. CASE MpWoken
    <2>. DEFINE n == Head(todo[current])[2]
                m == IF error[current] = "ok" THEN <<<<"mp_again", WaitLeft(n)>>>> ELSE <<>>
                c == m \o Tail(todo[current])
    <2>1. todo' = [todo EXCEPT ![current] = c] /\ At("mp_woken") /\ UNCHANGED <<blocks, freeCount>>
      BY <1>3 DEF MpWoken, Then, msgVars, poolVars
    <2>. HIDE DEF c
    <2>. QED
      BY <1>1, <1>2, <2>1, PoolGoes
  <1>4. CASE MpAgain
    <2>. DEFINE n == Head(todo[current])[2]
                c == <<<<"schedule">>, <<"mp_woken", n>>>>
    <2>1. /\ At("mp_again")
          /\ \/ freeCount > 0 /\ TakeBlock /\ Then(<<>>)
             \/ UNCHANGED <<blocks, freeCount>> /\ Then(<<>>)
             \/ blocks' = blocks /\ freeCount' = freeCount /\ todo' = [todo EXCEPT ![current] = c]
      BY <1>4 DEF MpAgain, WaitForBlock, SuspendIn, poolVars
    <2>. HIDE DEF c
    <2>2. CASE freeCount > 0 /\ TakeBlock /\ Then(<<>>)
      BY <1>1, <1>2, <2>1, <2>2, PoolTakes
    <2>3. CASE UNCHANGED <<blocks, freeCount>> /\ Then(<<>>)
      <3>. DEFINE d == <<>>
      <3>1. todo' = [todo EXCEPT ![current] = d]
        BY <1>1, <1>2, <2>1, <2>3
      <3>. HIDE DEF d
      <3>. QED
        BY <1>1, <1>2, <2>1, <2>3, <3>1, PoolGoes
    <2>. QED
      BY <1>1, <1>2, <2>1, <2>2, <2>3, PoolGoes
  <1>. QED
    BY <1>3, <1>4

\* The steps on the message queue.
LEMMA TouchMqSend ==
  ASSUME ThreadInv, NEW how \in Ways, NEW x, MqSend(how, x)
  PROVE  Touches(Ways)
  <1>. DEFINE e == <<how, x, Head(free)>>
              c == <<e>>
  <1>1. todo[current] = <<>> /\ todo' = [todo EXCEPT ![current] = c] /\ e[1] \in Ways \cup Aside
    BY DEF MqSend, Calls, Goes
  <1>. HIDE DEF e
  <1>2. Within(Ways, todo[current]) /\ Within(Ways, c)
    BY <1>1, LastFacts
  <1>. HIDE DEF c
  <1>. QED
    BY <1>1, <1>2, TouchGoes

LEMMA TouchMqReceive ==
  ASSUME ThreadInv, NEW n, MqReceive(n)
  PROVE  Touches({"mq_copy", "mq_again"})
  <1>. DEFINE K == {"mq_copy", "mq_again"}
              next == <<"mq_again", n>>
              e == <<"mq_copy", Head(queue), contents[Head(queue)]>>
              c == <<e>>
  <1>1. /\ todo[current] = <<>> /\ next[1] \in K /\ e[1] \in K \cup Aside
        /\ todo' = [todo EXCEPT ![current] = c] \/ SuspendOn(Queue, n, ready, next)
    BY DEF MqReceive, Calls, Goes, Copying
  <1>. HIDE DEF K, next, e
  <1>2. Within(K, todo[current]) /\ Within(K, c)
    BY <1>1, LastFacts
  <1>. HIDE DEF c
  <1>3. Touches(K)
    BY <1>1, <1>2, TouchGoes, TouchBegins
  <1>. QED
    BY <1>3 DEF K

LEMMA TouchMqAgain ==
  ASSUME ThreadInv, MqReceiveAgain
  PROVE  Touches({"mq_copy", "mq_again"})
  <1>. DEFINE K == {"mq_copy", "mq_again"}
              n == Head(todo[current])[2]
              next == <<"mq_again", WaitLeft(n)>>
              e == <<"mq_copy", Head(queue), contents[Head(queue)]>>
              c == <<e>>
  <1>1. /\ At("mq_again") /\ next[1] = "mq_again" /\ e[1] \in K \cup Aside
        /\ \/ Fails(queue = <<>>, n) \/ WaitsAgain(Queue, WaitLeft(n), next)
           \/ Then(c)
    BY DEF MqReceiveAgain, Copying
  <1>0. Fails(queue = <<>>, n) \/ WaitsAgain(Queue, WaitLeft(n), next) \/ Then(c)
    BY <1>1
  <1>2. /\ "mq_again" \in Looping /\ "mq_again" \in EndNames \cup WorkNames
        /\ "mq_again" \in K \cup Aside /\ {"mq_again"} \subseteq K
    BY DEF Looping, EndNames
  <1>. HIDE DEF K, next, e, n
  <1>3. c \o <<>> = c /\ Within(K, c)
    BY <1>1, LastFacts, RestFacts
  <1>4. Within(K, todo[current]) /\ c \o Tail(todo[current]) = c \o <<>>
    BY <1>1, <1>2, TouchAt
  <1>. HIDE DEF c
  <1>6. ASSUME Fails(queue = <<>>, n) \/ WaitsAgain(Queue, WaitLeft(n), next) PROVE Touches(K)
    <2>1. Touches({"mq_again"})
      BY <1>1, <1>2, <1>6, TouchLoop
    <2>. QED
      BY <1>2, <2>1, TouchMore
  <1>7. ASSUME Then(c) PROVE Touches(K)
    <2>1. todo' = [todo EXCEPT ![current] = c]
      BY <1>3, <1>4, <1>7 DEF Then
    <2>2. Within(K, todo[current])
      BY <1>4
    <2>3. Within(K, c)
      BY <1>3
    <2>. QED
      BY <2>1, <2>2, <2>3, TouchGoes
  <1>5. Touches(K)
    BY <1>0, <1>6, <1>7
  <1>. QED
    BY <1>5 DEF K

LEMMA PoolNext ==
  ThreadInv /\ PoolInv /\ [Next]_allVars => PoolInv'
  <1>0. /\ IpcEnds \cap PoolEnds = {} /\ {"event_end"} \cap PoolEnds = {} /\ {} \cap PoolEnds = {}
        /\ Ways \cap PoolEnds = {} /\ {"mq_copy"} \cap PoolEnds = {}
        /\ {"mq_again"} \cap PoolEnds = {}
        /\ {"mq_send", "mq_urgent"} \cap PoolEnds = {} /\ {"mq_copy", "mq_again"} \cap PoolEnds = {}
    BY DEF IpcEnds, PoolEnds, Ways
  <1>1. ASSUME ThreadInv, PoolInv, IpcNext, UNCHANGED msgVars PROVE PoolInv'
    <2>1. UNCHANGED poolVars
      BY <1>1 DEF msgVars
    <2>. QED
      BY <1>0, <1>1, <2>1, TouchIpc, PoolStays
  <1>2. ASSUME ThreadInv, PoolInv, MsgInCall PROVE PoolInv'
    <2>1. CASE EventEnd \/ MqCopied \/ \E how \in Ways : MqLink(how)
      <3>1. UNCHANGED poolVars
        BY <2>1 DEF EventEnd, MqCopied, MqLink, msgVars
      <3>2. \E K : Touches(K) /\ K \cap PoolEnds = {}
        BY <1>0, <1>2, <2>1, TouchEnd
      <3>. QED
        BY <1>2, <3>1, <3>2, PoolStays
    <2>2. CASE MqReceiveAgain
      <3>1. UNCHANGED poolVars
        BY <2>2 DEF MqReceiveAgain
      <3>. QED
        BY <1>0, <1>2, <2>2, <3>1, TouchMqAgain, PoolStays
    <2>. QED
      BY <1>2, <2>1, <2>2, PoolSections DEF MsgInCall
  <1>3. ASSUME ThreadInv, PoolInv, MsgCall PROVE PoolInv'
    <2>1. ASSUME NEW s, NEW all, NEW clear, NEW n, EventSend(s) \/ EventRecv(s, all, clear, n)
          PROVE  PoolInv'
      <3>1. UNCHANGED poolVars
        BY <2>1 DEF EventSend, EventRecv, SetBits
      <3>. QED
        BY <1>0, <1>3, <2>1, <3>1, TouchEvent, PoolStays
    <2>2. CASE EventReset \/ MqReset
      <3>1. UNCHANGED poolVars /\ Touches({})
        BY <1>3, <2>2, TouchGives DEF EventReset, MqReset
      <3>. QED
        BY <1>0, <1>3, <3>1, PoolStays
    <2>3. ASSUME NEW how \in Ways, NEW x, MqSend(how, x) PROVE PoolInv'
      <3>1. UNCHANGED poolVars
        BY <2>3 DEF MqSend
      <3>. QED
        BY <1>0, <1>3, <2>3, <3>1, TouchMqSend, PoolStays
    <2>4. ASSUME NEW n, MqReceive(n) PROVE PoolInv'
      <3>1. UNCHANGED poolVars
        BY <2>4 DEF MqReceive
      <3>. QED
        BY <1>0, <1>3, <2>4, <3>1, TouchMqReceive, PoolStays
    <2>. QED
      BY <1>3, <2>1, <2>2, <2>3, <2>4, PoolMpAlloc, PoolGives DEF MsgCall
  <1>4. ASSUME ThreadInv, PoolInv, MsgHandler PROVE PoolInv'
    <2>1. UNCHANGED poolVars /\ UNCHANGED todo
      BY <1>4 DEF MsgHandler, EventSendISR, MqSendISR, SetBits, HandlerGoes
    <2>. QED
      BY <1>0, <1>4, <2>1, TouchStays, PoolStays
  <1>5. ASSUME PoolInv, UNCHANGED allVars PROVE PoolInv'
    <2>1. UNCHANGED poolVars /\ UNCHANGED todo
      BY <1>5 DEF allVars, ipcAndKernel, vars, threadVars, msgVars
    <2>. QED
      BY <1>0, <1>5, <2>1, TouchStays, PoolStays
  <1>. QED
    BY <1>1, <1>2, <1>3, <1>4, <1>5 DEF Next

LEMMA PoolInit ==
  MessagesInit => PoolInv
  <1>. SUFFICES ASSUME MessagesInit PROVE PoolInv
    OBVIOUS
  <1>1. /\ freeCount = PoolSize /\ blocks = [t \in Threads |-> 0] /\ todo = [t \in Threads |-> <<>>]
        /\ PoolSize \in Nat
    BY MessagesAssumption DEF MessagesInit, IpcInit, Init
  <1>. DEFINE S == {t \in Threads : blocks[t] = 1}
  <1>2. S = {}
    BY <1>1
  <1>. HIDE DEF S
  <1>3. freeCount + Cardinality(S) = PoolSize
    BY <1>1, <1>2, FS_EmptySet
  <1>. QED
    BY <1>1, <1>3 DEF PoolInv, S

LEMMA PoolFacts ==
  PoolInv => PoolKept
  BY DEF PoolInv, PoolKept
-----------------------------------------------------------------------------
\* Waits: a thread that waits is in the list it waits in, and was resumed with no error.

Results == {"ok", "timeout", "error"}
WaitInv ==
  /\ error \in [Threads -> Results]
  /\ \A l \in Lists : \A t \in Elems(waitList[l]) : error[t] = "ok"
  /\ \A t \in Threads : \A l \in Lists :
       WaitingIn(todo[t], l) => stat[t] = "ready" \/ t \in Elems(waitList[l])

\* The call c waits in list l, or is about to look at the pool again, for a block; and it does
\* so for none but the lists L.
Working(c)    == c # <<>> /\ c[Len(c)][1] = "mp_again"
Seeks(c, l)   == WaitingIn(c, l) \/ (l = Pool /\ Working(c))
Reaches(c, L) == \A l \in Lists : Seeks(c, l) => l \in L

\* A step is about the lists L: what else it does to a thread is to let it go with an error.
Elsewhere(t) == Reaches(todo[t], {}) /\ Reaches(todo'[t], {})
Steady(t) == /\ SameLast(todo[t], todo'[t]) /\ stat'[t] = stat[t] /\ error'[t] = error[t]
             /\ \A l \in Lists : t \in Elems(waitList'[l]) <=> t \in Elems(waitList[l])
Resumed(t, L) ==
  /\ SameLast(todo[t], todo'[t]) /\ t \in Waiters /\ stat'[t] = "ready"
  /\ error'[t] # "ok" \/ (error'[t] = error[t] /\ Reaches(todo[t], L))
Calling(t, L) ==
  /\ t = current /\ Reaches(todo[t], L) /\ Reaches(todo'[t], L) /\ stat[t] = "ready"
  /\ \/ stat'[t] = "ready"
     \/ error'[t] = "ok" /\ \E l \in Lists : t \in Elems(waitList'[l])
StepOn(L) ==
  /\ error' \in [Threads -> Results]
  /\ \A t \in Threads : Elsewhere(t) \/ Steady(t) \/ Resumed(t, L) \/ Calling(t, L)

LEMMA ReachFacts ==
  /\ \A L : Reaches(<<>>, L) /\ Reaches(<<Sch>>, L)
  /\ \A e, l : IsEnd(e) /\ EndIn(e, l) => Reaches(<<e>>, {l}) /\ Reaches(<<Sch, e>>, {l})
  /\ \A e, L : IsWork(e) /\ (e[1] = "mp_again" => Pool \in L) => Reaches(<<e>>, L)
  /\ \A c, L : Within({}, c) => Reaches(c, L)
  /\ \A c, L, M : L \subseteq M /\ Reaches(c, L) => Reaches(c, M)
  /\ \A c : Waiting(c) => ~Working(c)
  /\ \A c, k, l : WaitingIn(c, k) /\ Seeks(c, l) => k = l
  /\ \A c, d, l : SameLast(c, d) => (WaitingIn(c, l) <=> WaitingIn(d, l))
  /\ \A c, d, l : SameLast(c, d) => (Seeks(c, l) <=> Seeks(d, l))
  <1>1. \A e, k, l : EndIn(e, k) /\ EndIn(e, l) => k = l
    BY DEF EndIn
  <1>2. \A e : IsEnd(e) => e[1] # "mp_again"
    BY DEF IsEnd
  <1>3. \A c : Waiting(c) => ~Working(c)
    BY <1>2 DEF Waiting, Working
  <1>4. \A c, k, l : WaitingIn(c, k) /\ Seeks(c, l) => k = l
    BY <1>1, <1>3 DEF WaitingIn, Seeks
  <1>5. \A L : Reaches(<<>>, L) /\ Reaches(<<Sch>>, L)
    <2>1. ~Working(<<>>) /\ ~Working(<<Sch>>)
      BY LastFacts DEF Working, Sch
    <2>. QED
      BY <2>1, CallFacts DEF Reaches, Seeks, WaitingIn
  <1>6. ASSUME NEW e, NEW l, IsEnd(e), EndIn(e, l)
        PROVE  Reaches(<<e>>, {l}) /\ Reaches(<<Sch, e>>, {l})
    <2>1. WaitingIn(<<e>>, l) /\ WaitingIn(<<Sch, e>>, l)
      BY <1>6, CallFacts
    <2>. QED
      BY <1>4, <2>1 DEF Reaches
  <1>7. \A e, L : IsWork(e) /\ (e[1] = "mp_again" => Pool \in L) => Reaches(<<e>>, L)
    <2>1. \A e : Working(<<e>>) => e[1] = "mp_again"
      BY LastFacts DEF Working
    <2>. QED
      BY <2>1, CallFacts DEF Reaches, Seeks, WaitingIn
  <1>8. ASSUME NEW c, NEW L, Within({}, c) PROVE Reaches(c, L)
    <2>1. ~Working(c) /\ \A l : c # <<>> => ~EndIn(c[Len(c)], l)
      BY <1>8 DEF Within, Aside, EndIn, Working
    <2>. QED
      BY <2>1 DEF Reaches, Seeks, WaitingIn, Waiting
  <1>9. \A c, L, M : L \subseteq M /\ Reaches(c, L) => Reaches(c, M)
    BY DEF Reaches
  <1>10. /\ \A c, d, l : SameLast(c, d) => (WaitingIn(c, l) <=> WaitingIn(d, l))
         /\ \A c, d, l : SameLast(c, d) => (Seeks(c, l) <=> Seeks(d, l))
    BY DEF SameLast, Seeks, Working, WaitingIn, Waiting
  <1>11. \A e, l : IsEnd(e) /\ EndIn(e, l) => Reaches(<<e>>, {l}) /\ Reaches(<<Sch, e>>, {l})
    BY <1>6
  <1>12. \A c, L : Within({}, c) => Reaches(c, L)
    BY <1>8
  <1>13. /\ \A L : Reaches(<<>>, L) /\ Reaches(<<Sch>>, L)
         /\ \A e, l : IsEnd(e) /\ EndIn(e, l) => Reaches(<<e>>, {l}) /\ Reaches(<<Sch, e>>, {l})
         /\ \A e, L : IsWork(e) /\ (e[1] = "mp_again" => Pool \in L) => Reaches(<<e>>, L)
    BY <1>5, <1>7, <1>11
  <1>14. /\ \A c, L : Within({}, c) => Reaches(c, L)
         /\ \A c, L, M : L \subseteq M /\ Reaches(c, L) => Reaches(c, M)
         /\ \A c : Waiting(c) => ~Working(c)
         /\ \A c, k, l : WaitingIn(c, k) /\ Seeks(c, l) => k = l
    BY <1>3, <1>4, <1>9, <1>12
  <1>. QED
    BY <1>10, <1>13, <1>14

\* Such a step keeps what is to be kept.
LEMMA WaitStep ==
  ASSUME ThreadInv, ThreadInv', WaitInv, NEW L, StepOn(L)
  PROVE  WaitInv'
  <1>1. \A l \in Lists : \A t \in Elems(waitList'[l]) :
          t \in Threads /\ stat'[t] = "suspend" /\ WaitingIn(todo'[t], l)
    <2>1. waitList' \in [Lists -> Seq(Threads)]
      BY DEF ThreadInv, KernelTypes
    <2>2. \A l \in Lists : waitList'[l] \in Seq(Threads)
      BY <2>1
    <2>3. \A l \in Lists : Elems(waitList'[l]) \subseteq Threads
      BY <2>2, ListDomain
    <2>. QED
      BY <2>3 DEF ThreadInv, ListInv, ListsRight
  <1>2. ASSUME NEW l \in Lists, NEW t \in Elems(waitList'[l]) PROVE error'[t] = "ok"
    <2>1. t \in Threads /\ stat'[t] # "ready" /\ WaitingIn(todo'[t], l)
      BY <1>1
    <2>2. ~Elsewhere(t)
      BY <2>1 DEF Elsewhere, Reaches, Seeks
    <2>3. Steady(t) => error'[t] = "ok"
      BY DEF Steady, WaitInv
    <2>4. ~Resumed(t, L)
      BY <2>1 DEF Resumed
    <2>5. Calling(t, L) => error'[t] = "ok"
      BY <2>1 DEF Calling
    <2>. QED
      BY <2>1, <2>2, <2>3, <2>4, <2>5 DEF StepOn
  <1>3. ASSUME NEW t \in Threads, NEW l \in Lists, WaitingIn(todo'[t], l), stat'[t] # "ready"
        PROVE  t \in Elems(waitList'[l])
    <2>2. ~Elsewhere(t)
      BY <1>3 DEF Elsewhere, Reaches, Seeks
    <2>3. CASE Steady(t)
      <3>1. WaitingIn(todo[t], l) /\ stat[t] # "ready"
        BY <1>3, <2>3, ReachFacts DEF Steady
      <3>3. t \in Elems(waitList[l])
        BY <3>1 DEF WaitInv
      <3>. QED
        BY <2>3, <3>3 DEF Steady
    <2>4. ~Resumed(t, L)
      BY <1>3 DEF Resumed
    <2>5. CASE Calling(t, L)
      <3>1. PICK k \in Lists : t \in Elems(waitList'[k])
        BY <1>3, <2>5 DEF Calling
      <3>2. k = l
        BY <1>1, <1>3, <3>1, ReachFacts DEF Seeks
      <3>. QED
        BY <3>1, <3>2
    <2>. QED
      BY <2>2, <2>3, <2>4, <2>5 DEF StepOn
  <1>. QED
    BY <1>2, <1>3 DEF WaitInv, StepOn

\* A thread that was let go, without an error, from the section e of a call that waits in the
\* list l, and is yet to execute it.
Ending(e, t) == todo[t] # <<>> /\ Last(t) = e
LetGo(e, t) == Ending(e, t) /\ error[t] = "ok" /\ stat[t] = "ready"

\* A step about other lists changes nothing of that.
LEMMA OtherLists ==
  ASSUME ThreadInv, ThreadInv', WaitInv, NEW L, StepOn(L), NEW l \in Lists \ L,
         NEW e, IsEnd(e), EndIn(e, l), NEW t \in Threads
  PROVE  /\ Ending(e, t)' <=> Ending(e, t)
         /\ LetGo(e, t)' <=> LetGo(e, t)
         /\ t \in Elems(waitList'[l]) => t \in Elems(waitList[l])
  <1>1. Ending(e, t) => WaitingIn(todo[t], l)
    BY DEF Ending, Last, WaitingIn, Waiting
  <1>2. Ending(e, t)' => WaitingIn(todo'[t], l)
    BY DEF Ending, Last, WaitingIn, Waiting
  <1>3. t \in Elems(waitList'[l]) => stat'[t] = "suspend" /\ WaitingIn(todo'[t], l)
    BY DEF ThreadInv, ListInv, ListsRight
  <1>4. \A c : WaitingIn(c, l) => ~Reaches(c, {}) /\ ~Reaches(c, L)
    BY DEF Reaches, Seeks
  <1>5. SameLast(todo[t], todo'[t]) => (Ending(e, t)' <=> Ending(e, t))
    BY DEF SameLast, Ending, Last
  <1>6. CASE Elsewhere(t)
    BY <1>1, <1>2, <1>3, <1>4, <1>6 DEF Elsewhere, LetGo
  <1>7. CASE Steady(t)
    BY <1>5, <1>7 DEF Steady, LetGo
  <1>8. CASE Resumed(t, L)
    <2>1. stat[t] = "suspend"
      BY <1>8 DEF Resumed, Waiters
    <2>2. Ending(e, t)' => error'[t] # "ok"
      BY <1>1, <1>4, <1>5, <1>8 DEF Resumed
    <2>. QED
      BY <1>3, <1>5, <1>8, <2>1, <2>2 DEF Resumed, LetGo
  <1>9. CASE Calling(t, L)
    BY <1>1, <1>2, <1>3, <1>4, <1>9 DEF Calling, LetGo
  <1>. QED
    BY <1>6, <1>7, <1>8, <1>9 DEF StepOn
-----------------------------------------------------------------------------
\* Which lists the steps are about.

\* The threads R leave the lists they are in, with an error or those L.
Departs(R, L) ==
  /\ R \in SUBSET Waiters /\ stat' = Readied(stat, R)
  /\ \A l \in Lists : Elems(waitList'[l]) = Elems(waitList[l]) \ R
  /\ error' \in [Threads -> Results]
  /\ \A t \in Threads : error'[t] = error[t] \/ (t \in R /\ error'[t] # "ok")
  /\ \A t \in R : error'[t] # "ok" \/ Reaches(todo[t], L)

LEMMA StepMore ==
  ASSUME NEW L, NEW M, L \subseteq M, StepOn(L)
  PROVE  StepOn(M)
  <1>1. \A t : Resumed(t, L) => Resumed(t, M)
    BY ReachFacts DEF Resumed
  <1>2. \A t : Calling(t, L) => Calling(t, M)
    BY ReachFacts DEF Calling
  <1>. QED
    BY <1>1, <1>2 DEF StepOn

LEMMA StepDeparts ==
  ASSUME ThreadInv, NEW R, NEW L, Departs(R, L),
         \/ UNCHANGED todo
         \/ /\ stat[current] = "ready" /\ Reaches(todo[current], L)
            /\ \E c : todo' = [todo EXCEPT ![current] = c] /\ Reaches(c, L)
  PROVE  StepOn(L)
  <1>1. /\ stat \in [Threads -> Stats] /\ todo = [t \in Threads |-> todo[t]]
        /\ current \in Threads
    BY DEF ThreadInv, KernelTypes, ListInv, CallsRight, CurrentRight
  <1>2. \A t \in Threads : stat'[t] = IF t \in R THEN "ready" ELSE stat[t]
    BY <1>1 DEF Departs, Readied
  <1>3. ASSUME NEW t \in Threads, todo'[t] = todo[t]
        PROVE  Steady(t) \/ Resumed(t, L)
    <2>1. SameLast(todo[t], todo'[t])
      BY <1>3 DEF SameLast
    <2>2. CASE t \in R
      BY <1>2, <2>1, <2>2 DEF Departs, Resumed
    <2>3. CASE t \notin R
      BY <1>2, <2>1, <2>3 DEF Departs, Steady
    <2>. QED
      BY <2>2, <2>3
  <1>4. CASE UNCHANGED todo
    BY <1>3, <1>4 DEF StepOn, Departs
  <1>5. CASE /\ stat[current] = "ready" /\ Reaches(todo[current], L)
             /\ \E c : todo' = [todo EXCEPT ![current] = c] /\ Reaches(c, L)
    <2>1. PICK c : todo' = [todo EXCEPT ![current] = c] /\ Reaches(c, L)
      BY <1>5
    <2>2. \A t \in Threads : todo'[t] = IF t = current THEN c ELSE todo[t]
      BY <1>1, <2>1
    <2>3. Calling(current, L)
      BY <1>1, <1>2, <1>5, <2>1, <2>2 DEF Calling
    <2>. QED
      BY <1>3, <2>2, <2>3 DEF StepOn, Departs
  <1>. QED
    BY <1>4, <1>5

\* Nobody leaves, and the caller is in no list.
LEMMA StepPlain ==
  ASSUME ThreadInv, WaitInv, NEW L, UNCHANGED <<stat, waitList>>, error' \in [Threads -> Results],
         \A t \in Threads \ {current} : error'[t] = error[t],
         UNCHANGED todo \/ \E c : todo' = [todo EXCEPT ![current] = c] /\ Reaches(c, L),
         stat[current] = "ready", Reaches(todo[current], L)
  PROVE  StepOn(L)
  <1>1. current \in Threads /\ todo = [t \in Threads |-> todo[t]]
    BY DEF ThreadInv, ListInv, CallsRight, CurrentRight
  <1>2. PICK c : todo' = [todo EXCEPT ![current] = c] /\ Reaches(c, L)
    <2>1. CASE UNCHANGED todo
      <3>1. todo' = [todo EXCEPT ![current] = todo[current]]
        BY <1>1, <2>1
      <3>. QED
        BY <3>1
    <2>. QED
      BY <2>1
  <1>3. \A t \in Threads : todo'[t] = IF t = current THEN c ELSE todo[t]
    BY <1>1, <1>2
  <1>4. Calling(current, L)
    BY <1>1, <1>2, <1>3 DEF Calling
  <1>5. \A t \in Threads \ {current} : Steady(t)
    BY <1>3 DEF Steady, SameLast
  <1>. QED
    BY <1>4, <1>5 DEF StepOn

\* The caller begins to wait.
LEMMA StepSuspends ==
  ASSUME ThreadInv, WaitInv, NEW l \in Lists, NEW L, l \in L, NEW w,
         Elems(w) = Elems(waitList[l]) \cup {current}, NEW n, NEW r,
         NEW next, IsEnd(next), EndIn(next, l), SuspendIn(l, w, n, r, next),
         error' = [error EXCEPT ![current] = "ok"],
         stat[current] = "ready", Reaches(todo[current], L)
  PROVE  StepOn(L)
  <1>. DEFINE c == <<Sch, next>>
  <1>1. /\ stat' = [stat EXCEPT ![current] = "suspend"]
        /\ waitList' = [waitList EXCEPT ![l] = w]
        /\ todo' = [todo EXCEPT ![current] = c]
    BY DEF SuspendIn, Sch
  <1>2. /\ stat \in [Threads -> Stats] /\ todo = [t \in Threads |-> todo[t]]
        /\ current \in Threads /\ waitList \in [Lists -> Seq(Threads)]
        /\ error \in [Threads -> Results]
    BY DEF ThreadInv, KernelTypes, ListInv, CallsRight, CurrentRight, WaitInv
  <1>3. Reaches(c, L)
    <2>1. Reaches(c, {l})
      BY ReachFacts
    <2>. HIDE DEF c
    <2>. QED
      BY <2>1, ReachFacts
  <1>. HIDE DEF c
  <1>4. \A t \in Threads : /\ todo'[t] = IF t = current THEN c ELSE todo[t]
                           /\ t # current => stat'[t] = stat[t]
                           /\ error'[t] = IF t = current THEN "ok" ELSE error[t]
    BY <1>1, <1>2
  <1>5. \A k \in Lists : waitList'[k] = IF k = l THEN w ELSE waitList[k]
    BY <1>1, <1>2
  <1>6. Calling(current, L)
    BY <1>2, <1>3, <1>4, <1>5 DEF Calling
  <1>7. \A t \in Threads \ {current} : Steady(t)
    BY <1>4, <1>5 DEF Steady, SameLast
  <1>8. error' \in [Threads -> Results]
    BY <1>2, <1>4 DEF Results
  <1>. QED
    BY <1>6, <1>7, <1>8 DEF StepOn

LEMMA StepBegins ==
  ASSUME ThreadInv, WaitInv, NEW l \in Lists, NEW L, l \in L, NEW n, NEW r,
         NEW next, IsEnd(next), EndIn(next, l), SuspendOn(l, n, r, next),
         stat[current] = "ready", Reaches(todo[current], L)
  PROVE  /\ StepOn(L)
         /\ Elems(waitList'[l]) = Elems(waitList[l]) \cup {current}
         /\ \A k \in Lists \ {l} : waitList'[k] = waitList[k]
  <1>. DEFINE w == Enlisted(l, current)
  <1>1. SuspendIn(l, w, n, r, next) /\ error' = [error EXCEPT ![current] = "ok"]
    BY DEF SuspendOn
  <1>2. /\ waitList[l] \in Seq(Threads) /\ NoneTwice(waitList[l])
        /\ current \notin Elems(waitList[l])
    BY OneList DEF Waiters, ThreadInv
  <1>3. /\ current \in Threads /\ priority \in [Threads -> Prios]
        /\ waitList \in [Lists -> Seq(Threads)]
    BY DEF KernelTypes, ListInv, CurrentRight, ThreadInv
  <1>4. Elems(w) = Elems(waitList[l]) \cup {current}
    BY <1>2, <1>3, EnlistedFacts
  <1>. HIDE DEF w
  <1>5. StepOn(L)
    BY <1>1, <1>4, StepSuspends
  <1>6. waitList' = [waitList EXCEPT ![l] = w]
    BY <1>1 DEF SuspendIn
  <1>. QED
    BY <1>3, <1>4, <1>5, <1>6

\* The first thread of a list leaves it.
LEMMA DepartFirst ==
  ASSUME ThreadInv, WaitInv, NEW l \in Lists, waitList[l] # <<>>, NEW r, NEW prio,
         ResumeFirst(l, r, prio), UNCHANGED error
  PROVE  /\ Departs({Head(waitList[l])}, {l})
         /\ Head(waitList[l]) \in Elems(waitList[l]) /\ Head(waitList[l]) \in Threads
         /\ WaitingIn(todo[Head(waitList[l])], l)
         /\ error[Head(waitList[l])] = "ok" /\ stat[Head(waitList[l])] = "suspend"
  <1>. DEFINE h == Head(waitList[l])
  <1>1. /\ waitList[l] \in Seq(Threads) /\ NoneTwice(waitList[l])
        /\ Elems(waitList[l]) \subseteq Waiters
        /\ \A t \in Elems(waitList[l]) : WaitingIn(todo[t], l)
        /\ \A m \in Lists \ {l} : Elems(waitList[l]) \cap Elems(waitList[m]) = {}
    BY OneList DEF ThreadInv
  <1>2. /\ h \in Threads /\ h \in Elems(waitList[l])
        /\ Elems(Tail(waitList[l])) = Elems(waitList[l]) \ {h}
    BY <1>1, TailFacts
  <1>3. /\ stat' = [stat EXCEPT ![h] = "ready"]
        /\ waitList' = [waitList EXCEPT ![l] = Tail(waitList[l])]
    BY DEF ResumeFirst
  <1>4. /\ stat \in [Threads -> Stats] /\ waitList \in [Lists -> Seq(Threads)]
        /\ error \in [Threads -> Results]
    BY DEF ThreadInv, KernelTypes, WaitInv
  <1>. HIDE DEF h
  <1>5. stat' = Readied(stat, {h})
    BY <1>2, <1>3, <1>4 DEF Readied
  <1>6. \A m \in Lists : Elems(waitList'[m]) = Elems(waitList[m]) \ {h}
    <2>1. \A m \in Lists : waitList'[m] = IF m = l THEN Tail(waitList[l]) ELSE waitList[m]
      BY <1>3, <1>4
    <2>2. \A m \in Lists \ {l} : h \notin Elems(waitList[m])
      BY <1>1, <1>2
    <2>. QED
      BY <1>2, <2>1, <2>2
  <1>7. h \in Waiters /\ WaitingIn(todo[h], l) /\ error[h] = "ok" /\ stat[h] = "suspend"
    BY <1>1, <1>2 DEF WaitInv, Waiters
  <1>8. Reaches(todo[h], {l})
    BY <1>7, ReachFacts DEF Reaches
  <1>9. Departs({h}, {l})
    BY <1>4, <1>5, <1>6, <1>7, <1>8 DEF Departs
  <1>. QED
    BY <1>2, <1>7, <1>9 DEF h

LEMMA DepartNobody ==
  ASSUME ThreadInv, WaitInv, NEW L, UNCHANGED <<stat, waitList, error>>
  PROVE  Departs({}, L)
  <1>1. stat' = Readied(stat, {})
    BY DEF Readied, ThreadInv, KernelTypes
  <1>. QED
    BY <1>1 DEF Departs, WaitInv

LEMMA DepartOne ==
  ASSUME ThreadInv, WaitInv, NEW l \in Lists, ResumeOne(l), UNCHANGED error
  PROVE  \E R : Departs(R, {l})
  <1>1. CASE waitList[l] # <<>>
    <2>1. ResumeFirst(l, ready, priority)
      BY <1>1 DEF ResumeOne
    <2>. QED
      BY <1>1, <2>1, DepartFirst
  <1>2. CASE waitList[l] = <<>>
    <2>1. UNCHANGED <<stat, waitList, error>>
      BY <1>2 DEF ResumeOne, ResumeNobody
    <2>. QED
      BY <2>1, DepartNobody
  <1>. QED
    BY <1>1, <1>2

\* All threads of one list leave it, or of two.
LEMMA DepartAll ==
  ASSUME ThreadInv, WaitInv, NEW l \in Lists, NEW m \in Lists,
         NEW ls \in {<<l>>, <<l, m>>}, l # m, ResumeAll(ls)
  PROVE  \E R : /\ Departs(R, {})
                /\ \A k \in Elems(ls) : waitList'[k] = <<>>
                /\ \A t \in R : error'[t] # "ok"
  <1>. DEFINE all == IF Len(ls) = 1 THEN waitList[ls[1]] ELSE waitList[ls[1]] \o waitList[ls[2]]
  <1>1. /\ stat' = [t \in Threads |-> IF t \in Elems(all) THEN "ready" ELSE stat[t]]
        /\ error' = [t \in Threads |-> IF t \in Elems(all) THEN "error" ELSE error[t]]
        /\ waitList' = [k \in Lists |-> IF k \in Elems(ls) THEN <<>> ELSE waitList[k]]
    BY DEF ResumeAll
  <1>2. /\ waitList[l] \in Seq(Threads) /\ waitList[m] \in Seq(Threads)
        /\ NoneTwice(waitList[l]) /\ NoneTwice(waitList[m])
        /\ Elems(waitList[l]) \subseteq Waiters /\ Elems(waitList[m]) \subseteq Waiters
        /\ Elems(waitList[l]) \cap Elems(waitList[m]) = {}
        /\ \A k \in Lists \ {l} : Elems(waitList[l]) \cap Elems(waitList[k]) = {}
        /\ \A k \in Lists \ {m} : Elems(waitList[m]) \cap Elems(waitList[k]) = {}
    BY OneList DEF ThreadInv
  <1>3. /\ Elems(all) = UNION {Elems(waitList[k]) : k \in Elems(ls)} /\ Elems(ls) \subseteq Lists
        /\ Elems(all) \subseteq Waiters
        /\ \A k \in Lists : k \notin Elems(ls) => Elems(all) \cap Elems(waitList[k]) = {}
    <2>1. CASE ls = <<l>>
      <3>1. all = waitList[l] /\ Elems(ls) = {l}
        BY <2>1 DEF Elems
      <3>. HIDE DEF all
      <3>. QED
        BY <1>2, <3>1
    <2>2. CASE ls = <<l, m>>
      <3>0. Len(ls) = 2 /\ ls[1] = l /\ ls[2] = m /\ DOMAIN ls = {1, 2}
        BY <2>2
      <3>1. all = waitList[l] \o waitList[m] /\ Elems(ls) = {l, m}
        <4>1. Elems(ls) = {l, m}
          BY <3>0 DEF Elems
        <4>2. all = waitList[l] \o waitList[m]
          BY <3>0
        <4>. QED
          BY <4>1, <4>2
      <3>2. Elems(waitList[l] \o waitList[m]) = Elems(waitList[l]) \cup Elems(waitList[m])
        BY <1>2, ConcatFacts
      <3>. HIDE DEF all
      <3>. QED
        BY <1>2, <3>1, <3>2
    <2>. QED
      BY <2>1, <2>2
  <1>. HIDE DEF all
  <1>4. stat' = Readied(stat, Elems(all))
    BY <1>1 DEF Readied
  <1>5. error \in [Threads -> Results]
    BY DEF WaitInv
  <1>6. error' \in [Threads -> Results]
    BY <1>1, <1>5 DEF Results
  <1>7. \A t \in Threads : error'[t] = IF t \in Elems(all) THEN "error" ELSE error[t]
    BY <1>1
  <1>8. \A k \in Lists : waitList'[k] = IF k \in Elems(ls) THEN <<>> ELSE waitList[k]
    BY <1>1
  <1>9. \A k \in Lists : Elems(waitList'[k]) = Elems(waitList[k]) \ Elems(all)
    <2>1. Elems(<<>>) = {}
      BY DEF Elems
    <2>. QED
      BY <1>3, <1>8, <2>1
  <1>10. \A t \in Elems(all) : t \in Threads /\ error'[t] # "ok"
    BY <1>3, <1>7 DEF Waiters
  <1>11. Departs(Elems(all), {})
    BY <1>3, <1>4, <1>6, <1>7, <1>9, <1>10 DEF Departs
  <1>. QED
    BY <1>3, <1>8, <1>10, <1>11
-----------------------------------------------------------------------------
\* The steps, one by one.

LEMMA AtReaches ==
  ASSUME ThreadInv, NEW s \in EndNames \cup WorkNames, At(s)
  PROVE  /\ stat[current] = "ready" /\ current \in Threads /\ todo[current] # <<>>
         /\ todo[current] = <<todo[current][1]>> /\ Head(todo[current]) = todo[current][1]
         /\ Last(current) = todo[current][1] /\ todo[current][1][1] = s
         /\ Subject = todo[current][1][2]
         /\ s \in EndNames => IsEnd(todo[current][1])
         /\ \A m : m \o Tail(todo[current]) = m \o <<>>
         /\ \A l : WaitingIn(todo[current], l) => EndIn(todo[current][1], l)
         /\ s \in {"sem_end", "mutex_end"} => Reaches(todo[current], {Subject})
         /\ s = "event_end" => Reaches(todo[current], {Event})
         /\ s = "send_again" => Reaches(todo[current], {Senders})
         /\ s = "recv_again" => Reaches(todo[current], {Receivers})
         /\ s = "mq_again" => Reaches(todo[current], {Queue})
         /\ s = "mp_woken" => Reaches(todo[current], {Pool})
         /\ s = "mp_again" => Reaches(todo[current], {Pool})
         /\ s \in {"slept", "mq_send", "mq_urgent", "mq_copy"} =>
              \A L : Reaches(todo[current], L)
  <1>. DEFINE e == todo[current][1]
  <1>1. /\ todo[current] = <<e>> /\ e[1] = s /\ Head(todo[current]) = e /\ current \in Threads
        /\ \A m : m \o Tail(todo[current]) = m \o <<>>
        /\ stat[current] = "ready"
        /\ s \in EndNames => IsEnd(e)
    BY LastSection
  <1>. HIDE DEF e
  <1>2. <<e>>[Len(<<e>>)] = e /\ <<e>> # <<>>
    BY LastFacts
  <1>3. Last(current) = e /\ Subject = e[2] /\ todo[current] # <<>>
    BY <1>1, <1>2 DEF Last, Subject
  <1>4. \A l : WaitingIn(todo[current], l) => EndIn(e, l)
    BY <1>1, <1>2 DEF WaitingIn
  <1>5. Working(todo[current]) => s = "mp_again"
    BY <1>1, <1>2 DEF Working
  <1>6. /\ s \in {"sem_end", "mutex_end"} => Reaches(todo[current], {Subject})
        /\ s = "event_end" => Reaches(todo[current], {Event})
        /\ s = "send_again" => Reaches(todo[current], {Senders})
        /\ s = "recv_again" => Reaches(todo[current], {Receivers})
        /\ s = "mq_again" => Reaches(todo[current], {Queue})
        /\ s = "mp_woken" => Reaches(todo[current], {Pool})
        /\ s = "mp_again" => Reaches(todo[current], {Pool})
    BY <1>1, <1>3, <1>4, <1>5 DEF Reaches, Seeks, EndIn
  <1>7. s \in {"slept", "mq_send", "mq_urgent", "mq_copy"} =>
          \A L : Reaches(todo[current], L)
    BY <1>1, <1>4, <1>5 DEF Reaches, Seeks, EndIn
  <1>. QED
    BY <1>1, <1>3, <1>4, <1>6, <1>7 DEF e

\* A section that ends its call.
LEMMA StepEnds ==
  ASSUME ThreadInv, WaitInv, NEW L, NEW s \in EndNames \cup WorkNames, At(s), Then(<<>>),
         Reaches(todo[current], L), UNCHANGED <<stat, waitList>>, error' \in [Threads -> Results],
         \A t \in Threads \ {current} : error'[t] = error[t]
  PROVE  StepOn(L)
  <1>1. stat[current] = "ready" /\ <<>> \o Tail(todo[current]) = <<>> \o <<>>
    BY AtReaches
  <1>2. todo' = [todo EXCEPT ![current] = <<>>]
    BY <1>1, RestFacts DEF Then
  <1>. QED
    BY <1>1, <1>2, ReachFacts, StepPlain

\* The caller returns or goes on to rt_schedule(), or an interrupt handler does.
LEMMA StepCaller ==
  ASSUME ThreadInv, NEW R, NEW L, Departs(R, L), stat[current] = "ready",
         Reaches(todo[current], L), NEW b, CallerGoes(b)
  PROVE  StepOn(L)
  <1>1. PICK c : todo' = [todo EXCEPT ![current] = c] /\ (c = <<>> \/ c = <<Sch>>)
    BY DEF CallerGoes, Sch
  <1>. QED
    BY <1>1, ReachFacts, StepDeparts

LEMMA StepHandler ==
  ASSUME ThreadInv, NEW R, NEW L, Departs(R, L), NEW b, HandlerGoes(b)
  PROVE  StepOn(L)
  BY StepDeparts DEF HandlerGoes

\* A caller of a kernel function.
LEMMA CallReaches ==
  ASSUME ThreadInv, todo[current] = <<>>
  PROVE  /\ stat[current] = "ready" /\ current \in Threads
         /\ \A L : Reaches(todo[current], L)
  BY IdleFacts, ReachFacts

\* In the kernel no thread begins to wait in a list, and none is resumed from one.
LEMMA StepAside ==
  ASSUME ThreadInv, WaitInv, Touches({}), error' \in [Threads -> Results],
         \A t \in Threads : Within({}, todo[t]) \/ (stat'[t] = stat[t] /\ error'[t] = error[t]),
         \A l \in Lists : Elems(waitList'[l]) = Elems(waitList[l])
  PROVE  StepOn({})
  <1>1. ASSUME NEW t \in Threads PROVE Elsewhere(t) \/ Steady(t)
    <2>1. CASE Within({}, todo[t]) /\ Within({}, todo'[t])
      BY <2>1, ReachFacts DEF Elsewhere
    <2>2. CASE Within({}, todo[t]) /\ SameLast(todo[t], todo'[t])
      <3>1. Within({}, todo'[t])
        BY <2>2 DEF Within, SameLast
      <3>. QED
        BY <2>2, <3>1, ReachFacts DEF Elsewhere
    <2>3. CASE ~Within({}, todo[t])
      BY <2>3 DEF Steady, Touches
    <2>. QED
      BY <2>1, <2>2, <2>3 DEF Touches
  <1>. QED
    BY <1>1 DEF StepOn

LEMMA StepKernel ==
  ASSUME ThreadInv, WaitInv, Section \/ Call
  PROVE  StepOn({})
  <1>0. /\ Touches({}) /\ error \in [Threads -> Results] /\ current \in Threads
        /\ stat \in [Threads -> Stats] /\ waitList \in [Lists -> Seq(Threads)]
        /\ \A l \in Lists : NoneTwice(waitList[l])
    BY TouchKernel DEF WaitInv, ThreadInv, KernelTypes, ListInv, CurrentRight, ListsRight
  <1>1. CASE Schedule \/ Yield \/ EnterCritical \/ ExitCritical \/ IdleCleanup
    <2>1. UNCHANGED <<stat, error, waitList>>
      BY <1>1 DEF Schedule, Yield, EnterCritical, ExitCritical, IdleCleanup, schedVars, threadVars
    <2>. QED
      BY <1>0, <2>1, StepAside
  <1>2. CASE Slept
    <2>1. /\ UNCHANGED <<stat, waitList>> /\ At("slept")
          /\ error' = [error EXCEPT ![current] = IF @ = "timeout" THEN "ok" ELSE @]
      BY <1>2 DEF Slept, schedVars
    <2>2. Within({}, todo[current])
      BY <2>1, TouchAt DEF EndNames, Aside
    <2>3. /\ error' \in [Threads -> Results]
          /\ \A t \in Threads \ {current} : error'[t] = error[t]
      BY <1>0, <2>1 DEF Results
    <2>. QED
      BY <1>0, <2>1, <2>2, <2>3, StepAside
  <1>3. ~SuspendNow /\ ~RemoveNow /\ ~StopNow /\ ~CloseNow
    <2>1. \A s : At(s) /\ s # "schedule" => s \notin {"suspend", "remove", "stop", "close"}
      BY SectionFacts, HeadFacts
    <2>. QED
      BY <2>1 DEF SuspendNow, RemoveNow, StopNow, CloseNow
  <1>4. CASE UnlinkNow
    <2>1. UNCHANGED <<stat, error>> /\ waitList' = Unlinked(Subject) /\ At("unlink")
      BY <1>4 DEF UnlinkNow
    <2>2. /\ IsCall(todo[current]) /\ todo[current] # <<>> /\ todo[current][1][1] = "unlink"
          /\ Head(todo[current]) = todo[current][1]
      BY <2>1, SectionFacts
    <2>3. PICK u \in Threads : todo[current] = <<<<"unlink", u>>, <<"insert", u>>, Sch>>
      BY <2>2, HeadFacts
    <2>4. Subject = u /\ Starts(todo[current], u)
      <3>1. Head(todo[current]) = <<"unlink", u>>
        BY <2>3
      <3>. QED
        BY <2>3, <3>1 DEF Subject, Starts
    <2>5. \A l \in Lists : u \notin Elems(waitList[l])
      BY <1>0, <2>4, StartedAlone DEF ThreadInv
    <2>6. \A l \in Lists : waitList'[l] = Without(waitList[l], {u})
      BY <2>1, <2>4 DEF Unlinked
    <2>7. \A l \in Lists : Elems(waitList'[l]) = Elems(waitList[l])
      <3>1. \A l \in Lists : Elems(Without(waitList[l], {u})) = Elems(waitList[l]) \ {u}
        BY <1>0, WithoutFacts
      <3>. QED
        BY <2>5, <2>6, <3>1
    <2>. QED
      BY <1>0, <2>1, <2>7, StepAside
  <1>5. CASE InsertNow
    <2>1. /\ UNCHANGED <<error, waitList>> /\ stat' = [stat EXCEPT ![Subject] = "ready"]
          /\ At("insert")
      BY <1>5 DEF InsertNow
    <2>2. /\ IsCall(todo[current]) /\ todo[current] # <<>> /\ todo[current][1][1] = "insert"
          /\ Head(todo[current]) = todo[current][1]
      BY <2>1, SectionFacts
    <2>3. PICK u \in Threads : todo[current] = <<<<"insert", u>>, Sch>>
      BY <2>2, HeadFacts
    <2>4. Subject = u /\ Starts(todo[current], u)
      <3>1. Head(todo[current]) = <<"insert", u>>
        BY <2>3
      <3>. QED
        BY <2>3, <3>1 DEF Subject, Starts
    <2>5. todo[u] = <<>>
      BY <1>0, <2>4 DEF ThreadInv, ListInv, StartsRight
    <2>6. \A t \in Threads \ {u} : stat'[t] = stat[t]
      BY <1>0, <2>1, <2>4
    <2>7. Within({}, todo[u])
      BY <2>5, LastFacts
    <2>. QED
      BY <1>0, <2>1, <2>6, <2>7, StepAside
  <1>6. CASE Exit \/ \E n \in WaitTimes : Sleep(n)
    <2>1. /\ UNCHANGED <<error, waitList>> /\ todo[current] = <<>>
          /\ \E x : stat' = [stat EXCEPT ![current] = x]
      BY <1>6 DEF Exit, Sleep, SuspendCurrent, Calls
    <2>2. Within({}, todo[current]) /\ \A t \in Threads \ {current} : stat'[t] = stat[t]
      BY <1>0, <2>1, LastFacts
    <2>. QED
      BY <1>0, <2>1, <2>2, StepAside
  <1>7. ASSUME NEW u \in Threads, Startup(u) PROVE StepOn({})
    <2>1. /\ UNCHANGED <<error, waitList>> /\ stat[u] = "init"
          /\ stat' = [stat EXCEPT ![u] = "suspend"]
      BY <1>7 DEF Startup, AboutThread
    <2>2. todo[u] = <<>>
      BY <2>1 DEF ThreadInv, ListInv, CallsRight
    <2>3. Within({}, todo[u]) /\ \A t \in Threads \ {u} : stat'[t] = stat[t]
      BY <1>0, <2>1, <2>2, LastFacts
    <2>. QED
      BY <1>0, <2>1, <2>3, StepAside
  <1>8. \A u \in Threads : /\ ~Suspend(u) /\ ~Resume(u) /\ ~Detach(u)
                           /\ \A p \in Prios : ~ChangePriority(u, p)
    <2>1. ~Calls("suspend") /\ ~Calls("detach") /\ ~Calls("priority")
      BY CallerFacts
    <2>. QED
      BY <2>1 DEF Suspend, Resume, Detach, ChangePriority, AboutThread
  <1>. QED
    BY <1>1, <1>2, <1>3, <1>4, <1>5, <1>6, <1>7, <1>8 DEF Section, Call

LEMMA StepTick ==
  ASSUME ThreadInv, WaitInv, TickOfAll
  PROVE  StepOn({})
  <1>. DEFINE e == Expired((tick + 1) % TickMod)
  <1>1. /\ stat' = [t \in Threads |-> IF t \in Elems(e) THEN "ready" ELSE stat[t]]
        /\ error' = [t \in Threads |-> IF t \in Elems(e) THEN "timeout" ELSE error[t]]
        /\ timers' = SubSeq(timers, Len(e) + 1, Len(timers))
        /\ waitList' = [l \in Lists |-> Without(waitList[l], Elems(e))]
        /\ UNCHANGED todo
    BY DEF TickOfAll, Tick
  <1>2. /\ timers \in Seq(TimerSet) /\ RunningOnce(timers)
        /\ waitList \in [Lists -> Seq(Threads)]
        /\ \A l \in Lists : NoneTwice(waitList[l])
        /\ error \in [Threads -> Results]
    BY DEF ThreadInv, KernelTypes, ListInv, TimedRight, ListsRight, WaitInv
  <1>3. /\ e \in Seq(Threads) /\ Elems(e) \subseteq Timed(timers)
    BY <1>1, <1>2, ExpiredFacts
  <1>. HIDE DEF e
  <1>4. Elems(e) \subseteq Waiters
    BY <1>2, <1>3, TimedDomain DEF Waiters, ThreadInv, ListInv, TimedRight
  <1>5. \A l \in Lists : Elems(waitList'[l]) = Elems(waitList[l]) \ Elems(e)
    <2>1. \A l \in Lists : waitList'[l] = Without(waitList[l], Elems(e))
      BY <1>1
    <2>2. \A l \in Lists : Elems(Without(waitList[l], Elems(e))) = Elems(waitList[l]) \ Elems(e)
      BY <1>2, WithoutFacts
    <2>. QED
      BY <2>1, <2>2
  <1>6. stat' = Readied(stat, Elems(e)) /\ error' \in [Threads -> Results]
    BY <1>1, <1>2 DEF Readied, Results
  <1>7. \A t \in Threads : error'[t] = IF t \in Elems(e) THEN "timeout" ELSE error[t]
    BY <1>1
  <1>8. \A t \in Elems(e) : t \in Threads
    BY <1>4 DEF Waiters
  <1>9. Departs(Elems(e), {})
    BY <1>4, <1>5, <1>6, <1>7, <1>8 DEF Departs
  <1>. QED
    BY <1>1, <1>9, StepDeparts
-----------------------------------------------------------------------------
\* The steps of RttIpc.

LEMMA StepSemTake ==
  ASSUME ThreadInv, WaitInv, NEW s \in Sems, NEW n, SemTake(s, n)
  PROVE  /\ StepOn({s}) /\ todo[current] = <<>> /\ stat[current] = "ready" /\ current \in Threads
         /\ \A k \in Lists \ {s} : waitList'[k] = waitList[k]
  <1>1. todo[current] = <<>> /\ error \in [Threads -> Results]
    BY DEF SemTake, Calls, WaitInv
  <1>2. stat[current] = "ready" /\ current \in Threads /\ \A L : Reaches(todo[current], L)
    BY <1>1, CallReaches
  <1>3. CASE UNCHANGED <<stat, waitList, todo, error>>
    BY <1>1, <1>2, <1>3, StepPlain
  <1>4. CASE SuspendOn(s, n, ready, <<"sem_end", s>>)
    <2>. DEFINE next == <<"sem_end", s>>
    <2>1. s \in Lists /\ IsEnd(next) /\ EndIn(next, s) /\ SuspendOn(s, n, ready, next)
      BY <1>4, EndsFacts
    <2>. HIDE DEF next
    <2>2. s \in {s}
      OBVIOUS
    <2>. QED
      BY <1>1, <1>2, <2>1, <2>2, StepBegins
  <1>. QED
    BY <1>1, <1>2, <1>3, <1>4 DEF SemTake

LEMMA StepWaitEnds ==
  ASSUME ThreadInv, WaitInv, SemEnd \/ MutexEnd
  PROVE  /\ StepOn({Subject}) /\ stat[current] = "ready" /\ current \in Threads
         /\ UNCHANGED <<stat, waitList, error>>
         /\ todo' = [todo EXCEPT ![current] = <<>>] /\ todo[current] # <<>>
         /\ Last(current) = todo[current][1] /\ IsEnd(todo[current][1])
         /\ todo[current][1][1] = IF SemEnd THEN "sem_end" ELSE "mutex_end"
         /\ Subject = todo[current][1][2]
  <1>1. /\ UNCHANGED <<stat, waitList, error>> /\ Then(<<>>)
        /\ At(IF SemEnd THEN "sem_end" ELSE "mutex_end")
    BY DEF SemEnd, MutexEnd, schedVars
  <1>2. error \in [Threads -> Results]
    BY DEF WaitInv
  <1>3. /\ "sem_end" \in EndNames /\ "mutex_end" \in EndNames
    BY DEF EndNames
  <1>. DEFINE s == IF SemEnd THEN "sem_end" ELSE "mutex_end"
  <1>4. At(s) /\ s \in EndNames \cup WorkNames /\ s \in EndNames /\ s \in {"sem_end", "mutex_end"}
    BY <1>1, <1>3
  <1>. HIDE DEF s
  <1>5. /\ Reaches(todo[current], {Subject}) /\ stat[current] = "ready" /\ current \in Threads
        /\ Last(current) = todo[current][1] /\ IsEnd(todo[current][1])
        /\ todo[current][1][1] = s /\ todo[current] # <<>>
        /\ Subject = todo[current][1][2]
        /\ <<>> \o Tail(todo[current]) = <<>> \o <<>>
    BY <1>4, AtReaches
  <1>6. todo' = [todo EXCEPT ![current] = <<>>]
    BY <1>1, <1>5, RestFacts DEF Then
  <1>7. StepOn({Subject})
    BY <1>1, <1>2, <1>4, <1>5, StepEnds
  <1>. QED
    BY <1>1, <1>5, <1>6, <1>7 DEF s

LEMMA StepRelease ==
  ASSUME ThreadInv, WaitInv, NEW s \in Sems, SemRelease(s) \/ SemReleaseISR(s)
  PROVE  /\ StepOn({s})
         /\ \E R : Departs(R, {s}) /\ R = IF waitList[s] # <<>> THEN {Head(waitList[s])} ELSE {}
  <1>1. Release(s) /\ UNCHANGED error /\ s \in Lists
    BY EndsFacts DEF SemRelease, SemReleaseISR
  <1>2. PICK R : Departs(R, {s}) /\ R = IF waitList[s] # <<>> THEN {Head(waitList[s])} ELSE {}
    <2>1. CASE waitList[s] # <<>>
      <3>1. ResumeFirst(s, ready, priority)
        BY <1>1, <2>1 DEF Release
      <3>. QED
        BY <1>1, <2>1, <3>1, DepartFirst
    <2>2. CASE waitList[s] = <<>>
      <3>1. UNCHANGED <<stat, waitList, error>>
        BY <1>1, <2>2 DEF Release, ResumeNobody
      <3>. QED
        BY <2>2, <3>1, DepartNobody
    <2>. QED
      BY <2>1, <2>2
  <1>3. CASE SemRelease(s)
    <2>1. todo[current] = <<>> /\ \E b : CallerGoes(b)
      BY <1>3 DEF SemRelease
    <2>. QED
      BY <1>2, <2>1, CallReaches, StepCaller
  <1>4. CASE SemReleaseISR(s)
    <2>1. \E b : HandlerGoes(b)
      BY <1>4 DEF SemReleaseISR
    <2>. QED
      BY <1>2, <2>1, StepHandler
  <1>. QED
    BY <1>2, <1>3, <1>4

LEMMA StepResets ==
  ASSUME ThreadInv, WaitInv, NEW s, NEW n,
         (s \in Sems /\ SemReset(s, n)) \/ BoxReset \/ EventReset \/ MqReset
  PROVE  StepOn({}) /\ (SemReset(s, n) /\ s \in Sems => waitList'[s] = <<>>)
  <1>1. todo[current] = <<>> /\ CallerGoes(TRUE)
    BY DEF SemReset, BoxReset, EventReset, MqReset, Calls
  <1>2. stat[current] = "ready" /\ Reaches(todo[current], {})
    BY <1>1, CallReaches
  <1>3. ASSUME NEW l \in Lists, NEW m \in Lists, NEW ls \in {<<l>>, <<l, m>>}, l # m, ResumeAll(ls)
        PROVE  StepOn({})
    BY <1>1, <1>2, <1>3, DepartAll, StepCaller
  <1>4. ASSUME NEW l \in Lists, NEW m \in Lists, l # m, ResumeAll(<<l>>)
        PROVE  StepOn({}) /\ waitList'[l] = <<>>
    <2>1. StepOn({})
      BY <1>3, <1>4
    <2>2. /\ l \in Elems(<<l>>)
          /\ waitList' = [k \in Lists |-> IF k \in Elems(<<l>>) THEN <<>> ELSE waitList[k]]
      BY <1>4 DEF Elems, ResumeAll
    <2>. QED
      BY <2>1, <2>2
  <1>5. /\ Receivers \in Lists /\ Senders \in Lists /\ Event \in Lists /\ Queue \in Lists
        /\ Receivers # Senders /\ Event # Senders /\ Queue # Senders /\ Senders \notin Sems
        /\ Sems \subseteq Lists
    BY EndsFacts, IpcAssumption DEF Receivers, Senders, Event, Queue
  <1>6. CASE s \in Sems /\ SemReset(s, n)
    <2>1. ResumeAll(<<s>>) /\ s \in Lists /\ s # Senders
      BY <1>5, <1>6 DEF SemReset
    <2>. QED
      BY <1>4, <1>5, <2>1
  <1>7. CASE BoxReset /\ ~(s \in Sems /\ SemReset(s, n))
    <2>1. ResumeAll(<<Receivers, Senders>>)
      BY <1>7 DEF BoxReset
    <2>. QED
      BY <1>3, <1>5, <1>7, <2>1
  <1>8. CASE (EventReset \/ MqReset) /\ ~(s \in Sems /\ SemReset(s, n))
    <2>1. ResumeAll(<<Event>>) \/ ResumeAll(<<Queue>>)
      BY <1>8 DEF EventReset, MqReset
    <2>. QED
      BY <1>4, <1>5, <1>8, <2>1
  <1>. QED
    BY <1>6, <1>7, <1>8

LEMMA StepMutexTake ==
  ASSUME ThreadInv, WaitInv, NEW m \in Mutexes, NEW n,
         MutexTakeAgain(m) \/ MutexTakeFree(m) \/ MutexTakeWait(m, n)
  PROVE  /\ StepOn({m}) /\ todo[current] = <<>> /\ stat[current] = "ready" /\ current \in Threads
         /\ MutexTakeAgain(m) \/ MutexTakeFree(m) => UNCHANGED <<stat, waitList>>
         /\ error' = [error EXCEPT ![current] = "ok"]
  <1>1. todo[current] = <<>> /\ error \in [Threads -> Results]
    BY DEF MutexTakeAgain, MutexTakeFree, MutexTakeWait, MayTake, Calls, WaitInv
  <1>2. stat[current] = "ready" /\ current \in Threads /\ \A L : Reaches(todo[current], L)
    BY <1>1, CallReaches
  <1>3. CASE MutexTakeAgain(m) \/ MutexTakeFree(m)
    <2>1. UNCHANGED <<stat, waitList, todo>> /\ error' = [error EXCEPT ![current] = "ok"]
      BY <1>3 DEF MutexTakeAgain, MutexTakeFree, schedVars
    <2>2. error' \in [Threads -> Results] /\ \A t \in Threads \ {current} : error'[t] = error[t]
      BY <1>1, <2>1 DEF Results
    <2>. QED
      BY <1>1, <1>2, <2>1, <2>2, StepPlain
  <1>4. CASE MutexTakeWait(m, n)
    <2>. DEFINE next == <<"mutex_end", m>>
    <2>1. PICK r : SuspendOn(m, n, r, next)
      BY <1>4 DEF MutexTakeWait
    <2>2. m \in Lists /\ IsEnd(next) /\ EndIn(next, m)
      BY EndsFacts
    <2>. HIDE DEF next
    <2>3. m \in {m}
      OBVIOUS
    <2>4. StepOn({m})
      BY <1>1, <1>2, <2>1, <2>2, <2>3, StepBegins
    <2>5. error' = [error EXCEPT ![current] = "ok"] /\ stat' = [stat EXCEPT ![current] = "suspend"]
      BY <2>1 DEF SuspendOn, SuspendIn
    <2>6. stat'[current] = "suspend"
      BY <1>2, <2>5 DEF ThreadInv, KernelTypes
    <2>7. ~MutexTakeAgain(m) /\ ~MutexTakeFree(m)
      BY <1>2, <2>6 DEF MutexTakeAgain, MutexTakeFree, schedVars
    <2>. QED
      BY <1>1, <1>2, <2>4, <2>5, <2>7
  <1>. QED
    BY <1>3, <1>4

LEMMA StepMutexRelease ==
  ASSUME ThreadInv, WaitInv, NEW m \in Mutexes, MutexRelease(m)
  PROVE  /\ StepOn({m}) /\ todo[current] = <<>> /\ stat[current] = "ready" /\ current \in Threads
         /\ \E R : Departs(R, {m}) /\ R = IF hold[m] = 1 /\ waitList[m] # <<>>
                                          THEN {Head(waitList[m])} ELSE {}
         /\ \E c \in {<<>>, <<Sch>>} : todo' = [todo EXCEPT ![current] = c]
  <1>1. /\ todo[current] = <<>> /\ UNCHANGED error /\ m \in Lists
        /\ CallerGoes(hold[m] = 1 /\ waitList[m] # <<>>)
    BY EndsFacts DEF MutexRelease
  <1>2. stat[current] = "ready" /\ current \in Threads /\ \A L : Reaches(todo[current], L)
    BY <1>1, CallReaches
  <1>3. PICK R : Departs(R, {m}) /\ R = IF hold[m] = 1 /\ waitList[m] # <<>>
                                        THEN {Head(waitList[m])} ELSE {}
    <2>1. CASE hold[m] = 1 /\ waitList[m] # <<>>
      <3>1. PICK r : ResumeFirst(m, r, priority')
        BY <2>1 DEF MutexRelease
      <3>. QED
        BY <1>1, <2>1, <3>1, DepartFirst
    <2>2. CASE ~(hold[m] = 1 /\ waitList[m] # <<>>)
      <3>1. UNCHANGED <<stat, waitList, error>>
        BY <1>1, <2>2 DEF MutexRelease, ResumeNobody
      <3>. QED
        BY <2>2, <3>1, DepartNobody
    <2>. QED
      BY <2>1, <2>2
  <1>4. StepOn({m})
    BY <1>1, <1>2, <1>3, StepCaller
  <1>5. \E c \in {<<>>, <<Sch>>} : todo' = [todo EXCEPT ![current] = c]
    BY <1>1 DEF CallerGoes, Sch
  <1>. QED
    BY <1>1, <1>2, <1>3, <1>4, <1>5

\* The loops of calls that look again.
LEMMA StepLoop ==
  ASSUME ThreadInv, WaitInv, NEW s \in EndNames, At(s), NEW L, Reaches(todo[current], L),
         NEW l \in Lists, NEW m \in Lists, l \in L, m \in L, NEW n, NEW refused, NEW k, NEW next,
         IsEnd(next), EndIn(next, m),
         Fails(refused, n) \/ Works(l) \/ WaitsAgain(m, k, next)
  PROVE  StepOn(L)
  <1>1. stat[current] = "ready" /\ error \in [Threads -> Results]
    BY LastSection DEF WaitInv
  <1>2. CASE Fails(refused, n)
    BY <1>1, <1>2, StepEnds DEF Fails
  <1>3. CASE Works(l)
    <2>1. PICK R : Departs(R, {l})
      BY <1>3, DepartOne DEF Works
    <2>2. Departs(R, L)
      BY <2>1, ReachFacts DEF Departs
    <2>. QED
      BY <1>1, <1>3, <2>2, StepCaller DEF Works
  <1>4. CASE WaitsAgain(m, k, next)
    BY <1>1, <1>4, StepBegins DEF WaitsAgain
  <1>. QED
    BY <1>2, <1>3, <1>4

Mailing == {Receivers, Senders}
LEMMA StepMail ==
  ASSUME ThreadInv, WaitInv, NEW x, NEW n \in Int,
         (x \in Msgs /\ Send(x, n)) \/ SendISR(x) \/ Receive(n) \/ SendAgain \/ ReceiveAgain
  PROVE  StepOn(Mailing)
  <1>1. /\ Receivers \in Lists /\ Senders \in Lists /\ Receivers \in Mailing /\ Senders \in Mailing
        /\ {Receivers} \subseteq Mailing /\ {Senders} \subseteq Mailing
    BY EndsFacts DEF Mailing
  <1>2. ASSUME NEW l \in Mailing, ResumeOne(l), UNCHANGED error,
               \/ \E b : HandlerGoes(b)
               \/ todo[current] = <<>> /\ \E b : CallerGoes(b)
        PROVE  StepOn(Mailing)
    <2>1. l \in Lists
      BY <1>1 DEF Mailing
    <2>2. PICK R : Departs(R, {l})
      BY <1>2, <2>1, DepartOne
    <2>3. Departs(R, Mailing)
      BY <2>2, ReachFacts DEF Departs
    <2>. QED
      BY <1>2, <2>3, CallReaches, StepCaller, StepHandler
  <1>3. ASSUME NEW l \in Mailing, NEW next, IsEnd(next), EndIn(next, l),
               SuspendOn(l, n, ready, next), todo[current] = <<>>
        PROVE  StepOn(Mailing)
    <2>1. l \in Lists
      BY <1>1 DEF Mailing
    <2>. QED
      BY <1>3, <2>1, CallReaches, StepBegins
  <1>4. CASE x \in Msgs /\ Send(x, n)
    <2>. DEFINE next == <<"send_again", x, n>>
    <2>1. IsEnd(next) /\ EndIn(next, Senders)
      BY <1>4, EndsFacts
    <2>2. /\ todo[current] = <<>>
          /\ \/ UNCHANGED error /\ ResumeOne(Receivers) /\ \E b : CallerGoes(b)
             \/ SuspendOn(Senders, n, ready, next)
      BY <1>4 DEF Send, Calls
    <2>. HIDE DEF next
    <2>. QED
      BY <1>1, <1>2, <1>3, <2>1, <2>2
  <1>5. CASE Receive(n)
    <2>. DEFINE next == <<"recv_again", n>>
    <2>1. IsEnd(next) /\ EndIn(next, Receivers)
      BY EndsFacts
    <2>2. /\ todo[current] = <<>>
          /\ \/ UNCHANGED error /\ ResumeOne(Senders) /\ \E b : CallerGoes(b)
             \/ SuspendOn(Receivers, n, ready, next)
      BY <1>5 DEF Receive, Calls
    <2>. HIDE DEF next
    <2>. QED
      BY <1>1, <1>2, <1>3, <2>1, <2>2
  <1>6. CASE SendISR(x)
    BY <1>1, <1>2, <1>6 DEF SendISR
  <1>7. "send_again" \in EndNames /\ "recv_again" \in EndNames
    BY DEF EndNames
  <1>8. CASE SendAgain
    <2>. DEFINE y == Head(todo[current])[2]
                k == Head(todo[current])[3]
                next == <<"send_again", y, WaitLeft(k)>>
    <2>1. /\ At("send_again")
          /\ Fails(entry = BoxSize, k) \/ Works(Receivers) \/ WaitsAgain(Senders, WaitLeft(k), next)
      BY <1>8 DEF SendAgain
    <2>2. y \in Msgs /\ k \in Int
      BY <2>1, AgainFacts
    <2>. HIDE DEF y, k
    <2>3. WaitLeft(k) \in Int
      BY <2>2, LeftFacts
    <2>4. IsEnd(next) /\ EndIn(next, Senders)
      BY <2>2, <2>3, EndsFacts
    <2>. HIDE DEF next
    <2>5. Reaches(todo[current], Mailing)
      BY <1>1, <1>7, <2>1, AtReaches, ReachFacts
    <2>. QED
      BY <1>1, <1>7, <2>1, <2>4, <2>5, StepLoop
  <1>9. CASE ReceiveAgain
    <2>. DEFINE k == Head(todo[current])[2]
                next == <<"recv_again", WaitLeft(k)>>
    <2>1. /\ At("recv_again")
          /\ Fails(entry = 0, k) \/ Works(Senders) \/ WaitsAgain(Receivers, WaitLeft(k), next)
      BY <1>9 DEF ReceiveAgain
    <2>2. k \in Int
      BY <2>1, AgainFacts
    <2>. HIDE DEF k
    <2>3. WaitLeft(k) \in Int
      BY <2>2, LeftFacts
    <2>4. IsEnd(next) /\ EndIn(next, Receivers)
      BY <2>3, EndsFacts
    <2>. HIDE DEF next
    <2>5. Reaches(todo[current], Mailing)
      BY <1>1, <1>7, <2>1, AtReaches, ReachFacts
    <2>. QED
      BY <1>1, <1>7, <2>1, <2>4, <2>5, StepLoop
  <1>. QED
    BY <1>4, <1>5, <1>6, <1>8, <1>9
-----------------------------------------------------------------------------
\* The steps of RttMessages.

\* Threads are resumed from one list only.
LEMMA DepartFrom ==
  ASSUME ThreadInv, WaitInv, NEW R \in SUBSET Waiters, Resumes(R), UNCHANGED error,
         NEW l \in Lists, Elems(waitList'[l]) = Elems(waitList[l]) \ R,
         \A k \in Lists \ {l} : waitList'[k] = waitList[k]
  PROVE  Departs(R, {l})
  <1>1. \A k \in Lists \ {l} : Elems(waitList'[k]) \subseteq Elems(waitList[k]) \ R
    BY DEF Resumes
  <1>2. \A k \in Lists \ {l} : Elems(waitList[k]) \cap R = {}
    BY <1>1
  <1>3. \A k \in Lists : Elems(waitList'[k]) = Elems(waitList[k]) \ R
    BY <1>2
  <1>4. ASSUME NEW t \in R PROVE Reaches(todo[t], {l})
    <2>1. \A k \in Lists : Seeks(todo[t], k) => t \in Elems(waitList[k])
      BY ReachFacts DEF WaitInv, Waiters, Seeks
    <2>. QED
      BY <1>2, <2>1 DEF Reaches
  <1>. QED
    BY <1>3, <1>4 DEF Departs, Resumes, WaitInv

LEMMA DepartSetBits ==
  ASSUME ThreadInv, WaitInv, NEW s \in SUBSET Bits, SetBits(s), UNCHANGED <<priority, error>>
  PROVE  \E R : Departs(R, {Event})
  <1>. DEFINE all == [i \in DOMAIN Passed(set \cup s).resumed |-> Passed(set \cup s).resumed[i][1]]
              A   == Elems(all)
  <1>1. PICK R \in SUBSET Waiters : Resumes(R)
    BY SetBitsFacts
  <1>2. /\ stat' = [t \in Threads |-> IF t \in A THEN "ready" ELSE stat[t]]
        /\ waitList' = [waitList EXCEPT ![Event] = Without(@, A)]
    BY DEF SetBits
  <1>. HIDE DEF A
  <1>3. /\ Event \in Lists /\ waitList \in [Lists -> Seq(Threads)]
        /\ waitList[Event] \in Seq(Threads) /\ NoneTwice(waitList[Event])
        /\ Elems(waitList[Event]) \subseteq Waiters
    BY EndsFacts, OneList DEF ThreadInv, KernelTypes
  <1>4. Elems(Without(waitList[Event], A)) = Elems(waitList[Event]) \ A
    BY <1>3, WithoutFacts
  <1>5. \A t \in Elems(waitList[Event]) : t \in A <=> t \in R
    <2>1. stat' = Readied(stat, R)
      BY <1>1 DEF Resumes
    <2>2. ASSUME NEW t \in Elems(waitList[Event]) PROVE t \in A <=> t \in R
      <3>1. t \in Threads /\ stat[t] # "ready"
        BY <1>3 DEF Waiters
      <3>2. stat'[t] = IF t \in A THEN "ready" ELSE stat[t]
        BY <1>2, <3>1
      <3>3. stat'[t] = IF t \in R THEN "ready" ELSE stat[t]
        BY <2>1, <3>1 DEF Readied
      <3>. QED
        BY <3>1, <3>2, <3>3
    <2>. QED
      BY <2>2
  <1>6. Elems(waitList'[Event]) = Elems(waitList[Event]) \ R
    BY <1>2, <1>3, <1>4, <1>5
  <1>7. \A k \in Lists \ {Event} : waitList'[k] = waitList[k]
    BY <1>2, <1>3
  <1>. QED
    BY <1>1, <1>3, <1>6, <1>7, DepartFrom

LEMMA StepEvent ==
  ASSUME ThreadInv, WaitInv, NEW s \in SUBSET Bits, NEW all, NEW clear, NEW n,
         EventSend(s) \/ EventSendISR(s) \/ EventRecv(s, all, clear, n) \/ EventEnd
  PROVE  StepOn({Event})
  <1>0. Event \in Lists /\ error \in [Threads -> Results] /\ Event \in {Event}
    BY EndsFacts DEF WaitInv
  <1>1. CASE EventSend(s) \/ EventSendISR(s)
    <2>1. /\ SetBits(s) /\ UNCHANGED <<priority, error>>
          /\ (\E b : HandlerGoes(b)) \/ (todo[current] = <<>> /\ \E b : CallerGoes(b))
      BY <1>1 DEF EventSend, EventSendISR, Calls
    <2>. QED
      BY <2>1, DepartSetBits, CallReaches, StepCaller, StepHandler
  <1>2. CASE EventRecv(s, all, clear, n)
    <2>. DEFINE next == <<"event_end", s>>
    <2>1. IsEnd(next) /\ EndIn(next, Event)
      BY EndsFacts
    <2>2. /\ todo[current] = <<>>
          /\ \/ /\ UNCHANGED <<stat, waitList, todo>>
                /\ error' = [error EXCEPT ![current] = "ok"]
             \/ SuspendOn(Event, n, ready, next)
      BY <1>2 DEF EventRecv, Calls
    <2>. HIDE DEF next
    <2>3. stat[current] = "ready" /\ Reaches(todo[current], {Event})
      BY <2>2, CallReaches
    <2>4. CASE UNCHANGED <<stat, waitList, todo>> /\ error' = [error EXCEPT ![current] = "ok"]
      <3>1. error' \in [Threads -> Results] /\ \A t \in Threads \ {current} : error'[t] = error[t]
        BY <1>0, <2>4 DEF Results
      <3>. QED
        BY <2>3, <2>4, <3>1, StepPlain
    <2>. QED
      BY <1>0, <2>1, <2>2, <2>3, <2>4, StepBegins
  <1>3. CASE EventEnd
    <2>1. /\ At("event_end") /\ Then(<<>>) /\ UNCHANGED <<stat, waitList, error>>
          /\ "event_end" \in EndNames
      BY <1>3 DEF EventEnd, schedVars, EndNames
    <2>2. Reaches(todo[current], {Event})
      BY <2>1, AtReaches
    <2>. QED
      BY <1>0, <2>1, <2>2, StepEnds
  <1>. QED
    BY <1>1, <1>2, <1>3

LEMMA StepQueue ==
  ASSUME ThreadInv, WaitInv, NEW how \in Ways, NEW x, NEW n \in Int,
         \/ MqSend(how, x) \/ MqLink(how) \/ MqSendISR(how, x)
         \/ MqReceive(n) \/ MqReceiveAgain \/ MqCopied
  PROVE  StepOn({Queue})
  <1>0. Queue \in Lists /\ error \in [Threads -> Results] /\ Queue \in {Queue} /\ how \in WorkNames
        /\ "mq_again" \in EndNames /\ "mq_copy" \in WorkNames
    BY EndsFacts DEF WaitInv, Ways, EndNames, WorkNames
  <1>1. ASSUME NEW e, e[1] \in Carrying, todo' = [todo EXCEPT ![current] = <<e>>],
               UNCHANGED <<stat, waitList, error>>, stat[current] = "ready",
               Reaches(todo[current], {Queue})
        PROVE  StepOn({Queue})
    <2>. DEFINE c == <<e>>
    <2>1. Reaches(c, {Queue}) /\ todo' = [todo EXCEPT ![current] = c]
      <3>1. IsWork(e) /\ e[1] # "mp_again"
        BY <1>1 DEF IsWork, Carrying
      <3>. QED
        BY <1>1, <3>1, ReachFacts
    <2>. HIDE DEF c
    <2>. QED
      BY <1>0, <1>1, <2>1, StepPlain
  <1>2. CASE MqSend(how, x)
    <2>. DEFINE e == <<how, x, Head(free)>>
    <2>1. /\ todo' = [todo EXCEPT ![current] = <<e>>] /\ todo[current] = <<>>
          /\ UNCHANGED <<stat, waitList, error>>
      BY <1>2 DEF MqSend, Goes, Calls, schedVars
    <2>2. e[1] \in Carrying
      BY DEF Carrying, Ways
    <2>. HIDE DEF e
    <2>. QED
      BY <1>1, <2>1, <2>2, CallReaches
  <1>3. CASE MqLink(how)
    <2>1. At(how) /\ ResumeOne(Queue) /\ UNCHANGED error /\ \E b : CallerGoes(b)
      BY <1>3 DEF MqLink
    <2>2. stat[current] = "ready" /\ Reaches(todo[current], {Queue})
      BY <1>0, <2>1, AtReaches DEF Ways
    <2>. QED
      BY <1>0, <2>1, <2>2, DepartOne, StepCaller
  <1>4. CASE MqSendISR(how, x)
    <2>1. ResumeOne(Queue) /\ UNCHANGED error /\ \E b : HandlerGoes(b)
      BY <1>4 DEF MqSendISR
    <2>. QED
      BY <1>0, <2>1, DepartOne, StepHandler
  <1>5. CASE MqReceive(n)
    <2>. DEFINE e == <<"mq_copy", Head(queue), contents[Head(queue)]>>
                next == <<"mq_again", n>>
    <2>1. /\ todo[current] = <<>>
          /\ \/ /\ todo' = [todo EXCEPT ![current] = <<e>>]
                /\ UNCHANGED <<stat, waitList, error>>
             \/ SuspendOn(Queue, n, ready, next)
      BY <1>5 DEF MqReceive, Goes, Copying, Calls
    <2>2. e[1] \in Carrying /\ IsEnd(next) /\ EndIn(next, Queue)
      BY EndsFacts DEF Carrying
    <2>. HIDE DEF e, next
    <2>3. stat[current] = "ready" /\ Reaches(todo[current], {Queue})
      BY <2>1, CallReaches
    <2>. QED
      BY <1>0, <1>1, <2>1, <2>2, <2>3, StepBegins
  <1>6. CASE MqReceiveAgain
    <2>. DEFINE k == Head(todo[current])[2]
                next == <<"mq_again", WaitLeft(k)>>
                e == <<"mq_copy", Head(queue), contents[Head(queue)]>>
    <2>1. /\ At("mq_again")
          /\ \/ Fails(queue = <<>>, k) \/ WaitsAgain(Queue, WaitLeft(k), next)
             \/ /\ todo' = [todo EXCEPT ![current] = <<e>> \o Tail(@)]
                /\ UNCHANGED <<stat, waitList, error>>
      BY <1>6 DEF MqReceiveAgain, Then, Copying
    <2>2. k \in Int
      BY <2>1, AgainFacts
    <2>. HIDE DEF k
    <2>3. WaitLeft(k) \in Int
      BY <2>2, LeftFacts
    <2>4. IsEnd(next) /\ EndIn(next, Queue) /\ e[1] \in Carrying
      BY <2>3, EndsFacts DEF Carrying
    <2>. HIDE DEF next, e
    <2>5. /\ Reaches(todo[current], {Queue}) /\ stat[current] = "ready"
          /\ <<e>> \o Tail(todo[current]) = <<e>> \o <<>>
      BY <1>0, <2>1, AtReaches
    <2>6. CASE Fails(queue = <<>>, k) \/ WaitsAgain(Queue, WaitLeft(k), next)
      BY <1>0, <2>1, <2>4, <2>5, <2>6, StepLoop
    <2>7. CASE /\ todo' = [todo EXCEPT ![current] = <<e>> \o Tail(@)]
               /\ UNCHANGED <<stat, waitList, error>>
      <3>1. todo' = [todo EXCEPT ![current] = <<e>>]
        BY <2>5, <2>7, RestFacts
      <3>. QED
        BY <1>1, <2>4, <2>5, <2>7, <3>1
    <2>. QED
      BY <2>1, <2>6, <2>7
  <1>7. CASE MqCopied
    <2>1. At("mq_copy") /\ Then(<<>>) /\ UNCHANGED <<stat, waitList, error>>
      BY <1>7 DEF MqCopied, schedVars
    <2>2. Reaches(todo[current], {Queue})
      BY <1>0, <2>1, AtReaches
    <2>. QED
      BY <1>0, <2>1, <2>2, StepEnds
  <1>. QED
    BY <1>2, <1>3, <1>4, <1>5, <1>6, <1>7

LEMMA StepPool ==
  ASSUME ThreadInv, WaitInv, NEW n \in Int, MpAlloc(n) \/ MpWoken \/ MpAgain \/ MpFree
  PROVE  StepOn({Pool})
  <1>0. /\ Pool \in Lists /\ error \in [Threads -> Results] /\ Pool \in {Pool}
        /\ "mp_woken" \in EndNames /\ "mp_again" \in WorkNames
    BY EndsFacts DEF WaitInv, EndNames, WorkNames
  <1>1. ASSUME NEW k \in Int, WaitForBlock(k), stat[current] = "ready",
               Reaches(todo[current], {Pool})
        PROVE  StepOn({Pool})
    <2>. DEFINE w == <<current>> \o waitList[Pool]
                next == <<"mp_woken", k>>
    <2>1. SuspendIn(Pool, w, k, ready, next) /\ error' = [error EXCEPT ![current] = "ok"]
      BY <1>1 DEF WaitForBlock
    <2>2. /\ waitList[Pool] \in Seq(Threads) /\ NoneTwice(waitList[Pool])
          /\ current \notin Elems(waitList[Pool]) /\ current \in Threads
      BY <1>0, <1>1, OneList DEF Waiters, ThreadInv, ListInv, CurrentRight
    <2>3. Elems(w) = Elems(waitList[Pool]) \cup {current}
      BY <2>2, FrontFacts
    <2>4. IsEnd(next) /\ EndIn(next, Pool)
      BY <1>1, EndsFacts
    <2>. HIDE DEF w, next
    <2>. QED
      BY <1>0, <1>1, <2>1, <2>3, <2>4, StepSuspends
  <1>2. CASE MpAlloc(n)
    <2>1. todo[current] = <<>>
      BY <1>2 DEF MpAlloc, Calls
    <2>2. UNCHANGED <<stat, waitList, todo, error>> \/ WaitForBlock(n)
      BY <1>2 DEF MpAlloc
    <2>. QED
      BY <1>0, <1>1, <2>1, <2>2, CallReaches, StepPlain
  <1>3. CASE MpWoken
    <2>. DEFINE k == Head(todo[current])[2]
                e == <<"mp_again", WaitLeft(k)>>
                c == IF error[current] = "ok" THEN <<e>> ELSE <<>>
    <2>1. /\ At("mp_woken") /\ UNCHANGED <<stat, waitList, error>>
          /\ todo' = [todo EXCEPT ![current] = c \o Tail(@)]
      BY <1>3 DEF MpWoken, Then, schedVars
    <2>2. k \in Int
      BY <2>1, AgainFacts
    <2>. HIDE DEF k
    <2>3. IsWork(e)
      BY <2>2, LeftFacts DEF IsWork
    <2>4. c = <<e>> \/ c = <<>>
      OBVIOUS
    <2>. HIDE DEF c, e
    <2>5. /\ Reaches(todo[current], {Pool}) /\ stat[current] = "ready"
          /\ c \o Tail(todo[current]) = c \o <<>>
      BY <1>0, <2>1, AtReaches
    <2>6. c \o <<>> = c /\ Reaches(c, {Pool})
      BY <2>3, <2>4, RestFacts, ReachFacts
    <2>7. todo' = [todo EXCEPT ![current] = c]
      BY <2>1, <2>5, <2>6
    <2>. QED
      BY <1>0, <2>1, <2>5, <2>6, <2>7, StepPlain
  <1>4. CASE MpAgain
    <2>. DEFINE k == Head(todo[current])[2]
    <2>1. /\ At("mp_again")
          /\ (Then(<<>>) /\ UNCHANGED <<stat, waitList, error>>) \/ WaitForBlock(k)
      BY <1>4 DEF MpAgain
    <2>2. k \in Int
      BY <2>1, AgainFacts
    <2>. HIDE DEF k
    <2>3. Reaches(todo[current], {Pool}) /\ stat[current] = "ready"
      BY <1>0, <2>1, AtReaches
    <2>. QED
      BY <1>0, <1>1, <2>1, <2>2, <2>3, StepEnds
  <1>5. CASE MpFree
    <2>1. /\ todo[current] = <<>> /\ \E b : CallerGoes(b)
          /\ \/ /\ waitList[Pool] # <<>> /\ ResumeFirst(Pool, ready, priority)
                /\ error' = [error EXCEPT ![Head(waitList[Pool])] = "ok"]
             \/ UNCHANGED <<stat, waitList, error>>
      BY <1>5 DEF MpFree, ResumeNobody
    <2>2. UNCHANGED error
      <3>1. CASE /\ waitList[Pool] # <<>>
                 /\ error' = [error EXCEPT ![Head(waitList[Pool])] = "ok"]
        <4>. DEFINE h == Head(waitList[Pool])
        <4>1. waitList[Pool] \in Seq(Threads)
          BY <1>0, OneList DEF ThreadInv
        <4>2. h \in Elems(waitList[Pool])
          BY <3>1, <4>1, TailFacts
        <4>3. error[h] = "ok"
          BY <1>0, <4>2 DEF WaitInv
        <4>. HIDE DEF h
        <4>4. [error EXCEPT ![h] = "ok"] = error
          BY <1>0, <4>3
        <4>. QED
          BY <3>1, <4>4 DEF h
      <3>. QED
        BY <2>1, <3>1
    <2>3. \E R : Departs(R, {Pool})
      BY <1>0, <2>1, <2>2, DepartFirst, DepartNobody
    <2>. QED
      BY <2>1, <2>3, CallReaches, StepCaller
  <1>. QED
    BY <1>2, <1>3, <1>4, <1>5
-----------------------------------------------------------------------------
\* Every step is about lists, and what happens to the semaphores and mutexes.

SharesStay == UNCHANGED <<value, owner, hold, permits, taken>>
SemStep(s) ==
  SemRelease(s) \/ SemReleaseISR(s) \/ (\E n \in Int : SemTake(s, n) \/ SemReset(s, n))
    \/ (SemEnd /\ Subject = s)
MutexStep(m) ==
  MutexTakeAgain(m) \/ MutexTakeFree(m) \/ MutexRelease(m) \/ (\E n \in Int : MutexTakeWait(m, n))
    \/ (MutexEnd /\ Subject = m)

LEMMA WaitSubject ==
  ASSUME ThreadInv, WaitInv, SemEnd \/ MutexEnd
  PROVE  /\ SemEnd => Subject \in Sems /\ Last(current) = <<"sem_end", Subject>>
         /\ MutexEnd => Subject \in Mutexes /\ Last(current) = <<"mutex_end", Subject>>
  <1>. DEFINE e == todo[current][1]
  <1>1. IsEnd(e) /\ Last(current) = e /\ Subject = e[2]
        /\ e[1] = IF SemEnd THEN "sem_end" ELSE "mutex_end"
    BY StepWaitEnds
  <1>2. SemEnd => ~MutexEnd
    <2>1. At("sem_end") => ~At("mutex_end")
      BY DEF At
    <2>. QED
      BY <2>1 DEF SemEnd, MutexEnd
  <1>. HIDE DEF e
  <1>3. /\ e[1] = "sem_end" => e[2] \in Sems /\ e = <<"sem_end", e[2]>>
        /\ e[1] = "mutex_end" => e[2] \in Mutexes /\ e = <<"mutex_end", e[2]>>
    <2>1. <<"slept">>[1] = "slept"
      OBVIOUS
    <2>. QED
      BY <1>1, <2>1 DEF IsEnd
  <1>. QED
    BY <1>1, <1>2, <1>3

LEMMA NextCases ==
  ASSUME ThreadInv, WaitInv, Next
  PROVE  \/ SharesStay /\ \E L : StepOn(L) /\ L \cap Objects = {}
         \/ \E s \in Sems : SemStep(s) /\ StepOn({s}) /\ UNCHANGED <<owner, hold>>
         \/ \E m \in Mutexes : MutexStep(m) /\ StepOn({m}) /\ UNCHANGED permits
  <1>0. \A L \in {{}, Mailing, {Event}, {Queue}, {Pool}} : L \cap Objects = {}
    BY IpcAssumption, MessagesAssumption DEF Mailing, Objects
  <1>1. \A n \in WaitTimes \cup {Forever} : n \in Int
    BY TimesFacts DEF ThreadInv, ListInv, CurrentRight
  <1>2. CASE TickOfAll
    <2>1. StepOn({}) /\ SharesStay
      BY <1>2, StepTick DEF TickOfAll, SharesStay, mutexVars, ghosts
    <2>. QED
      BY <1>0, <2>1
  <1>3. CASE (Section \/ Call) /\ UNCHANGED ipcVars
    <2>1. StepOn({}) /\ SharesStay
      BY <1>3, StepKernel DEF SharesStay, ipcVars, mutexVars, ghosts
    <2>. QED
      BY <1>0, <2>1
  <1>4. CASE SemEnd
    <2>1. Subject \in Sems /\ StepOn({Subject}) /\ SemStep(Subject) /\ UNCHANGED <<owner, hold>>
      BY <1>4, WaitSubject, StepWaitEnds DEF SemStep, SemEnd, mutexVars
    <2>. QED
      BY <2>1
  <1>5. CASE MutexEnd
    <2>1. Subject \in Mutexes /\ StepOn({Subject}) /\ MutexStep(Subject) /\ UNCHANGED permits
      BY <1>5, WaitSubject, StepWaitEnds DEF MutexStep, MutexEnd
    <2>. QED
      BY <2>1
  <1>6. ASSUME NEW s \in Sems, NEW n \in Int,
               SemRelease(s) \/ SemReleaseISR(s) \/ SemTake(s, n) \/ SemReset(s, n)
        PROVE  SemStep(s) /\ StepOn({s}) /\ UNCHANGED <<owner, hold>>
    <2>1. StepOn({s})
      <3>1. CASE SemReset(s, n)
        <4>1. StepOn({})
          BY <3>1, StepResets
        <4>2. {} \subseteq {s}
          OBVIOUS
        <4>. QED
          BY <4>1, <4>2, StepMore
      <3>. QED
        BY <1>6, <3>1, StepRelease, StepSemTake
    <2>2. UNCHANGED <<owner, hold>>
      BY <1>6 DEF SemRelease, SemReleaseISR, SemTake, SemReset, mutexVars
    <2>. QED
      BY <1>6, <2>1, <2>2 DEF SemStep
  <1>7. ASSUME NEW m \in Mutexes, NEW n \in Int,
               MutexTakeAgain(m) \/ MutexTakeFree(m) \/ MutexTakeWait(m, n) \/ MutexRelease(m)
        PROVE  MutexStep(m) /\ StepOn({m}) /\ UNCHANGED permits
    <2>1. StepOn({m})
      BY <1>7, StepMutexTake, StepMutexRelease
    <2>2. UNCHANGED permits
      BY <1>7 DEF MutexTakeAgain, MutexTakeFree, MutexTakeWait, MutexRelease, ghosts
    <2>. QED
      BY <1>7, <2>1, <2>2 DEF MutexStep
  <1>8. ASSUME NEW x, NEW n \in Int,
               (x \in Msgs /\ Send(x, n)) \/ SendISR(x) \/ Receive(n) \/ SendAgain \/ ReceiveAgain
        PROVE  StepOn(Mailing) /\ SharesStay
    <2>1. StepOn(Mailing)
      BY <1>8, StepMail
    <2>2. SharesStay
      BY <1>8 DEF Send, SendISR, Receive, SendAgain, ReceiveAgain, SharesStay, mutexVars, ghosts
    <2>. QED
      BY <2>1, <2>2
  <1>9. CASE SendAgain \/ ReceiveAgain
    <2>1. 0 \in Int
      OBVIOUS
    <2>. QED
      BY <1>0, <1>8, <1>9, <2>1
  <1>10. CASE BoxReset \/ EventReset \/ MqReset
    <2>1. StepOn({})
      BY <1>10, StepResets
    <2>2. SharesStay
      BY <1>10 DEF BoxReset, EventReset, MqReset, SharesStay, ipcVars, mutexVars, ghosts
    <2>. QED
      BY <1>0, <2>1, <2>2
  <1>11. ASSUME NEW s \in SUBSET Bits, NEW all, NEW clear, NEW n,
                EventSend(s) \/ EventSendISR(s) \/ EventRecv(s, all, clear, n) \/ EventEnd
         PROVE  StepOn({Event}) /\ SharesStay
    <2>1. StepOn({Event})
      BY <1>11, StepEvent
    <2>2. SharesStay
      BY <1>11 DEF EventSend, EventSendISR, EventRecv, EventEnd, SharesStay, ipcVars, mutexVars,
         ghosts
    <2>. QED
      BY <2>1, <2>2
  <1>12. ASSUME NEW how \in Ways, NEW x, NEW n \in Int,
                \/ MqSend(how, x) \/ MqLink(how) \/ MqSendISR(how, x)
                \/ MqReceive(n) \/ MqReceiveAgain \/ MqCopied
         PROVE  StepOn({Queue}) /\ SharesStay
    <2>1. StepOn({Queue})
      BY <1>12, StepQueue
    <2>2. SharesStay
      BY <1>12 DEF MqSend, MqLink, MqSendISR, MqReceive, MqReceiveAgain, MqCopied, SharesStay,
         ipcVars, mutexVars, ghosts
    <2>. QED
      BY <2>1, <2>2
  <1>13. ASSUME NEW n \in Int, MpAlloc(n) \/ MpWoken \/ MpAgain \/ MpFree
         PROVE  StepOn({Pool}) /\ SharesStay
    <2>1. StepOn({Pool})
      BY <1>13, StepPool
    <2>2. SharesStay
      BY <1>13 DEF MpAlloc, MpWoken, MpAgain, MpFree, SharesStay, ipcVars, mutexVars, ghosts
    <2>. QED
      BY <2>1, <2>2
  <1>14. CASE IpcNext
    <2>1. CASE InCall
      BY <1>3, <1>4, <1>5, <1>9, <2>1 DEF InCall
    <2>2. CASE ApplicationCall
      <3>1. CASE \E s \in Sems : \/ SemRelease(s)
                                 \/ \E n \in WaitTimes \cup {Forever} : SemTake(s, n)
                                 \/ \E n \in 0 .. MaxPermits : SemReset(s, n)
        <4>1. 0 \in Int /\ \A n \in 0 .. MaxPermits : n \in Int
          OBVIOUS
        <4>. QED
          BY <1>1, <1>6, <3>1, <4>1
      <3>2. CASE \E m \in Mutexes : \/ MutexTakeAgain(m) \/ MutexTakeFree(m) \/ MutexRelease(m)
                                    \/ \E n \in WaitTimes \cup {Forever} : MutexTakeWait(m, n)
        <4>1. 0 \in Int
          OBVIOUS
        <4>. QED
          BY <1>1, <1>7, <3>2, <4>1
      <3>3. CASE \E n \in WaitTimes \cup {Forever} : Receive(n) \/ \E x \in Msgs : Send(x, n)
        <4>1. PICK n \in WaitTimes \cup {Forever} : Receive(n) \/ \E x \in Msgs : Send(x, n)
          BY <3>3
        <4>2. n \in Int
          BY <1>1
        <4>3. StepOn(Mailing) /\ SharesStay
          BY <1>8, <4>1, <4>2
        <4>. QED
          BY <1>0, <4>3
      <3>. QED
        BY <1>3, <1>10, <2>2, <3>1, <3>2, <3>3 DEF ApplicationCall
    <2>3. CASE Handler
      <3>1. 0 \in Int
        OBVIOUS
      <3>. QED
        BY <1>0, <1>6, <1>8, <2>3, <3>1 DEF Handler
    <2>. QED
      BY <1>2, <1>14, <2>1, <2>2, <2>3 DEF IpcNext
  <1>15. CASE MsgInCall \/ MsgCall \/ MsgHandler
    <2>0. 0 \in Int /\ "mq_send" \in Ways /\ {} \in SUBSET Bits
          /\ \A s \in (SUBSET Bits) \ {{}} : s \in SUBSET Bits
      BY DEF Ways
    <2>1. CASE MsgInCall
      BY <1>0, <1>11, <1>12, <1>13, <2>0, <2>1 DEF MsgInCall
    <2>2. CASE MsgCall
      BY <1>0, <1>1, <1>10, <1>11, <1>12, <1>13, <2>0, <2>2 DEF MsgCall
    <2>3. CASE MsgHandler
      BY <1>0, <1>11, <1>12, <2>0, <2>3 DEF MsgHandler
    <2>. QED
      BY <1>15, <2>1, <2>2, <2>3
  <1>. QED
    BY <1>14, <1>15 DEF Next

LEMMA WaitInit ==
  MessagesInit => WaitInv
  <1>1. ASSUME MessagesInit PROVE WaitInv
    <2>1. /\ error = [t \in Threads |-> "ok"] /\ waitList = [l \in Lists |-> <<>>]
          /\ todo = [t \in Threads |-> <<>>]
      BY <1>1 DEF MessagesInit, IpcInit, Init
    <2>2. \A t \in Threads : ~WaitingIn(todo[t], Event) /\ \A l : ~WaitingIn(todo[t], l)
      BY <2>1, CallFacts DEF WaitingIn
    <2>3. \A l \in Lists : Elems(waitList[l]) = {}
      BY <2>1, EmptyFacts
    <2>. QED
      BY <2>1, <2>2, <2>3 DEF WaitInv, Results
  <1>. QED
    BY <1>1

LEMMA WaitNext ==
  ThreadInv /\ WaitInv /\ [Next]_allVars => WaitInv'
  <1>1. ASSUME ThreadInv, WaitInv, Next PROVE WaitInv'
    <2>1. ThreadInv'
      BY <1>1, InvStep
    <2>2. \E L : StepOn(L)
      BY <1>1, NextCases
    <2>. QED
      BY <1>1, <2>1, <2>2, WaitStep
  <1>2. ASSUME WaitInv, UNCHANGED allVars PROVE WaitInv'
    BY <1>2 DEF WaitInv, allVars, ipcAndKernel, vars, schedVars, threadVars
  <1>. QED
    BY <1>1, <1>2
-----------------------------------------------------------------------------
\* Semaphores and mutexes: what threads have of them, and are to learn that they have.

SemCall(s)   == <<"sem_end", s>>
MutexCall(m) == <<"mutex_end", m>>
Having(s)    == {t \in Threads : taken[t][s] > 0 \/ LetGo(SemCall(s), t)}

LEMMA CallsOf ==
  /\ \A s \in Sems : /\ s \in Lists /\ s \in Objects /\ IsEnd(SemCall(s)) /\ EndIn(SemCall(s), s)
  /\ \A m \in Mutexes :
       /\ m \in Lists /\ m \in Objects /\ IsEnd(MutexCall(m)) /\ EndIn(MutexCall(m), m)
  /\ \A c : \A s \in Sems : WaitingIn(c, s) => c # <<>> /\ c[Len(c)] = SemCall(s)
  /\ \A c : \A m \in Mutexes : WaitingIn(c, m) => c # <<>> /\ c[Len(c)] = MutexCall(m)
  <1>1. /\ \A s \in Sems : s \in Lists /\ s \in Objects /\ IsEnd(SemCall(s)) /\ EndIn(SemCall(s), s)
        /\ \A m \in Mutexes :
             m \in Lists /\ m \in Objects /\ IsEnd(MutexCall(m)) /\ EndIn(MutexCall(m), m)
    BY EndsFacts DEF SemCall, MutexCall, Objects
  <1>2. ASSUME NEW e, NEW l \in Objects, IsEnd(e), EndIn(e, l)
        PROVE  (l \in Sems => e = SemCall(l)) /\ (l \in Mutexes => e = MutexCall(l))
    <2>1. l \notin {Event, Queue, Pool, Receivers, Senders} /\ Sems \cap Mutexes = {}
      BY IpcAssumption, MessagesAssumption DEF Objects
    <2>2. e[1] \in {"sem_end", "mutex_end"} /\ e[2] = l
      BY <1>2, <2>1 DEF EndIn
    <2>3. <<"slept">>[1] = "slept"
      OBVIOUS
    <2>4. (e[1] = "sem_end" => e \in {"sem_end"} \X Sems)
          /\ (e[1] = "mutex_end" => e \in {"mutex_end"} \X Mutexes)
      BY <1>2, <2>3 DEF IsEnd
    <2>. QED
      BY <2>1, <2>2, <2>4 DEF SemCall, MutexCall
  <1>. QED
    BY <1>1, <1>2 DEF WaitingIn, Waiting, Objects

\* Threads wait only where they are listed; granted are those let go.
LEMMA EndingFacts ==
  ASSUME ThreadInv, WaitInv, NEW l \in Lists, NEW e, IsEnd(e), EndIn(e, l), NEW t \in Threads
  PROVE  /\ Ending(e, t) => WaitingIn(todo[t], l) /\ stat[t] \in {"ready", "suspend"}
         /\ LetGo(e, t) <=> Ending(e, t) /\ error[t] = "ok" /\ t \notin Elems(waitList[l])
  <1>1. Ending(e, t) => WaitingIn(todo[t], l)
    BY DEF Ending, Last, WaitingIn, Waiting
  <1>2. Ending(e, t) => stat[t] = "ready" \/ t \in Elems(waitList[l])
    BY <1>1 DEF WaitInv
  <1>3. t \in Elems(waitList[l]) => stat[t] = "suspend"
    BY DEF ThreadInv, ListInv, ListsRight
  <1>. QED
    BY <1>1, <1>2, <1>3 DEF LetGo

LEMMA HavingIs ==
  ASSUME ThreadInv, WaitInv, NEW s \in Sems
  PROVE  /\ Having(s) = Holding(s) \cup Granted(s)
         /\ IsFiniteSet(Having(s)) /\ Cardinality(Having(s)) \in Nat
  <1>1. s \in Lists /\ IsEnd(SemCall(s)) /\ EndIn(SemCall(s), s)
    BY CallsOf
  <1>2. \A t \in Threads : LetGo(SemCall(s), t) <=>
          Ending(SemCall(s), t) /\ error[t] = "ok" /\ t \notin Elems(waitList[s])
    BY <1>1, EndingFacts
  <1>3. \A t \in Threads : Ending(SemCall(s), t) <=>
          todo[t] # <<>> /\ todo[t][Len(todo[t])] = <<"sem_end", s>>
    BY DEF Ending, Last, SemCall
  <1>4. Having(s) = Holding(s) \cup Granted(s)
    BY <1>2, <1>3 DEF Having, Holding, Granted
  <1>5. IsFiniteSet(Threads) /\ Having(s) \subseteq Threads
    BY KernelAssumption DEF Having
  <1>. QED
    BY <1>4, <1>5, FS_Subset, FS_CardinalityType

\* What a step that resumes the threads R does to them and to a caller that is in no call.
LEMMA LetGoDeparts ==
  ASSUME ThreadInv, NEW R, NEW L, Departs(R, L), NEW e, IsEnd(e),
         \/ UNCHANGED todo
         \/ /\ todo[current] = <<>>
            /\ \E c \in {<<>>, <<Sch>>} : todo' = [todo EXCEPT ![current] = c],
         NEW t \in Threads
  PROVE  /\ Ending(e, t)' <=> Ending(e, t)
         /\ LetGo(e, t)' <=> \/ LetGo(e, t)
                             \/ (t \in R /\ Ending(e, t) /\ error'[t] = "ok")
         /\ t \in R => ~LetGo(e, t)
  <1>1. todo = [x \in Threads |-> todo[x]] /\ current \in Threads
    BY DEF ThreadInv, ListInv, CallsRight, CurrentRight
  <1>2. e # Sch
    BY CallFacts DEF Waiting, Blocking
  <1>3. /\ stat'[t] = IF t \in R THEN "ready" ELSE stat[t]
        /\ error'[t] = error[t] \/ (t \in R /\ error'[t] # "ok")
        /\ t \in R => stat[t] = "suspend"
    BY DEF Departs, Readied, Waiters
  <1>4. Ending(e, t)' <=> Ending(e, t)
    <2>1. CASE todo'[t] = todo[t]
      BY <2>1 DEF Ending, Last
    <2>2. CASE todo'[t] # todo[t]
      <3>1. t = current /\ todo[t] = <<>> /\ todo'[t] \in {<<>>, <<Sch>>}
        BY <1>1, <2>2
      <3>2. <<Sch>>[Len(<<Sch>>)] = Sch
        OBVIOUS
      <3>. QED
        BY <1>2, <3>1, <3>2 DEF Ending, Last
    <2>. QED
      BY <2>1, <2>2
  <1>. QED
    BY <1>3, <1>4 DEF LetGo

LEMMA TakenFacts ==
  ASSUME taken \in [Threads -> [Objects -> Nat]], NEW t \in Threads, NEW o \in Objects,
         NEW k \in Nat,
         taken' = [taken EXCEPT ![t][o] = k]
  PROVE  /\ taken' \in [Threads -> [Objects -> Nat]]
         /\ \A u \in Threads : \A p \in Objects :
              taken'[u][p] = IF u = t /\ p = o THEN k ELSE taken[u][p]
  OBVIOUS
-----------------------------------------------------------------------------
\* Permits and mutexes are shared without loss.

SharesTyped == /\ taken \in [Threads -> [Objects -> Nat]] /\ permits \in [Sems -> Int]
               /\ hold \in [Mutexes -> Nat]

\* Who returns from the wait for a permit has none; permits are neither lost nor made up.
PermitsOf(s) ==
  /\ \A t \in Threads : Ending(SemCall(s), t) => taken[t][s] = 0
  /\ value[s] > 0 => waitList[s] = <<>>
  /\ value[s] + Cardinality(Having(s)) = permits[s]

\* Who returns from the wait for a mutex has not taken it; the owner has, or was let go.
HoldOf(m) ==
  /\ \A t \in Threads : taken[t][m] > 0 => owner[m] = t /\ hold[m] = taken[t][m]
  /\ owner[m] = NoThread <=> hold[m] = 0
  /\ owner[m] # NoThread =>
       taken[owner[m]][m] > 0 \/ (hold[m] = 1 /\ LetGo(MutexCall(m), owner[m]))
  /\ \A t \in Threads : LetGo(MutexCall(m), t) => owner[m] = t
  /\ \A t \in Threads : Ending(MutexCall(m), t) => taken[t][m] = 0

ShareInv == SharesTyped /\ (\A s \in Sems : PermitsOf(s)) /\ (\A m \in Mutexes : HoldOf(m))

\* Nothing but the object o changes hands.
Same(p) == /\ value'[p] = value[p] /\ \A t \in Threads : taken'[t][p] = taken[t][p]
           /\ p \in Sems => permits'[p] = permits[p]
           /\ p \in Mutexes => owner'[p] = owner[p] /\ hold'[p] = hold[p]
Only(o) == SharesTyped' /\ \A p \in Objects \ {o} : Same(p)

LEMMA PermitsStay ==
  ASSUME ThreadInv, ThreadInv', WaitInv, NEW L, StepOn(L), NEW s \in Sems \ L,
         PermitsOf(s), Same(s)
  PROVE  PermitsOf(s)'
  <1>1. s \in Lists \ L /\ IsEnd(SemCall(s)) /\ EndIn(SemCall(s), s)
    BY CallsOf
  <1>2. \A t \in Threads : /\ Ending(SemCall(s), t)' <=> Ending(SemCall(s), t)
                           /\ LetGo(SemCall(s), t)' <=> LetGo(SemCall(s), t)
                           /\ t \in Elems(waitList'[s]) => t \in Elems(waitList[s])
    BY <1>1, OtherLists
  <1>3. Having(s)' = Having(s)
    BY <1>2 DEF Having, Same
  <1>4. waitList[s] \in Seq(Threads) /\ waitList'[s] \in Seq(Threads)
    <2>1. waitList \in [Lists -> Seq(Threads)] /\ waitList' \in [Lists -> Seq(Threads)]
      BY DEF ThreadInv, KernelTypes
    <2>. QED
      BY <1>1, <2>1
  <1>5. waitList[s] = <<>> => waitList'[s] = <<>>
    <2>1. (waitList[s] = <<>> <=> Elems(waitList[s]) = {})
          /\ (waitList'[s] = <<>> <=> Elems(waitList'[s]) = {})
          /\ Elems(waitList'[s]) \subseteq Threads
      BY <1>4, ListDomain
    <2>. QED
      BY <1>2, <2>1
  <1>6. value'[s] = value[s] /\ permits'[s] = permits[s]
        /\ \A t \in Threads : taken'[t][s] = taken[t][s]
    BY DEF Same
  <1>. QED
    BY <1>2, <1>3, <1>5, <1>6 DEF PermitsOf

LEMMA HoldStays ==
  ASSUME ThreadInv, ThreadInv', WaitInv, NEW L, StepOn(L), NEW m \in Mutexes \ L,
         HoldOf(m), Same(m)
  PROVE  HoldOf(m)'
  <1>1. m \in Lists \ L /\ IsEnd(MutexCall(m)) /\ EndIn(MutexCall(m), m)
    BY CallsOf
  <1>2. \A t \in Threads : /\ Ending(MutexCall(m), t)' <=> Ending(MutexCall(m), t)
                           /\ LetGo(MutexCall(m), t)' <=> LetGo(MutexCall(m), t)
    BY <1>1, OtherLists
  <1>3. owner'[m] = owner[m] /\ hold'[m] = hold[m]
        /\ \A t \in Threads : taken'[t][m] = taken[t][m]
    BY DEF Same
  <1>4. owner[m] # NoThread => owner[m] \in Threads
    BY DEF ThreadInv, KernelTypes
  <1>. QED
    BY <1>2, <1>3, <1>4 DEF HoldOf

\* A permit more or less.
LEMMA HavingSize ==
  ASSUME NEW S, IsFiniteSet(S)
  PROVE  /\ Cardinality(S) \in Nat
         /\ \A t : t \notin S => /\ IsFiniteSet(S \cup {t})
                                 /\ Cardinality(S \cup {t}) = Cardinality(S) + 1
         /\ \A t \in S : Cardinality(S \ {t}) = Cardinality(S) - 1
  <1>1. Cardinality(S) \in Nat
    BY FS_CardinalityType
  <1>2. \A t : t \notin S => IsFiniteSet(S \cup {t}) /\ Cardinality(S \cup {t}) = Cardinality(S) + 1
    BY FS_AddElement
  <1>3. \A t \in S : Cardinality(S \ {t}) = Cardinality(S) - 1
    BY FS_RemoveElement
  <1>. QED
    BY <1>1, <1>2, <1>3

LEMMA ValuesFacts ==
  ASSUME ThreadInv
  PROVE  /\ value \in [Objects -> Nat] /\ Sems \subseteq Objects /\ Mutexes \subseteq Objects
         /\ Sems \cap Mutexes = {} /\ NoThread \notin Threads
         /\ stat \in [Threads -> Stats] /\ todo = [t \in Threads |-> todo[t]]
         /\ current \in Threads /\ owner \in [Mutexes -> Threads \cup {NoThread}]
         /\ \A e : ~(todo[current] = <<>> /\ Ending(e, current))
  BY IpcAssumption, KernelAssumption
     DEF ThreadInv, KernelTypes, Objects, ListInv, CallsRight, CurrentRight, Ending

\* The caller begins to wait, or is at a section's end.
LEMMA CallerWaits ==
  ASSUME ThreadInv, WaitInv, todo[current] = <<>>, NEW l, NEW n, NEW r, NEW next,
         SuspendOn(l, n, r, next), NEW e, NEW t \in Threads
  PROVE  /\ t # current => (Ending(e, t)' <=> Ending(e, t))
         /\ LetGo(e, t)' <=> LetGo(e, t)
  <1>. DEFINE c == <<Sch, next>>
  <1>1. /\ stat' = [stat EXCEPT ![current] = "suspend"] /\ todo' = [todo EXCEPT ![current] = c]
        /\ error' = [error EXCEPT ![current] = "ok"]
    BY DEF SuspendOn, SuspendIn, Sch
  <1>. HIDE DEF c
  <1>2. error \in [Threads -> Results]
    BY DEF WaitInv
  <1>3. /\ t # current => stat'[t] = stat[t] /\ todo'[t] = todo[t] /\ error'[t] = error[t]
        /\ stat'[current] = "suspend"
    BY <1>1, <1>2, ValuesFacts
  <1>. QED
    BY <1>3 DEF LetGo, Ending, Last

LEMMA CallerEnds ==
  ASSUME ThreadInv, UNCHANGED <<stat, error>>, todo' = [todo EXCEPT ![current] = <<>>],
         NEW e, NEW t \in Threads
  PROVE  IF t = current THEN ~Ending(e, t)' /\ ~LetGo(e, t)'
                        ELSE (Ending(e, t)' <=> Ending(e, t)) /\ (LetGo(e, t)' <=> LetGo(e, t))
  <1>1. todo'[t] = IF t = current THEN <<>> ELSE todo[t]
    BY ValuesFacts
  <1>. QED
    BY <1>1 DEF LetGo, Ending, Last
-----------------------------------------------------------------------------
\* The steps of a semaphore, and of a mutex.

LEMMA PermitsSemTake ==
  ASSUME ThreadInv, WaitInv, NEW s \in Sems, NEW n, SharesTyped, PermitsOf(s), SemTake(s, n),
         UNCHANGED <<owner, hold>>
  PROVE  Only(s) /\ PermitsOf(s)'
  <1>. DEFINE e == SemCall(s)
  <1>0. /\ todo[current] = <<>> /\ taken[current][s] = 0 /\ UNCHANGED permits
        /\ s \in Objects /\ current \in Threads /\ ~Ending(e, current) /\ value[s] \in Nat
    BY ValuesFacts DEF SemTake, Calls, ghosts
  <1>1. ~LetGo(e, current) /\ IsFiniteSet(Having(s))
    BY <1>0, HavingIs DEF LetGo
  <1>. HIDE DEF e
  <1>2. CASE /\ value[s] > 0
             /\ value' = [value EXCEPT ![s] = @ - 1]
             /\ taken' = [taken EXCEPT ![current][s] = 1]
             /\ UNCHANGED <<stat, ready, waitList, timers, spent, todo, error, left>>
    <2>1. /\ taken' \in [Threads -> [Objects -> Nat]]
          /\ \A u \in Threads : \A p \in Objects :
               taken'[u][p] = IF u = current /\ p = s THEN 1 ELSE taken[u][p]
      BY <1>0, <1>2, TakenFacts DEF SharesTyped
    <2>2. \A p \in Objects : value'[p] = IF p = s THEN value[s] - 1 ELSE value[p]
      BY <1>0, <1>2, ValuesFacts
    <2>3. Only(s)
      BY <1>0, <2>1, <2>2 DEF Only, Same, SharesTyped
    <2>4. \A t \in Threads : (Ending(e, t)' <=> Ending(e, t)) /\ (LetGo(e, t)' <=> LetGo(e, t))
      BY <1>2 DEF Ending, LetGo, Last
    <2>5. Having(s)' = Having(s) \cup {current} /\ current \notin Having(s)
      BY <1>0, <1>1, <2>1, <2>4 DEF Having, e
    <2>6. Cardinality(Having(s)') = Cardinality(Having(s)) + 1 /\ Cardinality(Having(s)) \in Nat
      BY <1>1, <2>5, HavingSize
    <2>7. value'[s] + Cardinality(Having(s)') = permits'[s]
      BY <1>0, <2>2, <2>6 DEF PermitsOf
    <2>8. \A t \in Threads : Ending(e, t)' => taken'[t][s] = 0
      BY <1>0, <2>1, <2>4 DEF PermitsOf, e
    <2>9. waitList'[s] = <<>>
      BY <1>2 DEF PermitsOf
    <2>. QED
      BY <2>3, <2>7, <2>8, <2>9 DEF PermitsOf, e
  <1>3. CASE /\ value[s] = 0 /\ SuspendOn(s, n, ready, <<"sem_end", s>>)
             /\ UNCHANGED <<value, taken>>
    <2>. DEFINE next == <<"sem_end", s>>
    <2>1. SuspendOn(s, n, ready, next)
      BY <1>3
    <2>. HIDE DEF next
    <2>2. \A t \in Threads : /\ t # current => (Ending(e, t)' <=> Ending(e, t))
                             /\ LetGo(e, t)' <=> LetGo(e, t)
      BY <1>0, <2>1, CallerWaits
    <2>3. Having(s)' = Having(s)
      BY <1>3, <2>2 DEF Having, e
    <2>4. \A t \in Threads : Ending(e, t)' => taken'[t][s] = 0
      BY <1>0, <1>3, <2>2 DEF PermitsOf, e
    <2>5. Only(s)
      BY <1>0, <1>3 DEF Only, Same, SharesTyped
    <2>. QED
      BY <1>0, <1>3, <2>3, <2>4, <2>5 DEF PermitsOf, e
  <1>. QED
    BY <1>2, <1>3 DEF SemTake

LEMMA PermitsSemEnd ==
  ASSUME ThreadInv, WaitInv, NEW s \in Sems, SharesTyped, PermitsOf(s), SemEnd, Subject = s,
         UNCHANGED <<owner, hold>>
  PROVE  Only(s) /\ PermitsOf(s)'
  <1>. DEFINE e == SemCall(s)
  <1>1. /\ UNCHANGED <<stat, waitList, error>> /\ todo' = [todo EXCEPT ![current] = <<>>]
        /\ stat[current] = "ready" /\ todo[current] # <<>>
    BY StepWaitEnds
  <1>2. Ending(e, current)
    BY <1>1, WaitSubject DEF Ending, SemCall
  <1>3. taken[current][s] = 0 /\ (LetGo(e, current) <=> error[current] = "ok")
        /\ s \in Objects /\ current \in Threads
    BY <1>1, <1>2, ValuesFacts DEF PermitsOf, LetGo
  <1>. HIDE DEF e
  <1>4. \A t \in Threads : IF t = current THEN ~Ending(e, t)' /\ ~LetGo(e, t)'
              ELSE (Ending(e, t)' <=> Ending(e, t)) /\ (LetGo(e, t)' <=> LetGo(e, t))
    BY <1>1, CallerEnds
  <1>5. /\ taken' = IF error[current] = "ok" THEN [taken EXCEPT ![current][s] = 1] ELSE taken
        /\ UNCHANGED <<value, permits>>
    BY DEF SemEnd
  <1>6. /\ taken' \in [Threads -> [Objects -> Nat]]
        /\ \A u \in Threads : \A p \in Objects :
             taken'[u][p] = IF u = current /\ p = s /\ error[current] = "ok" THEN 1 ELSE taken[u][p]
    <2>1. CASE error[current] = "ok"
      <3>1. taken' = [taken EXCEPT ![current][s] = 1] /\ 1 \in Nat
        BY <1>5, <2>1
      <3>. QED
        BY <1>3, <2>1, <3>1, TakenFacts DEF SharesTyped
    <2>. QED
      BY <1>5, <2>1 DEF SharesTyped
  <1>7. Only(s)
    BY <1>3, <1>5, <1>6 DEF Only, Same, SharesTyped
  <1>8. Having(s)' = Having(s)
    BY <1>3, <1>4, <1>6 DEF Having, e
  <1>9. \A t \in Threads : Ending(e, t)' => taken'[t][s] = 0
    BY <1>3, <1>4, <1>6 DEF PermitsOf, e
  <1>. QED
    BY <1>1, <1>5, <1>7, <1>8, <1>9 DEF PermitsOf, e

LEMMA PermitsSemRelease ==
  ASSUME ThreadInv, WaitInv, NEW s \in Sems, SharesTyped, PermitsOf(s),
         SemRelease(s) \/ SemReleaseISR(s), UNCHANGED <<owner, hold>>
  PROVE  Only(s) /\ PermitsOf(s)'
  <1>. DEFINE e == SemCall(s)
              w == waitList[s]
              S == Having(s)
  <1>0. /\ s \in Objects /\ s \in Lists /\ current \in Threads /\ value[s] \in Nat /\ IsEnd(e)
        /\ IsFiniteSet(S) /\ w \in Seq(Threads)
    BY ValuesFacts, CallsOf, HavingIs DEF ThreadInv, KernelTypes
  <1>1. PICK R : Departs(R, {s}) /\ R = IF w # <<>> THEN {Head(w)} ELSE {}
    BY StepRelease
  <1>2. Release(s) /\ UNCHANGED error
    BY DEF SemRelease, SemReleaseISR
  <1>3. \/ UNCHANGED todo
        \/ todo[current] = <<>> /\ \E c \in {<<>>, <<Sch>>} : todo' = [todo EXCEPT ![current] = c]
    BY DEF SemRelease, SemReleaseISR, CallerGoes, HandlerGoes, Sch
  <1>4. \A t \in Threads : /\ Ending(e, t)' <=> Ending(e, t)
                           /\ LetGo(e, t)' <=> \/ LetGo(e, t)
                                               \/ (t \in R /\ Ending(e, t) /\ error'[t] = "ok")
                           /\ t \in R => ~LetGo(e, t)
    BY <1>0, <1>1, <1>3, LetGoDeparts
  <1>5. \A t \in R : /\ t \in Threads /\ Ending(e, t) /\ error[t] = "ok"
                     /\ taken[t][s] = 0 /\ t \notin S
    <2>1. SUFFICES ASSUME w # <<>>
                   PROVE  /\ Head(w) \in Threads /\ Ending(e, Head(w)) /\ error[Head(w)] = "ok"
                          /\ taken[Head(w)][s] = 0 /\ Head(w) \notin S
      BY <1>1
    <2>2. ResumeFirst(s, ready, priority)
      BY <1>2, <2>1 DEF Release
    <2>3. Head(w) \in Threads /\ WaitingIn(todo[Head(w)], s) /\ error[Head(w)] = "ok"
      BY <1>0, <1>2, <2>1, <2>2, DepartFirst
    <2>4. Ending(e, Head(w)) /\ Head(w) \in R
      BY <1>1, <2>1, <2>3, CallsOf DEF Ending, Last
    <2>. QED
      BY <1>4, <2>3, <2>4 DEF PermitsOf, Having
  <1>6. /\ \A p \in Objects : value'[p] = IF p = s /\ w = <<>> THEN value[s] + 1 ELSE value[p]
        /\ value'[s] > 0 => waitList'[s] = <<>>
    <2>1. CASE w # <<>>
      <3>1. UNCHANGED value /\ ~(value[s] > 0)
        BY <1>2, <2>1 DEF Release, PermitsOf
      <3>. QED
        BY <2>1, <3>1
    <2>2. CASE w = <<>>
      <3>1. value' = [value EXCEPT ![s] = @ + 1] /\ UNCHANGED waitList
        BY <1>2, <2>2 DEF Release, ResumeNobody
      <3>. QED
        BY <1>0, <2>2, <3>1, ValuesFacts
    <2>. QED
      BY <2>1, <2>2
  <1>7. /\ IsFiniteSet(S \cup R) /\ Cardinality(S) \in Nat
        /\ value'[s] + Cardinality(S \cup R) = value[s] + Cardinality(S) + 1
        /\ Cardinality(S \cup R) \in Nat /\ value'[s] \in Int
    <2>1. CASE w # <<>>
      <3>1. PICK h : R = {h} /\ h \notin S
        BY <1>1, <1>5, <2>1
      <3>2. value'[s] = value[s]
        BY <1>0, <1>6, <2>1
      <3>3. /\ Cardinality(S) \in Nat
            /\ IsFiniteSet(S \cup {h}) /\ Cardinality(S \cup {h}) = Cardinality(S) + 1
        <4>. HIDE DEF S
        <4>. QED
          BY <1>0, <3>1, HavingSize
      <3>. HIDE DEF S
      <3>. QED
        BY <1>0, <3>1, <3>2, <3>3
    <2>2. CASE w = <<>>
      <3>1. R = {} /\ value'[s] = value[s] + 1
        BY <1>0, <1>1, <1>6, <2>2
      <3>2. S \cup R = S
        BY <3>1
      <3>. HIDE DEF S
      <3>. QED
        BY <1>0, <3>1, <3>2, HavingSize
    <2>. QED
      BY <2>1, <2>2
  <1>8. ASSUME todo[current] = <<>>, taken[current][s] = 1,
               taken' = [taken EXCEPT ![current][s] = 0], UNCHANGED permits
        PROVE  Only(s) /\ PermitsOf(s)'
    <2>1. /\ taken' \in [Threads -> [Objects -> Nat]]
          /\ \A u \in Threads : \A p \in Objects :
               taken'[u][p] = IF u = current /\ p = s THEN 0 ELSE taken[u][p]
      BY <1>0, <1>8, TakenFacts DEF SharesTyped
    <2>2. current \in S /\ ~Ending(e, current)
      BY <1>0, <1>8, ValuesFacts DEF Having
    <2>. HIDE DEF e
    <2>3. Having(s)' = (S \cup R) \ {current}
      <3>1. current \notin R
        BY <1>5, <1>8
      <3>2. ~LetGo(e, current)
        BY <2>2 DEF LetGo
      <3>3. \A t \in Threads : LetGo(e, t)' <=> LetGo(e, t) \/ t \in R
        BY <1>2, <1>4, <1>5
      <3>4. Having(s)' = {t \in Threads : taken'[t][s] > 0 \/ LetGo(e, t)'}
        BY DEF Having, e
      <3>5. S = {t \in Threads : taken[t][s] > 0 \/ LetGo(e, t)}
        BY DEF Having, e
      <3>6. \A t \in Threads : taken'[t][s] > 0 <=> taken[t][s] > 0 /\ t # current
        BY <1>0, <2>1
      <3>. HIDE DEF S
      <3>. QED
        BY <1>0, <1>5, <3>1, <3>2, <3>3, <3>4, <3>5, <3>6
    <2>4. Cardinality(Having(s)') = Cardinality(S \cup R) - 1
      <3>1. current \in S \cup R
        BY <2>2
      <3>. HIDE DEF S
      <3>. QED
        BY <1>7, <2>3, <3>1, HavingSize
    <2>5. value'[s] + Cardinality(Having(s)') = permits'[s]
      BY <1>0, <1>7, <1>8, <2>4 DEF PermitsOf
    <2>6. \A t \in Threads : Ending(e, t)' => taken'[t][s] = 0
      BY <1>0, <1>4, <2>1 DEF PermitsOf, e
    <2>7. Only(s)
      BY <1>0, <1>6, <1>8, <2>1 DEF Only, Same, SharesTyped
    <2>. QED
      BY <1>6, <2>5, <2>6, <2>7 DEF PermitsOf, e
  <1>9. ASSUME permits' = [permits EXCEPT ![s] = @ + 1], UNCHANGED taken
        PROVE  Only(s) /\ PermitsOf(s)'
    <2>1. /\ permits' \in [Sems -> Int]
          /\ \A p \in Sems : permits'[p] = IF p = s THEN permits[s] + 1 ELSE permits[p]
      BY <1>9 DEF SharesTyped
    <2>. HIDE DEF e
    <2>2. Having(s)' = S \cup R
      <3>1. \A t \in Threads : LetGo(e, t)' <=> LetGo(e, t) \/ t \in R
        BY <1>2, <1>4, <1>5
      <3>. QED
        BY <1>5, <1>9, <3>1 DEF Having, e
    <2>3. value'[s] + Cardinality(Having(s)') = permits'[s]
      BY <1>0, <1>7, <2>1, <2>2 DEF PermitsOf
    <2>4. \A t \in Threads : Ending(e, t)' => taken'[t][s] = 0
      BY <1>4, <1>9 DEF PermitsOf, e
    <2>5. Only(s)
      BY <1>0, <1>6, <1>9, <2>1 DEF Only, Same, SharesTyped
    <2>. QED
      BY <1>6, <2>3, <2>4, <2>5 DEF PermitsOf, e
  <1>. QED
    BY <1>8, <1>9 DEF SemRelease, SemReleaseISR

LEMMA PermitsSemReset ==
  ASSUME ThreadInv, WaitInv, NEW s \in Sems, NEW n \in Int, SharesTyped, PermitsOf(s),
         SemReset(s, n), UNCHANGED <<owner, hold>>
  PROVE  Only(s) /\ PermitsOf(s)'
  <1>. DEFINE e == SemCall(s)
  <1>0. s \in Objects /\ s \in Lists /\ IsEnd(e) /\ Having(s) = Holding(s) \cup Granted(s)
    BY ValuesFacts, CallsOf, HavingIs
  <1>1. /\ ResumeAll(<<s>>) /\ value' = [value EXCEPT ![s] = n] /\ todo[current] = <<>>
        /\ CallerGoes(TRUE) /\ UNCHANGED taken
        /\ permits' = [permits EXCEPT ![s] = n + Cardinality(Having(s))]
    BY <1>0 DEF SemReset, Calls
  <1>2. PICK R : Departs(R, {}) /\ \A t \in R : error'[t] # "ok"
    <2>1. \E m \in Lists : s # m
      BY EndsFacts, IpcAssumption
    <2>2. ResumeAll(<<s>>) /\ s \in Lists
      BY <1>0, <1>1
    <2>. QED
      BY <2>1, <2>2, DepartAll
  <1>3. todo[current] = <<>> /\ \E c \in {<<>>, <<Sch>>} : todo' = [todo EXCEPT ![current] = c]
    BY <1>1 DEF CallerGoes, Sch
  <1>. HIDE DEF e
  <1>4. \A t \in Threads : (Ending(e, t)' <=> Ending(e, t)) /\ (LetGo(e, t)' <=> LetGo(e, t))
    BY <1>0, <1>2, <1>3, LetGoDeparts
  <1>5. Having(s)' = Having(s) /\ Cardinality(Having(s)) \in Nat
    BY <1>1, <1>4, HavingIs DEF Having, e
  <1>6. permits' \in [Sems -> Int] /\ \A p \in Sems :
          permits'[p] = IF p = s THEN n + Cardinality(Having(s)) ELSE permits[p]
    BY <1>1, <1>5 DEF SharesTyped
  <1>7. \A p \in Objects : value'[p] = IF p = s THEN n ELSE value[p]
    BY <1>1, ValuesFacts
  <1>8. Only(s)
    BY <1>1, <1>6, <1>7 DEF Only, Same, SharesTyped
  <1>9. waitList'[s] = <<>>
    BY StepResets
  <1>. QED
    BY <1>0, <1>1, <1>4, <1>5, <1>6, <1>7, <1>8, <1>9 DEF PermitsOf, e
LEMMA HoldTaken ==
  ASSUME ThreadInv, SharesTyped, NEW m \in Mutexes, NEW k \in Nat, NEW h \in Nat,
         taken' = [taken EXCEPT ![current][m] = k], hold' = [hold EXCEPT ![m] = h],
         \A p \in Objects \ {m} : value'[p] = value[p],
         \A p \in Mutexes \ {m} : owner'[p] = owner[p], UNCHANGED permits
  PROVE  /\ Only(m) /\ hold'[m] = h
         /\ \A t \in Threads : taken'[t][m] = IF t = current THEN k ELSE taken[t][m]
  <1>1. m \in Objects /\ current \in Threads
    BY ValuesFacts
  <1>2. /\ taken' \in [Threads -> [Objects -> Nat]]
        /\ \A u \in Threads : \A p \in Objects :
             taken'[u][p] = IF u = current /\ p = m THEN k ELSE taken[u][p]
    BY <1>1, TakenFacts DEF SharesTyped
  <1>3. hold' \in [Mutexes -> Nat] /\ \A p \in Mutexes : hold'[p] = IF p = m THEN h ELSE hold[p]
    BY DEF SharesTyped
  <1>. QED
    BY <1>1, <1>2, <1>3 DEF Only, Same, SharesTyped

\* What is known of a mutex in a call that begins with m.
LEMMA HoldCaller ==
  ASSUME ThreadInv, SharesTyped, NEW m \in Mutexes, HoldOf(m), todo[current] = <<>>
  PROVE  /\ current \in Threads /\ current # NoThread
         /\ taken[current][m] \in Nat /\ hold[m] \in Nat
         /\ ~Ending(MutexCall(m), current) /\ ~LetGo(MutexCall(m), current)
         /\ owner[m] = current => taken[current][m] > 0 /\ hold[m] = taken[current][m]
  <1>1. /\ current \in Threads /\ current # NoThread /\ m \in Objects
        /\ ~Ending(MutexCall(m), current)
    BY ValuesFacts
  <1>2. ~LetGo(MutexCall(m), current)
    BY <1>1 DEF LetGo
  <1>. QED
    BY <1>1, <1>2 DEF HoldOf, SharesTyped

LEMMA HoldTakeAgain ==
  ASSUME ThreadInv, WaitInv, NEW m \in Mutexes, SharesTyped, HoldOf(m),
         MutexTakeAgain(m) \/ MutexTakeFree(m)
  PROVE  Only(m) /\ HoldOf(m)'
  <1>. DEFINE e == MutexCall(m)
  <1>1. /\ todo[current] = <<>> /\ UNCHANGED <<stat, waitList, permits, todo>>
        /\ hold' = [hold EXCEPT ![m] = hold[m] + 1]
        /\ taken' = [taken EXCEPT ![current][m] = taken[current][m] + 1]
        /\ error' = [error EXCEPT ![current] = "ok"]
    BY DEF MutexTakeAgain, MutexTakeFree, Calls, MayTake, schedVars
  <1>2. /\ current \in Threads /\ current # NoThread /\ taken[current][m] \in Nat /\ hold[m] \in Nat
        /\ ~Ending(e, current) /\ ~LetGo(e, current)
        /\ owner[m] = current => taken[current][m] > 0 /\ hold[m] = taken[current][m]
    BY <1>1, HoldCaller
  <1>. HIDE DEF e
  <1>3. \A t \in Threads : (Ending(e, t)' <=> Ending(e, t)) /\ (LetGo(e, t)' <=> LetGo(e, t))
    <2>1. \A t \in Threads : Ending(e, t)' <=> Ending(e, t)
      BY <1>1 DEF Ending, Last
    <2>2. \A t \in Threads \ {current} : error'[t] = error[t]
      BY <1>1 DEF WaitInv
    <2>. QED
      BY <1>1, <1>2, <2>1, <2>2 DEF LetGo
  <1>4. /\ owner'[m] = current /\ (owner[m] = current \/ owner[m] = NoThread)
        /\ \A p \in Objects \ {m} : value'[p] = value[p]
        /\ \A p \in Mutexes \ {m} : owner'[p] = owner[p]
    <2>1. CASE MutexTakeAgain(m)
      BY <2>1 DEF MutexTakeAgain
    <2>2. CASE MutexTakeFree(m)
      <3>1. /\ value[m] > 0 /\ value' = [value EXCEPT ![m] = @ - 1]
            /\ owner' = [owner EXCEPT ![m] = current]
        BY <2>2 DEF MutexTakeFree
      <3>2. owner[m] = NoThread
        BY <3>1 DEF ThreadInv, OwnersRight
      <3>. QED
        BY <3>1, <3>2, ValuesFacts
    <2>. QED
      BY <2>1, <2>2
  <1>5. /\ Only(m) /\ hold'[m] = hold[m] + 1
        /\ \A t \in Threads :
             taken'[t][m] = IF t = current THEN taken[current][m] + 1 ELSE taken[t][m]
    <2>1. hold[m] + 1 \in Nat /\ taken[current][m] + 1 \in Nat
      BY <1>2
    <2>. QED
      BY <1>1, <1>4, <2>1, HoldTaken
  <1>6. \A t \in Threads : taken[t][m] > 0 => t = current /\ owner[m] = current
    BY <1>4, ValuesFacts DEF HoldOf
  <1>7. hold[m] = taken[current][m]
    <2>1. CASE owner[m] = NoThread
      <3>1. hold[m] = 0
        BY <2>1 DEF HoldOf
      <3>2. ~(taken[current][m] > 0)
        BY <1>2, <1>6, <2>1
      <3>. QED
        BY <1>2, <3>1, <3>2
    <2>. QED
      BY <1>2, <1>4, <2>1
  <1>8. \A t \in Threads : taken'[t][m] > 0 => owner'[m] = t /\ hold'[m] = taken'[t][m]
    BY <1>4, <1>5, <1>6, <1>7
  <1>9. owner'[m] # NoThread /\ hold'[m] # 0 /\ taken'[owner'[m]][m] > 0
    BY <1>2, <1>4, <1>5
  <1>10. \A t \in Threads : LetGo(e, t)' => owner'[m] = t
    BY <1>3, <1>4, ValuesFacts DEF HoldOf, e
  <1>11. \A t \in Threads : Ending(e, t)' => taken'[t][m] = 0
    BY <1>2, <1>3, <1>5 DEF HoldOf, e
  <1>. QED
    BY <1>5, <1>8, <1>9, <1>10, <1>11 DEF HoldOf, e

LEMMA HoldTakeWait ==
  ASSUME ThreadInv, WaitInv, NEW m \in Mutexes, SharesTyped, HoldOf(m), NEW n,
         MutexTakeWait(m, n)
  PROVE  Only(m) /\ HoldOf(m)'
  <1>. DEFINE e == MutexCall(m)
              next == <<"mutex_end", m>>
  <1>1. /\ todo[current] = <<>> /\ owner[m] # current
        /\ UNCHANGED <<value, owner, hold, taken, permits>>
    BY DEF MutexTakeWait, MayTake, Calls, mutexVars, ghosts
  <1>2. PICK r : SuspendOn(m, n, r, next)
    BY DEF MutexTakeWait
  <1>3. current \in Threads /\ taken[current][m] = 0
    <2>1. taken[current][m] \in Nat /\ current \in Threads
      BY <1>1, HoldCaller
    <2>. QED
      BY <1>1, <2>1 DEF HoldOf
  <1>. HIDE DEF e, next
  <1>4. \A t \in Threads : /\ t # current => (Ending(e, t)' <=> Ending(e, t))
                           /\ LetGo(e, t)' <=> LetGo(e, t)
    BY <1>1, <1>2, CallerWaits
  <1>5. Only(m)
    BY <1>1 DEF Only, Same, SharesTyped
  <1>6. \A t \in Threads : Ending(e, t)' => taken'[t][m] = 0
    BY <1>1, <1>3, <1>4 DEF HoldOf, e
  <1>7. owner[m] # NoThread => owner[m] \in Threads
    BY ValuesFacts
  <1>. QED
    BY <1>1, <1>4, <1>5, <1>6, <1>7 DEF HoldOf, e

LEMMA HoldMutexEnd ==
  ASSUME ThreadInv, WaitInv, NEW m \in Mutexes, SharesTyped, HoldOf(m), MutexEnd, Subject = m
  PROVE  Only(m) /\ HoldOf(m)'
  <1>. DEFINE e == MutexCall(m)
              c == current
  <1>1. /\ UNCHANGED <<stat, waitList, error>> /\ todo' = [todo EXCEPT ![c] = <<>>]
        /\ stat[c] = "ready" /\ todo[c] # <<>>
    BY StepWaitEnds
  <1>2. Ending(e, c)
    BY <1>1, WaitSubject DEF Ending, MutexCall
  <1>3. /\ taken[c][m] = 0 /\ (LetGo(e, c) <=> error[c] = "ok")
        /\ m \in Objects /\ c \in Threads /\ c # NoThread
    BY <1>1, <1>2, ValuesFacts DEF HoldOf, LetGo
  <1>4. /\ taken' = IF error[c] = "ok" THEN [taken EXCEPT ![current][m] = @ + 1] ELSE taken
        /\ UNCHANGED <<value, permits, owner, hold>>
    BY DEF MutexEnd, mutexVars
  <1>. HIDE DEF e
  <1>5. \A t \in Threads : IF t = c THEN ~Ending(e, t)' /\ ~LetGo(e, t)'
              ELSE (Ending(e, t)' <=> Ending(e, t)) /\ (LetGo(e, t)' <=> LetGo(e, t))
    BY <1>1, CallerEnds
  <1>6. CASE error[c] = "ok"
    <2>1. owner[m] = c /\ hold[m] = 1
      BY <1>3, <1>6 DEF HoldOf, e
    <2>2. taken' = [taken EXCEPT ![current][m] = 1] /\ hold' = [hold EXCEPT ![m] = 1]
      BY <1>3, <1>4, <1>6, <2>1 DEF SharesTyped
    <2>3. /\ Only(m) /\ hold'[m] = 1
          /\ \A t \in Threads : taken'[t][m] = IF t = current THEN 1 ELSE taken[t][m]
      <3>1. 1 \in Nat
        OBVIOUS
      <3>. QED
        BY <1>4, <2>2, <3>1, HoldTaken
    <2>4. \A t \in Threads : taken'[t][m] > 0 => owner'[m] = t /\ hold'[m] = taken'[t][m]
      BY <1>4, <2>1, <2>3 DEF HoldOf
    <2>5. owner'[m] # NoThread /\ hold'[m] # 0 /\ taken'[owner'[m]][m] > 0
      BY <1>3, <1>4, <2>1, <2>3
    <2>6. \A t \in Threads : LetGo(e, t)' => owner'[m] = t
      BY <1>4, <1>5 DEF HoldOf, e
    <2>7. \A t \in Threads : Ending(e, t)' => taken'[t][m] = 0
      BY <1>5, <2>3 DEF HoldOf, e
    <2>. QED
      BY <2>3, <2>4, <2>5, <2>6, <2>7 DEF HoldOf, e
  <1>7. CASE error[c] # "ok"
    <2>1. owner[m] # c /\ UNCHANGED taken
      BY <1>3, <1>4, <1>7 DEF HoldOf, e
    <2>2. Only(m)
      BY <1>4, <2>1 DEF Only, Same, SharesTyped
    <2>3. owner[m] # NoThread => owner[m] \in Threads
      BY ValuesFacts
    <2>. QED
      BY <1>4, <1>5, <2>1, <2>2, <2>3 DEF HoldOf, e
  <1>. QED
    BY <1>6, <1>7

LEMMA HoldRelease ==
  ASSUME ThreadInv, WaitInv, NEW m \in Mutexes, SharesTyped, HoldOf(m), MutexRelease(m),
         UNCHANGED permits
  PROVE  Only(m) /\ HoldOf(m)'
  <1>. DEFINE e == MutexCall(m)
              w == waitList[m]
              k == taken[current][m] - 1
  <1>0. /\ m \in Objects /\ m \in Lists /\ IsEnd(e) /\ owner[m] = current
        /\ taken' = [taken EXCEPT ![current][m] = k]
    BY ValuesFacts, CallsOf DEF MutexRelease
  <1>1. /\ todo[current] = <<>> /\ \E c \in {<<>>, <<Sch>>} : todo' = [todo EXCEPT ![current] = c]
        /\ UNCHANGED error
    BY StepMutexRelease DEF MutexRelease
  <1>2. /\ current \in Threads /\ current # NoThread /\ taken[current][m] \in Nat /\ hold[m] \in Nat
        /\ ~Ending(e, current) /\ ~LetGo(e, current)
        /\ taken[current][m] > 0 /\ hold[m] = taken[current][m] /\ k \in Nat
    BY <1>0, <1>1, HoldCaller
  <1>3. PICK R : Departs(R, {m}) /\ R = IF hold[m] = 1 /\ w # <<>> THEN {Head(w)} ELSE {}
    BY StepMutexRelease
  <1>. HIDE DEF e
  <1>4. \A t \in Threads : /\ Ending(e, t)' <=> Ending(e, t)
                           /\ LetGo(e, t)' <=> \/ LetGo(e, t)
                                               \/ (t \in R /\ Ending(e, t) /\ error'[t] = "ok")
    BY <1>0, <1>1, <1>3, LetGoDeparts
  <1>5. \A t \in Threads : ~LetGo(e, t) /\ (t # current => taken[t][m] = 0)
    <2>1. \A t \in Threads : LetGo(e, t) => t = current
      BY <1>0 DEF HoldOf, e
    <2>2. \A t \in Threads : taken[t][m] \in Nat
      BY <1>0 DEF SharesTyped
    <2>3. \A t \in Threads : taken[t][m] > 0 => t = current
      BY <1>0 DEF HoldOf
    <2>. QED
      BY <1>2, <2>1, <2>2, <2>3
  <1>. HIDE DEF k
  <1>6. CASE hold[m] # 1
    <2>1. hold' = [hold EXCEPT ![m] = @ - 1] /\ UNCHANGED <<value, owner>> /\ hold[m] - 1 \in Nat
      BY <1>2, <1>6 DEF MutexRelease
    <2>0. PICK g \in Nat : g = hold[m] - 1
      BY <2>1
    <2>2. /\ hold' = [hold EXCEPT ![m] = g]
          /\ \A p \in Objects \ {m} : value'[p] = value[p]
          /\ \A p \in Mutexes \ {m} : owner'[p] = owner[p]
      BY <2>0, <2>1
    <2>3. /\ Only(m) /\ hold'[m] = g
          /\ \A t \in Threads : taken'[t][m] = IF t = current THEN k ELSE taken[t][m]
      BY <1>0, <1>2, <2>2, HoldTaken
    <2>4. R = {} /\ g = k /\ k > 0
      BY <1>2, <1>3, <1>6, <2>0 DEF k
    <2>5. \A t \in Threads : ~LetGo(e, t)' /\ (Ending(e, t)' => taken'[t][m] = 0)
      BY <1>2, <1>4, <1>5, <2>3, <2>4
    <2>6. \A t \in Threads : taken'[t][m] > 0 => owner'[m] = t /\ hold'[m] = taken'[t][m]
      BY <1>0, <1>5, <2>1, <2>3, <2>4
    <2>7. owner'[m] # NoThread /\ hold'[m] # 0 /\ taken'[owner'[m]][m] > 0
      BY <1>0, <1>2, <2>1, <2>3, <2>4
    <2>. QED
      BY <2>3, <2>5, <2>6, <2>7 DEF HoldOf, e
  <1>7. CASE hold[m] = 1 /\ w # <<>>
    <2>1. /\ owner' = [owner EXCEPT ![m] = Head(w)] /\ UNCHANGED <<value, hold>>
          /\ \E r : ResumeFirst(m, r, priority')
      BY <1>7 DEF MutexRelease
    <2>0. PICK h : h = Head(w)
      OBVIOUS
    <2>2. h \in Threads /\ WaitingIn(todo[h], m) /\ error[h] = "ok"
      BY <1>0, <1>1, <1>7, <2>0, <2>1, DepartFirst
    <2>3. Ending(e, h) /\ R = {h}
      BY <1>3, <1>7, <2>0, <2>2, CallsOf DEF Ending, Last, e
    <2>4. /\ owner'[m] = h /\ \A p \in Mutexes \ {m} : owner'[p] = owner[p]
          /\ \A p \in Objects \ {m} : value'[p] = value[p]
      BY <2>0, <2>1, ValuesFacts
    <2>5. k = 0 /\ hold' = [hold EXCEPT ![m] = 1] /\ 1 \in Nat
      BY <1>2, <1>7, <2>1 DEF k, SharesTyped
    <2>6. /\ Only(m) /\ hold'[m] = 1
          /\ \A t \in Threads : taken'[t][m] = IF t = current THEN k ELSE taken[t][m]
      BY <1>0, <1>2, <2>4, <2>5, HoldTaken
    <2>7. \A t \in Threads : taken'[t][m] = 0
      BY <1>5, <2>5, <2>6
    <2>8. LetGo(e, h)' /\ \A t \in Threads : LetGo(e, t)' => t = h
      <3>1. error'[h] = "ok"
        BY <1>1, <2>2
      <3>2. \A t \in Threads : LetGo(e, t)' => t \in R
        BY <1>4, <1>5
      <3>3. LetGo(e, h)'
        BY <1>4, <2>2, <2>3, <3>1
      <3>. QED
        BY <2>3, <3>2, <3>3
    <2>9. h # NoThread
      BY <2>2, ValuesFacts
    <2>. QED
      BY <2>4, <2>6, <2>7, <2>8, <2>9 DEF HoldOf, e
  <1>8. CASE hold[m] = 1 /\ w = <<>>
    <2>1. /\ owner' = [owner EXCEPT ![m] = NoThread] /\ hold' = [hold EXCEPT ![m] = 0]
          /\ value' = [value EXCEPT ![m] = @ + 1]
      BY <1>8 DEF MutexRelease
    <2>2. /\ owner'[m] = NoThread /\ \A p \in Mutexes \ {m} : owner'[p] = owner[p]
          /\ \A p \in Objects \ {m} : value'[p] = value[p]
      BY <2>1, ValuesFacts
    <2>3. k = 0 /\ R = {} /\ 0 \in Nat
      BY <1>2, <1>3, <1>8 DEF k
    <2>4. /\ Only(m) /\ hold'[m] = 0
          /\ \A t \in Threads : taken'[t][m] = IF t = current THEN k ELSE taken[t][m]
      BY <1>0, <1>2, <2>1, <2>2, <2>3, HoldTaken
    <2>5. \A t \in Threads : taken'[t][m] = 0
      BY <1>5, <2>3, <2>4
    <2>6. \A t \in Threads : ~LetGo(e, t)'
      BY <1>4, <1>5, <2>3
    <2>. QED
      BY <2>2, <2>4, <2>5, <2>6 DEF HoldOf, e
  <1>. QED
    BY <1>6, <1>7, <1>8
-----------------------------------------------------------------------------
\* The invariant of what threads share, and what it says of permits, mutexes and blocks.

LEMMA ShareInit ==
  MessagesInit => ShareInv
  <1>1. ASSUME MessagesInit PROVE ShareInv
    <2>1. /\ value = [o \in Objects |-> IF o \in Sems THEN Permits ELSE 1]
          /\ owner = [m \in Mutexes |-> NoThread] /\ hold = [m \in Mutexes |-> 0]
          /\ permits = [s \in Sems |-> Permits] /\ taken = [t \in Threads |-> [o \in Objects |-> 0]]
          /\ todo = [t \in Threads |-> <<>>] /\ waitList = [l \in Lists |-> <<>>]
      BY <1>1 DEF MessagesInit, IpcInit, Init
    <2>2. /\ Permits \in Nat /\ Sems \subseteq Objects /\ Mutexes \subseteq Objects
          /\ Objects \subseteq Lists
      BY IpcAssumption DEF Objects
    <2>3. \A t \in Threads : \A o \in Objects : taken[t][o] = 0
      BY <2>1
    <2>4. \A e : \A t \in Threads : ~Ending(e, t) /\ ~LetGo(e, t)
      BY <2>1 DEF Ending, LetGo
    <2>5. SharesTyped
      BY <2>1, <2>2 DEF SharesTyped
    <2>6. ASSUME NEW s \in Sems PROVE PermitsOf(s)
      <3>1. Having(s) = {}
        BY <2>2, <2>3, <2>4 DEF Having
      <3>2. value[s] = Permits /\ permits[s] = Permits /\ waitList[s] = <<>>
        BY <2>1, <2>2
      <3>3. value[s] + Cardinality(Having(s)) = permits[s]
        BY <2>2, <3>1, <3>2, FS_EmptySet
      <3>. QED
        BY <2>4, <3>2, <3>3 DEF PermitsOf
    <2>7. ASSUME NEW m \in Mutexes PROVE HoldOf(m)
      <3>1. owner[m] = NoThread /\ hold[m] = 0 /\ \A t \in Threads : taken[t][m] = 0
        BY <2>1, <2>2, <2>3
      <3>. QED
        BY <2>4, <3>1 DEF HoldOf
    <2>. QED
      BY <2>5, <2>6, <2>7 DEF ShareInv
  <1>. QED
    BY <1>1

LEMMA ShareStep ==
  ASSUME ThreadInv, ThreadInv', WaitInv, ShareInv, Next
  PROVE  ShareInv'
  <1>1. SharesTyped /\ (\A s \in Sems : PermitsOf(s)) /\ (\A m \in Mutexes : HoldOf(m))
    BY DEF ShareInv
  <1>0. Sems \subseteq Objects /\ Mutexes \subseteq Objects /\ Sems \cap Mutexes = {}
    BY ValuesFacts
  <1>2. CASE SharesStay /\ \E L : StepOn(L) /\ L \cap Objects = {}
    <2>1. PICK L : StepOn(L) /\ L \cap Objects = {}
      BY <1>2
    <2>2. SharesTyped' /\ \A p : Same(p)
      BY <1>1, <1>2 DEF SharesStay, SharesTyped, Same
    <2>3. \A s \in Sems : PermitsOf(s)'
      BY <1>0, <1>1, <2>1, <2>2, PermitsStay
    <2>4. \A m \in Mutexes : HoldOf(m)'
      BY <1>0, <1>1, <2>1, <2>2, HoldStays
    <2>. QED
      BY <2>2, <2>3, <2>4 DEF ShareInv
  <1>3. ASSUME NEW s \in Sems, SemStep(s), StepOn({s}), UNCHANGED <<owner, hold>>
        PROVE  ShareInv'
    <2>1. Only(s) /\ PermitsOf(s)'
      <3>1. CASE \E n \in Int : SemTake(s, n)
        BY <1>1, <1>3, <3>1, PermitsSemTake
      <3>2. CASE \E n \in Int : SemReset(s, n)
        BY <1>1, <1>3, <3>2, PermitsSemReset
      <3>3. CASE SemRelease(s) \/ SemReleaseISR(s)
        BY <1>1, <1>3, <3>3, PermitsSemRelease
      <3>4. CASE SemEnd /\ Subject = s
        BY <1>1, <1>3, <3>4, PermitsSemEnd
      <3>. QED
        BY <1>3, <3>1, <3>2, <3>3, <3>4 DEF SemStep
    <2>2. \A p \in Objects \ {s} : Same(p)
      BY <2>1 DEF Only
    <2>3. \A r \in Sems \ {s} : PermitsOf(r)'
      BY <1>0, <1>1, <1>3, <2>2, PermitsStay
    <2>4. \A m \in Mutexes : m \notin {s} /\ Same(m)
      BY <1>0, <2>2
    <2>5. \A m \in Mutexes : HoldOf(m)'
      BY <1>1, <1>3, <2>4, HoldStays
    <2>. QED
      BY <2>1, <2>3, <2>5 DEF ShareInv, Only
  <1>4. ASSUME NEW m \in Mutexes, MutexStep(m), StepOn({m}), UNCHANGED permits
        PROVE  ShareInv'
    <2>1. Only(m) /\ HoldOf(m)'
      <3>1. CASE MutexTakeAgain(m) \/ MutexTakeFree(m)
        BY <1>1, <3>1, HoldTakeAgain
      <3>2. CASE \E n \in Int : MutexTakeWait(m, n)
        BY <1>1, <3>2, HoldTakeWait
      <3>3. CASE MutexRelease(m)
        BY <1>1, <1>4, <3>3, HoldRelease
      <3>4. CASE MutexEnd /\ Subject = m
        BY <1>1, <3>4, HoldMutexEnd
      <3>. QED
        BY <1>4, <3>1, <3>2, <3>3, <3>4 DEF MutexStep
    <2>2. \A p \in Objects \ {m} : Same(p)
      BY <2>1 DEF Only
    <2>3. \A k \in Mutexes \ {m} : HoldOf(k)'
      BY <1>0, <1>1, <1>4, <2>2, HoldStays
    <2>4. \A s \in Sems : s \notin {m} /\ Same(s)
      BY <1>0, <2>2
    <2>5. \A s \in Sems : PermitsOf(s)'
      BY <1>1, <1>4, <2>4, PermitsStay
    <2>. QED
      BY <2>1, <2>3, <2>5 DEF ShareInv, Only
  <1>. QED
    BY <1>2, <1>3, <1>4, NextCases

LEMMA ShareNext ==
  ThreadInv /\ WaitInv /\ ShareInv /\ [Next]_allVars => ShareInv'
  <1>1. ASSUME ThreadInv, WaitInv, ShareInv, Next PROVE ShareInv'
    BY <1>1, InvStep, ShareStep
  <1>2. ASSUME ShareInv, UNCHANGED allVars PROVE ShareInv'
    <2>1. UNCHANGED <<value, owner, hold, permits, taken, todo, error, stat, waitList>>
      BY <1>2 DEF allVars, ipcAndKernel, ipcVars, mutexVars, ghosts, vars, schedVars, threadVars
    <2>2. SharesTyped'
      BY <1>2, <2>1 DEF ShareInv, SharesTyped
    <2>3. \A e : \A t : (Ending(e, t)' <=> Ending(e, t)) /\ (LetGo(e, t)' <=> LetGo(e, t))
      BY <2>1 DEF Ending, LetGo, Last
    <2>4. \A s \in Sems : Having(s)' = Having(s)
      BY <2>1, <2>3 DEF Having
    <2>5. \A s \in Sems : PermitsOf(s)'
      BY <1>2, <2>1, <2>3, <2>4 DEF ShareInv, PermitsOf
    <2>6. \A m \in Mutexes : HoldOf(m)'
      BY <1>2, <2>1, <2>3 DEF ShareInv, HoldOf
    <2>. QED
      BY <2>2, <2>5, <2>6 DEF ShareInv
  <1>. QED
    BY <1>1, <1>2

LEMMA ShareFacts ==
  ThreadInv /\ WaitInv /\ ShareInv => HoldingsRight
  <1>1. ASSUME ThreadInv, WaitInv, ShareInv PROVE HoldingsRight
    <2>1. ASSUME NEW s \in Sems
          PROVE  /\ value[s] + Cardinality(Holding(s) \cup Granted(s)) = permits[s]
                 /\ value[s] > 0 => waitList[s] = <<>>
      BY <1>1, HavingIs DEF ShareInv, PermitsOf
    <2>2. ASSUME NEW m \in Mutexes
          PROVE  /\ \A t \in Threads : taken[t][m] > 0 => owner[m] = t /\ hold[m] = taken[t][m]
                 /\ owner[m] = NoThread <=> value[m] = 1 /\ hold[m] = 0
                 /\ owner[m] # NoThread =>
                      taken[owner[m]][m] > 0
                        \/ (hold[m] = 1 /\ Last(owner[m]) = <<"mutex_end", m>>
                              /\ error[owner[m]] = "ok" /\ stat[owner[m]] = "ready")
      <3>1. HoldOf(m)
        BY <1>1 DEF ShareInv
      <3>2. owner[m] = NoThread <=> value[m] = 1
        BY <1>1, ValuesFacts DEF ThreadInv, OwnersRight
      <3>. QED
        BY <3>1, <3>2 DEF HoldOf, LetGo, Ending, MutexCall
    <2>. QED
      BY <2>1, <2>2 DEF HoldingsRight, PermitsRight, PermitsKept, NoIdlePermit, MutexesHeld
  <1>. QED
    BY <1>1

\* What threads share is neither lost nor doubled, whatever times out, is reset or is released
\* meanwhile: the permits of a semaphore (rt_sem_take, rt_sem_release), the holds of a mutex
\* (rt_mutex_take, rt_mutex_release), the blocks of the message queue and those of the pool
\* (rt_mp_alloc, rt_mp_free).
THEOREM ResourcesCorrect ==
  Spec /\ Unmanaged => []ResourcesRight
  <1>1. MessagesInit /\ Unmanaged => ThreadInv /\ WaitInv /\ ShareInv /\ BlockInv /\ PoolInv
    BY InvInit, WaitInit, ShareInit, BlockInit, PoolInit
  <1>2. ThreadInv /\ WaitInv /\ ShareInv /\ BlockInv /\ PoolInv /\ [Next]_allVars
          => (ThreadInv /\ WaitInv /\ ShareInv /\ BlockInv /\ PoolInv)'
    BY InvStep, WaitNext, ShareNext, BlockNext, PoolNext
  <1>3. ThreadInv /\ WaitInv /\ ShareInv /\ BlockInv /\ PoolInv => ResourcesRight
    BY ShareFacts, KeptFacts, PoolFacts DEF ResourcesRight
  <1>. QED
    BY <1>1, <1>2, <1>3, PTL DEF Spec
-----------------------------------------------------------------------------
\* Wake-ups: threads let go from a list, that are to look again, and what they would find.

Alert(l)      == {t \in Threads : Seeks(todo[t], l) /\ stat[t] = "ready" /\ error[t] = "ok"}
Covered(l, n) == waitList[l] # <<>> => Cardinality(Alert(l)) >= n

\* A step on the lists L lets them be but, perhaps, the caller.
LEMMA AlertStays ==
  ASSUME ThreadInv, ThreadInv', NEW L, StepOn(L), NEW l \in Lists
  PROVE  /\ \A t \in Alert(l) : t # current \/ l \notin L => t \in Alert(l)'
         /\ l \notin L => Elems(waitList'[l]) \subseteq Elems(waitList[l])
  <1>1. ASSUME NEW t \in Alert(l), t # current \/ l \notin L PROVE t \in Alert(l)'
    <2>1. t \in Threads /\ Seeks(todo[t], l) /\ stat[t] = "ready" /\ error[t] = "ok"
      BY DEF Alert
    <2>2. ~Elsewhere(t)
      BY <2>1 DEF Elsewhere, Reaches
    <2>3. ~Resumed(t, L)
      BY <2>1 DEF Resumed, Waiters
    <2>4. ~Calling(t, L)
      BY <1>1, <2>1 DEF Calling, Reaches
    <2>5. Steady(t)
      BY <2>1, <2>2, <2>3, <2>4 DEF StepOn
    <2>. QED
      BY <2>1, <2>5, ReachFacts DEF Steady, Alert
  <1>2. ASSUME l \notin L, NEW t \in Elems(waitList'[l]) PROVE t \in Elems(waitList[l])
    <2>1. /\ stat'[t] = "suspend" /\ WaitingIn(todo'[t], l)
          /\ waitList' \in [Lists -> Seq(Threads)]
      BY DEF ThreadInv, ListInv, ListsRight, KernelTypes
    <2>2. waitList'[l] \in Seq(Threads)
      BY <2>1
    <2>3. t \in Threads
      BY <2>2, ListDomain
    <2>4. ~Elsewhere(t) /\ ~Calling(t, L)
      BY <1>2, <2>1 DEF Elsewhere, Calling, Reaches, Seeks
    <2>5. ~Resumed(t, L)
      BY <2>1 DEF Resumed
    <2>6. Steady(t)
      BY <2>3, <2>4, <2>5 DEF StepOn
    <2>. QED
      BY <2>6 DEF Steady
  <1>. QED
    BY <1>1, <1>2

LEMMA AlertFacts ==
  \A l : IsFiniteSet(Alert(l)) /\ IsFiniteSet(Alert(l)')
  <1>1. IsFiniteSet(Threads)
    BY KernelAssumption
  <1>2. \A l : Alert(l) \subseteq Threads /\ Alert(l)' \subseteq Threads
    BY DEF Alert
  <1>. QED
    BY <1>1, <1>2, FS_Subset

\* Sizes of the set of those that look, before and after a step.
LEMMA SizeFacts ==
  ASSUME NEW A, NEW B, IsFiniteSet(A), IsFiniteSet(B), NEW n \in Int, Cardinality(A) >= n,
         NEW c, A \ {c} \subseteq B
  PROVE  /\ Cardinality(B) >= n - 1
         /\ c \notin A \/ c \in B => Cardinality(B) >= n
         /\ \A h \in B \ A : c \notin A \/ c \in B => Cardinality(B) >= n + 1
  <1>1. Cardinality(A) \in Nat /\ Cardinality(B) \in Nat
    BY FS_CardinalityType
  <1>2. /\ IsFiniteSet(A \ {c})
        /\ Cardinality(A \ {c}) = Cardinality(A) - 1 \/ A \ {c} = A
    <2>1. CASE c \in A
      BY <2>1, HavingSize, FS_Subset
    <2>2. CASE c \notin A
      <3>1. A \ {c} = A
        BY <2>2
      <3>. QED
        BY <3>1
    <2>. QED
      BY <2>1, <2>2
  <1>3. Cardinality(A \ {c}) <= Cardinality(B) /\ Cardinality(A \ {c}) \in Nat
    BY <1>2, FS_Subset, FS_CardinalityType
  <1>4. ASSUME c \notin A \/ c \in B PROVE A \subseteq B /\ Cardinality(A) <= Cardinality(B)
    <2>1. A \subseteq B
      BY <1>4
    <2>. QED
      BY <2>1, FS_Subset
  <1>5. ASSUME NEW h \in B \ A, c \notin A \/ c \in B PROVE Cardinality(B) >= n + 1
    <2>1. A \cup {h} \subseteq B
      BY <1>4, <1>5
    <2>2. Cardinality(A \cup {h}) <= Cardinality(B) /\ Cardinality(A \cup {h}) = Cardinality(A) + 1
      BY <1>5, <2>1, HavingSize, FS_Subset
    <2>. QED
      BY <1>1, <2>2
  <1>. QED
    BY <1>1, <1>2, <1>3, <1>4, <1>5

\* A step that wakes nobody, after which there is no more to be found, or one less if the caller
\* no longer looks.
LEMMA CoverStep ==
  ASSUME ThreadInv, ThreadInv', NEW L, StepOn(L), NEW l \in Lists,
         NEW n \in Int, NEW m \in Int, Covered(l, n), waitList'[l] # <<>> => waitList[l] # <<>>,
         m <= n - 1 \/ (m <= n /\ (current \notin Alert(l) \/ current \in Alert(l)' \/ l \notin L))
  PROVE  waitList'[l] # <<>> => Cardinality(Alert(l)') >= m
  <1>. SUFFICES ASSUME waitList'[l] # <<>> PROVE Cardinality(Alert(l)') >= m
    OBVIOUS
  <1>1. PICK A : A = Alert(l)
    OBVIOUS
  <1>2. PICK B : B = Alert(l)'
    OBVIOUS
  <1>3. IsFiniteSet(A) /\ IsFiniteSet(B) /\ Cardinality(A) >= n
    BY <1>1, <1>2, AlertFacts DEF Covered
  <1>4. PICK c : c = current
    OBVIOUS
  <1>5. A \ {c} \subseteq B /\ (l \notin L => A \subseteq B)
    BY <1>1, <1>2, <1>4, AlertStays
  <1>6. /\ Cardinality(B) >= n - 1
        /\ c \notin A \/ c \in B => Cardinality(B) >= n
    BY <1>3, <1>5, SizeFacts
  <1>7. Cardinality(B) \in Nat
    BY <1>3, FS_CardinalityType
  <1>8. m <= n - 1 \/ (m <= n /\ (c \notin A \/ c \in B))
    BY <1>1, <1>2, <1>4, <1>5
  <1>. QED
    BY <1>2, <1>6, <1>7, <1>8

\* Nobody waits, or there is nothing to be found.
LEMMA CoverNone ==
  ASSUME NEW l, NEW m \in Int, waitList'[l] = <<>> \/ m <= 0
  PROVE  waitList'[l] # <<>> => Cardinality(Alert(l)') >= m
  <1>1. PICK B : B = Alert(l)'
    OBVIOUS
  <1>2. Cardinality(B) \in Nat
    BY <1>1, AlertFacts, FS_CardinalityType
  <1>3. m <= 0 => Cardinality(B) >= m
    BY <1>2
  <1>. QED
    BY <1>1, <1>3

\* Something is put where threads look for it, and one that waits is resumed.
LEMMA CoverGives ==
  ASSUME ThreadInv, ThreadInv', WaitInv, NEW l \in Lists, ResumeOne(l), UNCHANGED error,
         NEW n \in Int, Covered(l, n),
         \/ \E b : HandlerGoes(b)
         \/ stat[current] = "ready" /\ current \notin Alert(l) /\ \E b : CallerGoes(b)
  PROVE  /\ waitList'[l] # <<>> => Cardinality(Alert(l)') >= n + 1
         /\ \A k \in Lists : waitList'[k] # <<>> => waitList[k] # <<>>
  <1>1. CASE waitList[l] = <<>>
    BY <1>1 DEF ResumeOne, ResumeNobody
  <1>2. CASE waitList[l] # <<>>
    <2>1. PICK h : h = Head(waitList[l])
      OBVIOUS
    <2>2. ResumeFirst(l, ready, priority)
      BY <1>2 DEF ResumeOne
    <2>3. /\ Departs({h}, {l}) /\ h \in Elems(waitList[l]) /\ h \in Threads
          /\ WaitingIn(todo[h], l) /\ error[h] = "ok" /\ stat[h] = "suspend"
      BY <1>2, <2>1, <2>2, DepartFirst
    <2>4. \A t \in Threads : stat'[t] = IF t = h THEN "ready" ELSE stat[t]
      BY <2>3 DEF Departs, Readied
    <2>5. todo'[h] = todo[h] /\ \A t \in Alert(l) : todo'[t] = todo[t]
      <3>1. CASE UNCHANGED todo
        BY <3>1
      <3>2. CASE stat[current] = "ready" /\ current \notin Alert(l) /\ \E b : CallerGoes(b)
        <4>1. PICK c : todo' = [todo EXCEPT ![current] = c]
          BY <3>2 DEF CallerGoes
        <4>2. h # current /\ todo = [t \in Threads |-> todo[t]]
          BY <2>3, <3>2 DEF ThreadInv, ListInv, CallsRight
        <4>3. \A t \in Threads : t # current => todo'[t] = todo[t]
          BY <4>1, <4>2
        <4>. QED
          BY <2>3, <3>2, <4>2, <4>3 DEF Alert
      <3>. QED
        BY <3>1, <3>2 DEF HandlerGoes
    <2>6. Alert(l) \subseteq Alert(l)'
      BY <2>3, <2>4, <2>5 DEF Alert
    <2>7. h \in Alert(l)' /\ h \notin Alert(l)
      BY <2>3, <2>4, <2>5 DEF Alert, Seeks
    <2>8. PICK A : A = Alert(l)
      OBVIOUS
    <2>9. PICK B : B = Alert(l)'
      OBVIOUS
    <2>10. IsFiniteSet(A) /\ IsFiniteSet(B) /\ Cardinality(A) >= n
      BY <1>2, <2>8, <2>9, AlertFacts DEF Covered
    <2>11. A \ {h} \subseteq B /\ h \in B \ A
      BY <2>6, <2>7, <2>8, <2>9
    <2>12. Cardinality(B) >= n + 1
      BY <2>10, <2>11, SizeFacts
    <2>13. waitList' = [waitList EXCEPT ![l] = Tail(@)] /\ waitList \in [Lists -> Seq(Threads)]
      BY <2>2 DEF ResumeFirst, ThreadInv, KernelTypes
    <2>14. \A k \in Lists : k # l => waitList'[k] = waitList[k]
      BY <2>13
    <2>. QED
      BY <1>2, <2>9, <2>12, <2>14
  <1>. QED
    BY <1>1, <1>2
-----------------------------------------------------------------------------
\* The mailbox.

MailCover == Covered(Receivers, entry) /\ Covered(Senders, BoxSize - entry)

\* The caller is in no call, or in one that waits in list k; it does something for those of
\* another list l, and takes from those of k; or it waits, or fails.
LEMMA CoverWorks ==
  ASSUME ThreadInv, ThreadInv', WaitInv, NEW l \in Lists, NEW k \in Lists \ {l},
         ResumeOne(l), UNCHANGED error,
         \/ \E b : HandlerGoes(b)
         \/ stat[current] = "ready" /\ Reaches(todo[current], {k}) /\ \E b : CallerGoes(b),
         NEW n \in Int, Covered(l, n), NEW m \in Int, Covered(k, m)
  PROVE  /\ waitList'[l] # <<>> => Cardinality(Alert(l)') >= n + 1
         /\ waitList'[k] # <<>> => Cardinality(Alert(k)') >= m - 1
  <1>1. stat[current] = "ready" /\ Reaches(todo[current], {k}) => current \notin Alert(l)
    BY DEF Reaches, Alert
  <1>2. /\ waitList'[l] # <<>> => Cardinality(Alert(l)') >= n + 1
        /\ waitList'[k] # <<>> => waitList[k] # <<>>
    BY <1>1, CoverGives
  <1>3. PICK R : Departs(R, {l})
    BY DepartOne
  <1>4. Departs(R, {l, k})
    <2>1. {l} \subseteq {l, k}
      OBVIOUS
    <2>. QED
      BY <1>3, <2>1, ReachFacts DEF Departs
  <1>5. StepOn({l, k})
    <2>1. {k} \subseteq {l, k}
      OBVIOUS
    <2>. QED
      BY <1>4, <2>1, ReachFacts, StepCaller, StepHandler
  <1>6. PICK p \in Int : p = m - 1
    OBVIOUS
  <1>7. p <= m - 1
    BY <1>6
  <1>8. waitList'[k] # <<>> => Cardinality(Alert(k)') >= p
    BY <1>2, <1>5, <1>7, CoverStep
  <1>. QED
    BY <1>2, <1>6, <1>8

\* A step on list k takes nothing from those of l.
LEMMA CoverElse ==
  ASSUME ThreadInv, ThreadInv', NEW L, StepOn(L), NEW l \in Lists \ L, NEW n \in Int, Covered(l, n)
  PROVE  waitList'[l] # <<>> => Cardinality(Alert(l)') >= n
  <1>1. /\ waitList[l] \in Seq(Threads) /\ waitList'[l] \in Seq(Threads)
        /\ Elems(waitList'[l]) \subseteq Elems(waitList[l])
    <2>1. waitList \in [Lists -> Seq(Threads)] /\ waitList' \in [Lists -> Seq(Threads)]
      BY DEF ThreadInv, KernelTypes
    <2>. QED
      BY <2>1, AlertStays
  <1>2. waitList'[l] # <<>> => waitList[l] # <<>>
    <2>1. /\ waitList[l] = <<>> <=> Elems(waitList[l]) = {}
          /\ waitList'[l] = <<>> <=> Elems(waitList'[l]) = {}
      BY <1>1, ListDomain
    <2>. QED
      BY <1>1, <2>1
  <1>3. n <= n
    OBVIOUS
  <1>. QED
    BY <1>2, <1>3, CoverStep

\* A call that waited in list l fails.
LEMMA CoverFails ==
  ASSUME ThreadInv, ThreadInv', WaitInv, NEW s \in EndNames, At(s), NEW l \in Lists,
         Reaches(todo[current], {l}), NEW k, NEW refused, Fails(refused, k),
         NEW n \in Int, Covered(l, n), refused => n <= 0
  PROVE  /\ StepOn({l})
         /\ waitList'[l] # <<>> => Cardinality(Alert(l)') >= n
  <1>1. /\ error[current] # "ok" \/ refused
        /\ UNCHANGED <<stat, waitList, error>> /\ Then(<<>>)
    BY DEF Fails
  <1>2. error' \in [Threads -> Results]
    BY <1>1 DEF WaitInv
  <1>3. StepOn({l})
    BY <1>1, <1>2, StepEnds
  <1>4. CASE refused
    BY <1>3, <1>4, CoverNone
  <1>5. CASE error[current] # "ok"
    <2>1. current \notin Alert(l) /\ (waitList'[l] # <<>> => waitList[l] # <<>>) /\ n <= n
      BY <1>1, <1>5 DEF Alert
    <2>. QED
      BY <1>3, <2>1, CoverStep
  <1>. QED
    BY <1>1, <1>4, <1>5

LEMMA MailCall ==
  ASSUME ThreadInv, ThreadInv', WaitInv, BoxInv, MailCover, NEW x, NEW n \in Int,
         \/ x \in Msgs /\ Send(x, n)
         \/ SendISR(x) \/ Receive(n) \/ SendAgain \/ ReceiveAgain
  PROVE  MailCover'
  <1>1. PICK e : e = entry
    OBVIOUS
  <1>2. PICK f : f = BoxSize - e
    OBVIOUS
  <1>3. /\ e \in Int /\ e >= 0 /\ f \in Int /\ f >= 0 /\ BoxSize \in Int /\ e + f = BoxSize
        /\ f = 0 <=> entry = BoxSize
    BY <1>1, <1>2, IpcAssumption DEF BoxInv
  <1>4. Covered(Receivers, e) /\ Covered(Senders, f)
    BY <1>1, <1>2 DEF MailCover
  <1>5. /\ Receivers \in Lists /\ Senders \in Lists /\ Receivers # Senders
        /\ Receivers \in Lists \ {Senders} /\ Senders \in Lists \ {Receivers}
        /\ "send_again" \in EndNames /\ "recv_again" \in EndNames
    BY EndsFacts DEF Receivers, Senders, EndNames
  <1>6. ASSUME entry' = e + 1,
               /\ waitList'[Receivers] # <<>> => Cardinality(Alert(Receivers)') >= e + 1
               /\ waitList'[Senders] # <<>> => Cardinality(Alert(Senders)') >= f - 1
        PROVE  MailCover'
    <2>1. BoxSize - (e + 1) = f - 1
      BY <1>3
    <2>. QED
      BY <1>6, <2>1 DEF MailCover, Covered
  <1>7. ASSUME entry' = e - 1,
               /\ waitList'[Receivers] # <<>> => Cardinality(Alert(Receivers)') >= e - 1
               /\ waitList'[Senders] # <<>> => Cardinality(Alert(Senders)') >= f + 1
        PROVE  MailCover'
    <2>1. BoxSize - (e - 1) = f + 1
      BY <1>3
    <2>. QED
      BY <1>7, <2>1 DEF MailCover, Covered
  <1>8. ASSUME entry' = e,
               /\ waitList'[Receivers] # <<>> => Cardinality(Alert(Receivers)') >= e
               /\ waitList'[Senders] # <<>> => Cardinality(Alert(Senders)') >= f
        PROVE  MailCover'
    BY <1>2, <1>8 DEF MailCover, Covered
  <1>9. ASSUME ResumeOne(Receivers), UNCHANGED error, entry' = e + 1,
               \/ \E b : HandlerGoes(b)
               \/ stat[current] = "ready" /\ Reaches(todo[current], {Senders})
                    /\ \E b : CallerGoes(b)
        PROVE  MailCover'
    BY <1>3, <1>4, <1>5, <1>6, <1>9, CoverWorks
  <1>10. ASSUME ResumeOne(Senders), UNCHANGED error, entry' = e - 1,
                stat[current] = "ready", Reaches(todo[current], {Receivers}), \E b : CallerGoes(b)
         PROVE  MailCover'
    BY <1>3, <1>4, <1>5, <1>7, <1>10, CoverWorks
  <1>11. ASSUME NEW k \in Int, NEW next, IsEnd(next), EndIn(next, Senders), f = 0, entry' = e,
                SuspendOn(Senders, k, ready, next), stat[current] = "ready",
                Reaches(todo[current], {Senders})
         PROVE  MailCover'
    <2>1. Senders \in {Senders}
      OBVIOUS
    <2>2. StepOn({Senders})
      BY <1>5, <1>11, <2>1, StepBegins
    <2>3. waitList'[Receivers] # <<>> => Cardinality(Alert(Receivers)') >= e
      BY <1>3, <1>4, <1>5, <2>2, CoverElse
    <2>4. f <= 0
      BY <1>11
    <2>5. waitList'[Senders] # <<>> => Cardinality(Alert(Senders)') >= f
      BY <1>3, <2>4, CoverNone
    <2>. QED
      BY <1>8, <1>11, <2>3, <2>5
  <1>12. ASSUME NEW k \in Int, NEW next, IsEnd(next), EndIn(next, Receivers), e = 0, entry' = e,
                SuspendOn(Receivers, k, ready, next), stat[current] = "ready",
                Reaches(todo[current], {Receivers})
         PROVE  MailCover'
    <2>1. Receivers \in {Receivers}
      OBVIOUS
    <2>2. StepOn({Receivers})
      BY <1>5, <1>12, <2>1, StepBegins
    <2>3. waitList'[Senders] # <<>> => Cardinality(Alert(Senders)') >= f
      BY <1>3, <1>4, <1>5, <2>2, CoverElse
    <2>4. e <= 0
      BY <1>12
    <2>5. waitList'[Receivers] # <<>> => Cardinality(Alert(Receivers)') >= e
      BY <1>3, <2>4, CoverNone
    <2>. QED
      BY <1>8, <1>12, <2>3, <2>5
  <1>13. CASE x \in Msgs /\ Send(x, n)
    <2>. DEFINE next == <<"send_again", x, n>>
    <2>1. IsEnd(next) /\ EndIn(next, Senders)
      BY <1>13, EndsFacts
    <2>2. /\ todo[current] = <<>>
          /\ \/ /\ UNCHANGED error /\ ResumeOne(Receivers) /\ \E b : CallerGoes(b)
                /\ entry' = entry + 1
             \/ entry = BoxSize /\ SuspendOn(Senders, n, ready, next) /\ entry' = entry
      BY <1>13 DEF Send, Calls, Put, boxVars
    <2>. HIDE DEF next
    <2>3. stat[current] = "ready" /\ Reaches(todo[current], {Senders})
      BY <2>2, CallReaches
    <2>. QED
      BY <1>1, <1>3, <1>9, <1>11, <2>1, <2>2, <2>3
  <1>14. CASE Receive(n)
    <2>. DEFINE next == <<"recv_again", n>>
    <2>1. IsEnd(next) /\ EndIn(next, Receivers)
      BY EndsFacts
    <2>2. /\ todo[current] = <<>>
          /\ \/ /\ UNCHANGED error /\ ResumeOne(Senders) /\ \E b : CallerGoes(b)
                /\ entry' = entry - 1
             \/ entry = 0 /\ SuspendOn(Receivers, n, ready, next) /\ entry' = entry
      BY <1>14 DEF Receive, Calls, Get, boxVars
    <2>. HIDE DEF next
    <2>3. stat[current] = "ready" /\ Reaches(todo[current], {Receivers})
      BY <2>2, CallReaches
    <2>. QED
      BY <1>1, <1>10, <1>12, <2>1, <2>2, <2>3
  <1>15. CASE SendISR(x)
    BY <1>1, <1>9, <1>15 DEF SendISR, Put
  <1>16. CASE SendAgain
    <2>. DEFINE y == Head(todo[current])[2]
                k == Head(todo[current])[3]
                next == <<"send_again", y, WaitLeft(k)>>
    <2>1. At("send_again")
      BY <1>16 DEF SendAgain
    <2>2. \/ Fails(entry = BoxSize, k) /\ entry' = entry
          \/ /\ ResumeOne(Receivers) /\ UNCHANGED error /\ \E b : CallerGoes(b)
             /\ entry' = entry + 1
          \/ /\ entry = BoxSize /\ SuspendOn(Senders, WaitLeft(k), ready, next)
             /\ entry' = entry
      BY <1>16 DEF SendAgain, Fails, Works, WaitsAgain, Put, boxVars
    <2>3. y \in Msgs /\ k \in Int
      BY <2>1, AgainFacts
    <2>. HIDE DEF y, k
    <2>4. WaitLeft(k) \in Int
      BY <2>3, LeftFacts
    <2>5. IsEnd(next) /\ EndIn(next, Senders)
      BY <2>3, <2>4, EndsFacts
    <2>. HIDE DEF next
    <2>6. Reaches(todo[current], {Senders}) /\ stat[current] = "ready"
      BY <1>5, <2>1, AtReaches
    <2>7. CASE Fails(entry = BoxSize, k) /\ entry' = entry
      <3>1. PICK b : b = (entry = BoxSize)
        OBVIOUS
      <3>2. Fails(b, k) /\ (b => f <= 0)
        BY <1>3, <2>7, <3>1 DEF Fails
      <3>3. StepOn({Senders}) /\ (waitList'[Senders] # <<>> => Cardinality(Alert(Senders)') >= f)
        BY <1>3, <1>4, <1>5, <2>1, <2>6, <3>2, CoverFails
      <3>4. waitList'[Receivers] # <<>> => Cardinality(Alert(Receivers)') >= e
        BY <1>3, <1>4, <1>5, <3>3, CoverElse
      <3>. QED
        BY <1>1, <1>8, <2>7, <3>3, <3>4
    <2>. QED
      BY <1>1, <1>3, <1>9, <1>11, <2>2, <2>4, <2>5, <2>6, <2>7
  <1>17. CASE ReceiveAgain
    <2>. DEFINE k == Head(todo[current])[2]
                next == <<"recv_again", WaitLeft(k)>>
    <2>1. At("recv_again")
      BY <1>17 DEF ReceiveAgain
    <2>2. \/ Fails(entry = 0, k) /\ entry' = entry
          \/ /\ ResumeOne(Senders) /\ UNCHANGED error /\ \E b : CallerGoes(b)
             /\ entry' = entry - 1
          \/ /\ entry = 0 /\ SuspendOn(Receivers, WaitLeft(k), ready, next)
             /\ entry' = entry
      BY <1>17 DEF ReceiveAgain, Fails, Works, WaitsAgain, Get, boxVars
    <2>3. k \in Int
      BY <2>1, AgainFacts
    <2>. HIDE DEF k
    <2>4. WaitLeft(k) \in Int
      BY <2>3, LeftFacts
    <2>5. IsEnd(next) /\ EndIn(next, Receivers)
      BY <2>4, EndsFacts
    <2>. HIDE DEF next
    <2>6. Reaches(todo[current], {Receivers}) /\ stat[current] = "ready"
      BY <1>5, <2>1, AtReaches
    <2>7. CASE Fails(entry = 0, k) /\ entry' = entry
      <3>1. PICK b : b = (entry = 0)
        OBVIOUS
      <3>2. Fails(b, k) /\ (b => e <= 0)
        BY <1>1, <1>3, <2>7, <3>1 DEF Fails
      <3>3. /\ StepOn({Receivers})
            /\ waitList'[Receivers] # <<>> => Cardinality(Alert(Receivers)') >= e
        BY <1>3, <1>4, <1>5, <2>1, <2>6, <3>2, CoverFails
      <3>4. waitList'[Senders] # <<>> => Cardinality(Alert(Senders)') >= f
        BY <1>3, <1>4, <1>5, <3>3, CoverElse
      <3>. QED
        BY <1>1, <1>8, <2>7, <3>3, <3>4
    <2>. QED
      BY <1>1, <1>10, <1>12, <2>2, <2>4, <2>5, <2>6, <2>7
  <1>. QED
    BY <1>13, <1>14, <1>15, <1>16, <1>17

LEMMA MailReset ==
  ASSUME ThreadInv, WaitInv, BoxReset
  PROVE  MailCover'
  <1>1. waitList'[Receivers] = <<>> /\ waitList'[Senders] = <<>>
    <2>1. /\ waitList' = [l \in Lists |-> IF l \in Elems(<<Receivers, Senders>>) THEN <<>>
                                          ELSE waitList[l]]
      BY DEF BoxReset, ResumeAll
    <2>2. Elems(<<Receivers, Senders>>) = {Receivers, Senders}
      BY DEF Elems
    <2>. QED
      BY <2>1, <2>2, EndsFacts
  <1>. QED
    BY <1>1 DEF MailCover, Covered
-----------------------------------------------------------------------------
\* The message queue.

QueueCover == Covered(Queue, Len(queue))

LEMMA QueueCall ==
  ASSUME ThreadInv, ThreadInv', WaitInv, BlockInv, BlockInv', QueueCover,
         NEW how \in Ways, NEW x, NEW n \in Int,
         \/ MqSend(how, x) \/ MqLink(how) \/ MqSendISR(how, x)
         \/ MqReceive(n) \/ MqReceiveAgain \/ MqCopied
  PROVE  QueueCover'
  <1>1. PICK e : e = Len(queue)
    OBVIOUS
  <1>2. PICK f : f = Len(queue')
    OBVIOUS
  <1>3. /\ e \in Int /\ f \in Int /\ Covered(Queue, e) /\ queue \in Seq(Blocks)
        /\ queue = <<>> <=> e = 0
    BY <1>1, <1>2 DEF BlockInv, QueueCover
  <1>4. /\ Queue \in Lists /\ "mq_again" \in EndNames /\ how \in WorkNames
        /\ Queue \in {Queue} /\ StepOn({Queue})
    BY EndsFacts, StepQueue DEF EndNames, WorkNames, Ways
  <1>5. ASSUME waitList'[Queue] # <<>> => Cardinality(Alert(Queue)') >= f
        PROVE  QueueCover'
    BY <1>2, <1>5 DEF QueueCover, Covered
  <1>6. ASSUME UNCHANGED waitList, f = e - 1 \/ (f = e /\ current \notin Alert(Queue))
        PROVE  QueueCover'
    <2>1. /\ waitList'[Queue] # <<>> => waitList[Queue] # <<>>
          /\ f <= e - 1 \/ (f <= e /\ current \notin Alert(Queue))
      BY <1>3, <1>6
    <2>. QED
      BY <1>3, <1>4, <1>5, <2>1, CoverStep
  <1>7. ASSUME ResumeOne(Queue), UNCHANGED error, f = e + 1,
               \/ \E b : HandlerGoes(b)
               \/ stat[current] = "ready" /\ current \notin Alert(Queue) /\ \E b : CallerGoes(b)
        PROVE  QueueCover'
    BY <1>3, <1>4, <1>5, <1>7, CoverGives
  <1>8. ASSUME queue' = queue, e = 0 PROVE QueueCover'
    <2>1. f <= 0
      BY <1>1, <1>2, <1>8
    <2>. QED
      BY <1>3, <1>5, <2>1, CoverNone
  <1>9. todo[current] = <<>> => current \notin Alert(Queue)
    BY <1>4, CallReaches DEF Reaches, Alert
  <1>10. \A b : /\ queue' = Append(queue, b) \/ queue' = <<b>> \o queue => f = e + 1
                /\ queue # <<>> /\ queue' = Tail(queue) => f = e - 1
    <2>1. ASSUME NEW b, queue' = Append(queue, b) \/ queue' = <<b>> \o queue PROVE f = e + 1
      <3>1. b \in Blocks
        <4>1. CASE queue' = Append(queue, b)
          <5>1. queue'[Len(queue')] = b /\ Len(queue') \in 1 .. Len(queue')
            BY <1>3, <4>1
          <5>. QED
            BY <5>1 DEF BlockInv
        <4>2. CASE queue' = <<b>> \o queue
          <5>1. queue'[1] = b /\ 1 \in 1 .. Len(queue')
            BY <1>3, <4>2
          <5>. QED
            BY <5>1 DEF BlockInv
        <4>. QED
          BY <2>1, <4>1, <4>2
      <3>2. <<b>> \in Seq(Blocks) /\ Len(<<b>>) = 1
        BY <3>1
      <3>3. Len(<<b>> \o queue) = 1 + Len(queue) /\ Len(Append(queue, b)) = Len(queue) + 1
        BY <1>3, <3>1, <3>2
      <3>. QED
        BY <1>1, <1>2, <1>3, <2>1, <3>3
    <2>2. queue # <<>> /\ queue' = Tail(queue) => f = e - 1
      BY <1>1, <1>2, <1>3
    <2>. QED
      BY <2>1, <2>2
  <1>11. CASE MqSend(how, x)
    <2>1. UNCHANGED waitList /\ queue' = queue /\ todo[current] = <<>>
      BY <1>11 DEF MqSend, Calls, schedVars
    <2>. QED
      BY <1>1, <1>2, <1>6, <1>9, <2>1
  <1>12. CASE MqLink(how)
    <2>1. /\ At(how) /\ ResumeOne(Queue) /\ UNCHANGED error /\ \E b : CallerGoes(b)
          /\ \E b : queue' = Append(queue, b) \/ queue' = <<b>> \o queue
      BY <1>12 DEF MqLink, Linked
    <2>2. stat[current] = "ready" /\ Reaches(todo[current], {})
      BY <1>4, <2>1, AtReaches DEF Ways
    <2>3. current \notin Alert(Queue)
      BY <1>4, <2>2 DEF Reaches, Alert
    <2>. QED
      BY <1>7, <1>10, <2>1, <2>2, <2>3
  <1>13. CASE MqSendISR(how, x)
    <2>1. /\ ResumeOne(Queue) /\ UNCHANGED error /\ \E b : HandlerGoes(b)
          /\ \E b : queue' = Append(queue, b) \/ queue' = <<b>> \o queue
      BY <1>13 DEF MqSendISR, Linked
    <2>. QED
      BY <1>7, <1>10, <2>1
  <1>14. CASE MqReceive(n)
    <2>1. \/ queue # <<>> /\ queue' = Tail(queue) /\ UNCHANGED waitList
          \/ queue = <<>> /\ queue' = queue
      BY <1>14 DEF MqReceive, TakeFirst
    <2>. QED
      BY <1>3, <1>6, <1>8, <1>10, <2>1
  <1>15. CASE MqReceiveAgain
    <2>. DEFINE k == Head(todo[current])[2]
    <2>1. At("mq_again")
      BY <1>15 DEF MqReceiveAgain
    <2>2. \/ Fails(queue = <<>>, k) /\ queue' = queue
          \/ queue # <<>> /\ queue' = Tail(queue) /\ UNCHANGED waitList
          \/ queue = <<>> /\ queue' = queue
      BY <1>15 DEF MqReceiveAgain, TakeFirst
    <2>. HIDE DEF k
    <2>3. CASE Fails(queue = <<>>, k) /\ queue' = queue
      <3>1. CASE queue = <<>>
        BY <1>3, <1>8, <2>3, <3>1
      <3>2. CASE queue # <<>>
        <4>1. UNCHANGED waitList /\ current \notin Alert(Queue)
          BY <2>3, <3>2 DEF Fails, Alert
        <4>. QED
          BY <1>1, <1>2, <1>6, <2>3, <4>1
      <3>. QED
        BY <3>1, <3>2
    <2>. QED
      BY <1>3, <1>6, <1>8, <1>10, <2>2, <2>3
  <1>16. CASE MqCopied
    <2>1. At("mq_copy") /\ UNCHANGED waitList /\ queue' = queue /\ "mq_copy" \in WorkNames
      BY <1>16 DEF MqCopied, schedVars, WorkNames
    <2>2. Reaches(todo[current], {})
      BY <2>1, AtReaches
    <2>3. current \notin Alert(Queue)
      BY <1>4, <2>2 DEF Reaches, Alert
    <2>. QED
      BY <1>1, <1>2, <1>6, <2>1, <2>3
  <1>. QED
    BY <1>11, <1>12, <1>13, <1>14, <1>15, <1>16

LEMMA QueueReset ==
  ASSUME MqReset
  PROVE  QueueCover'
  <1>1. waitList' = [l \in Lists |-> IF l \in Elems(<<Queue>>) THEN <<>> ELSE waitList[l]]
    BY DEF MqReset, ResumeAll
  <1>2. Elems(<<Queue>>) = {Queue}
    BY DEF Elems
  <1>3. waitList'[Queue] = <<>>
    BY <1>1, <1>2, EndsFacts
  <1>. QED
    BY <1>3 DEF QueueCover, Covered
-----------------------------------------------------------------------------
\* The event: who waits for bits is not content with those that are set, and who was let go got
\* some.

GotSome(t) == /\ wanted[t].bits \subseteq Last(t)[2] /\ wanted[t].bits # {}
              /\ wanted[t].all => wanted[t].bits = Last(t)[2]
EventCover ==
  /\ \A t \in Elems(waitList[Event]) :
       ~Met(t, set) /\ wanted[t].bits = Last(t)[2] /\ wanted[t].bits # {}
  /\ \A t \in Alert(Event) : GotSome(t)

\* Threads that wait or look after a step on other lists did so before.
LEMMA AlertSteady ==
  ASSUME ThreadInv, ThreadInv', NEW L, StepOn(L), NEW l \in Lists \ L, NEW t \in Threads,
         t \in Alert(l)' \/ t \in Elems(waitList'[l])
  PROVE  Steady(t)
  <1>1. CASE t \in Elems(waitList'[l])
    <2>1. stat'[t] = "suspend" /\ WaitingIn(todo'[t], l)
      BY <1>1 DEF ThreadInv, ListInv, ListsRight
    <2>2. ~Elsewhere(t) /\ ~Calling(t, L)
      BY <2>1 DEF Elsewhere, Calling, Reaches, Seeks
    <2>3. ~Resumed(t, L)
      BY <2>1 DEF Resumed
    <2>. QED
      BY <2>2, <2>3 DEF StepOn
  <1>2. CASE t \in Alert(l)'
    <2>1. Seeks(todo'[t], l) /\ stat'[t] = "ready" /\ error'[t] = "ok"
      BY <1>2 DEF Alert
    <2>2. ~Elsewhere(t) /\ ~Calling(t, L)
      BY <2>1 DEF Elsewhere, Calling, Reaches
    <2>3. ~Resumed(t, L)
      BY <2>1, ReachFacts DEF Resumed, Reaches
    <2>. QED
      BY <2>2, <2>3 DEF StepOn
  <1>. QED
    BY <1>1, <1>2

LEMMA EventElse ==
  ASSUME ThreadInv, ThreadInv', EventCover, NEW L, StepOn(L), Event \notin L,
         UNCHANGED wanted, set' \subseteq set
  PROVE  EventCover'
  <1>1. Event \in Lists \ L /\ Elems(waitList'[Event]) \subseteq Threads
    <2>1. Event \in Lists /\ waitList' \in [Lists -> Seq(Threads)]
      BY EndsFacts DEF ThreadInv, KernelTypes
    <2>2. waitList'[Event] \in Seq(Threads)
      BY <2>1
    <2>. QED
      BY <2>1, <2>2, ListDomain
  <1>2. \A t \in Threads : SameLast(todo[t], todo'[t]) /\ todo[t] # <<>> => Last(t)' = Last(t)
    BY DEF SameLast, Last
  <1>3. ASSUME NEW t \in Elems(waitList'[Event])
        PROVE  ~Met(t, set)' /\ wanted'[t].bits = Last(t)'[2] /\ wanted'[t].bits # {}
    <2>1. t \in Threads /\ Steady(t)
      BY <1>1, AlertSteady
    <2>2. t \in Elems(waitList[Event])
      BY <1>1, <2>1 DEF Steady
    <2>3. todo[t] # <<>>
      BY <1>1, <2>2 DEF ThreadInv, ListInv, ListsRight, WaitingIn, Waiting
    <2>4. Last(t)' = Last(t)
      BY <1>2, <2>1, <2>3 DEF Steady
    <2>5. ~Met(t, set)
      BY <2>2 DEF EventCover
    <2>6. ~Met(t, set)'
      BY <2>5 DEF Met
    <2>. QED
      BY <2>2, <2>4, <2>6 DEF EventCover
  <1>4. ASSUME NEW t \in Alert(Event)' PROVE GotSome(t)'
    <2>1. t \in Threads
      BY DEF Alert
    <2>2. Steady(t)
      BY <1>1, <2>1, AlertSteady
    <2>3. t \in Alert(Event)
      BY <2>1, <2>2, ReachFacts DEF Steady, Alert
    <2>4. todo[t] # <<>>
      BY <2>3 DEF Alert, Seeks, WaitingIn, Waiting, Working
    <2>5. Last(t)' = Last(t)
      BY <1>2, <2>1, <2>2, <2>4 DEF Steady
    <2>. QED
      BY <2>3, <2>5 DEF EventCover, GotSome
  <1>. QED
    BY <1>3, <1>4 DEF EventCover

\* The threads A that a send lets go, and what they and the others get.
LEMMA SetBitsContent ==
  ASSUME ThreadInv, NEW s \in SUBSET Bits, SetBits(s)
  PROVE  \E A : /\ A \subseteq Elems(waitList[Event])
                /\ Elems(waitList'[Event]) = Elems(waitList[Event]) \ A
                /\ stat' = Readied(stat, A)
                /\ \A t \in A : /\ Content(t, wanted'[t].bits)
                                /\ wanted'[t].all = wanted[t].all
                /\ \A t \in Threads \ A : wanted'[t] = wanted[t]
                /\ \A t \in Elems(waitList[Event]) \ A : ~Met(t, set')
  <1>. DEFINE p     == Passed(set \cup s)
              pairs == p.resumed
              all   == [i \in DOMAIN pairs |-> pairs[i][1]]
              w     == waitList[Event]
              A     == Elems(all)
  <1>1. /\ set' = p.set
        /\ wanted' = [t \in Threads |->
                  IF t \in A
                  THEN [bits  |-> CHOOSE g \in SUBSET wanted[t].bits : <<t, g>> \in Elems(pairs),
                        all   |-> wanted[t].all, clear |-> wanted[t].clear]
                  ELSE wanted[t]]
        /\ stat' = [t \in Threads |-> IF t \in A THEN "ready" ELSE stat[t]]
        /\ waitList' = [waitList EXCEPT ![Event] = Without(@, A)]
    BY DEF SetBits
  <1>2. /\ Event \in Lists /\ w \in Seq(Threads) /\ waitList \in [Lists -> Seq(Threads)]
        /\ wanted \in [Threads -> WantedType] /\ set \cup s \in SUBSET Bits
    BY EndsFacts, OneList DEF ThreadInv, KernelTypes
  <1>3. PassedRight(w, set \cup s, Len(w), p)
    BY <1>2, PassedFacts
  <1>. HIDE DEF p, w
  <1>4. /\ pairs \in Seq(Threads \X SUBSET Bits)
        /\ \A k \in 1 .. Len(pairs) : /\ \E j \in 1 .. Len(w) : pairs[k][1] = w[j]
                                      /\ Content(pairs[k][1], pairs[k][2])
        /\ \A j \in 1 .. Len(w) : \/ \E k \in 1 .. Len(pairs) : pairs[k][1] = w[j]
                                  \/ ~Met(w[j], p.set)
    BY <1>2, <1>3 DEF PassedRight
  <1>. HIDE DEF pairs
  <1>5. /\ DOMAIN pairs = 1 .. Len(pairs) /\ Elems(pairs) = {pairs[k] : k \in 1 .. Len(pairs)}
        /\ \A k \in 1 .. Len(pairs) : pairs[k] = <<pairs[k][1], pairs[k][2]>>
                                      /\ pairs[k][1] \in Threads
    <2>1. /\ DOMAIN pairs = 1 .. Len(pairs) /\ Elems(pairs) = {pairs[k] : k \in 1 .. Len(pairs)}
          /\ \A k \in 1 .. Len(pairs) : pairs[k] \in Threads \X SUBSET Bits
      BY <1>4, ListDomain
    <2>. QED
      BY <2>1
  <1>6. A = {pairs[k][1] : k \in 1 .. Len(pairs)}
    BY <1>5 DEF Elems
  <1>. HIDE DEF A, all
  <1>7. /\ DOMAIN w = 1 .. Len(w) /\ Elems(w) = {w[j] : j \in 1 .. Len(w)}
        /\ Elems(w) \subseteq Threads
    BY <1>2, ListDomain
  <1>8. A \subseteq Elems(w)
    BY <1>4, <1>6, <1>7
  <1>9. Elems(waitList'[Event]) = Elems(w) \ A
    <2>1. waitList'[Event] = Without(w, A)
      BY <1>1, <1>2 DEF w
    <2>. QED
      BY <1>2, <2>1, WithoutFacts
  <1>10. ASSUME NEW t \in A
         PROVE  Content(t, wanted'[t].bits) /\ wanted'[t].all = wanted[t].all
    <2>. DEFINE G == {g \in SUBSET wanted[t].bits : <<t, g>> \in Elems(pairs)}
                g == CHOOSE g \in SUBSET wanted[t].bits : <<t, g>> \in Elems(pairs)
    <2>1. t \in Threads
      BY <1>7, <1>8
    <2>2. wanted'[t] = [bits |-> g, all |-> wanted[t].all, clear |-> wanted[t].clear]
      BY <1>1, <2>1
    <2>3. PICK k \in 1 .. Len(pairs) : t = pairs[k][1]
      BY <1>6
    <2>4. <<t, pairs[k][2]>> \in Elems(pairs) /\ pairs[k][2] \in SUBSET wanted[t].bits
      BY <1>4, <1>5, <2>3 DEF Content
    <2>5. <<t, g>> \in Elems(pairs)
      BY <2>4
    <2>. HIDE DEF g
    <2>6. PICK m \in 1 .. Len(pairs) : <<t, g>> = pairs[m]
      BY <1>5, <2>5
    <2>7. pairs[m][1] = t /\ pairs[m][2] = g
      BY <2>6
    <2>8. Content(t, g)
      BY <1>4, <2>7
    <2>. QED
      BY <2>2, <2>8
  <1>11. \A t \in Threads \ A : wanted'[t] = wanted[t]
    BY <1>1
  <1>12. ASSUME NEW t \in Elems(w) \ A PROVE ~Met(t, set')
    <2>1. PICK j \in 1 .. Len(w) : t = w[j]
      BY <1>7
    <2>2. ~\E k \in 1 .. Len(pairs) : pairs[k][1] = w[j]
      BY <1>6, <2>1
    <2>3. ~Met(t, p.set)
      BY <1>4, <2>1, <2>2
    <2>. QED
      BY <1>1, <2>3
  <1>13. stat' = Readied(stat, A)
    BY <1>1 DEF Readied
  <1>. QED
    BY <1>8, <1>9, <1>10, <1>11, <1>12, <1>13 DEF w

LEMMA EventSends ==
  ASSUME ThreadInv, WaitInv, EventCover, NEW s \in SUBSET Bits, EventSend(s) \/ EventSendISR(s)
  PROVE  EventCover'
  <1>1. /\ SetBits(s) /\ UNCHANGED error
        /\ UNCHANGED todo \/ (todo[current] = <<>> /\ \E b : CallerGoes(b))
    BY DEF EventSend, EventSendISR, Calls, HandlerGoes
  <1>2. PICK A : /\ A \subseteq Elems(waitList[Event])
                 /\ Elems(waitList'[Event]) = Elems(waitList[Event]) \ A
                 /\ stat' = Readied(stat, A)
                 /\ \A t \in A : /\ Content(t, wanted'[t].bits)
                                 /\ wanted'[t].all = wanted[t].all
                 /\ \A t \in Threads \ A : wanted'[t] = wanted[t]
                 /\ \A t \in Elems(waitList[Event]) \ A : ~Met(t, set')
    BY <1>1, SetBitsContent
  <1>3. Elems(waitList[Event]) \subseteq Waiters
    BY EndsFacts, OneList DEF ThreadInv
  <1>4. \A t \in Threads : todo'[t] = todo[t] \/ ~Seeks(todo'[t], Event)
    <2>1. CASE UNCHANGED todo
      BY <2>1
    <2>2. CASE todo[current] = <<>> /\ \E b : CallerGoes(b)
      <3>1. PICK c : todo' = [todo EXCEPT ![current] = c] /\ (c = <<>> \/ c = <<Sch>>)
        BY <2>2 DEF CallerGoes, Sch
      <3>2. todo = [t \in Threads |-> todo[t]] /\ current \in Threads
        BY DEF ThreadInv, ListInv, CallsRight, CurrentRight
      <3>3. \A t \in Threads : todo'[t] = IF t = current THEN c ELSE todo[t]
        BY <3>1, <3>2
      <3>4. Reaches(c, {}) /\ Event \in Lists
        BY <3>1, ReachFacts, EndsFacts
      <3>. QED
        BY <3>3, <3>4 DEF Reaches
    <2>. QED
      BY <1>1, <2>1, <2>2
  <1>5. \A t \in Elems(waitList[Event]) : todo'[t] = todo[t]
    <2>1. ASSUME NEW t \in Elems(waitList[Event]) PROVE todo'[t] = todo[t]
      <3>1. t \in Threads /\ stat[t] = "suspend"
        BY <1>3 DEF Waiters
      <3>2. CASE todo[current] = <<>> /\ \E b : CallerGoes(b)
        <4>1. stat[current] = "ready"
          BY <3>2, CallReaches
        <4>2. \E c : todo' = [todo EXCEPT ![current] = c]
          BY <3>2 DEF CallerGoes
        <4>3. todo = [u \in Threads |-> todo[u]]
          BY DEF ThreadInv, ListInv, CallsRight
        <4>. QED
          BY <3>1, <4>1, <4>2, <4>3
      <3>. QED
        BY <1>1, <3>2
    <2>. QED
      BY <2>1
  <1>6. ASSUME NEW t \in Elems(waitList'[Event])
        PROVE  ~Met(t, set)' /\ wanted'[t].bits = Last(t)'[2] /\ wanted'[t].bits # {}
    <2>1. t \in Elems(waitList[Event]) \ A /\ t \in Threads
      BY <1>2, <1>3 DEF Waiters
    <2>2. wanted'[t] = wanted[t] /\ ~Met(t, set') /\ todo'[t] = todo[t]
      BY <1>2, <1>5, <2>1
    <2>3. Last(t)' = Last(t) /\ ~Met(t, set)'
      BY <2>2 DEF Last, Met
    <2>. QED
      BY <2>1, <2>2, <2>3 DEF EventCover
  <1>7. ASSUME NEW t \in Alert(Event)' PROVE GotSome(t)'
    <2>1. /\ t \in Threads /\ Seeks(todo'[t], Event) /\ stat'[t] = "ready" /\ error'[t] = "ok"
          /\ todo'[t] = todo[t]
      BY <1>4 DEF Alert
    <2>2. Last(t)' = Last(t)
      BY <2>1 DEF Last
    <2>3. CASE t \in A
      <3>1. wanted[t].bits = Last(t)[2] /\ wanted[t].bits # {}
        BY <1>2, <2>3 DEF EventCover
      <3>2. Content(t, wanted'[t].bits) /\ wanted'[t].all = wanted[t].all
        BY <1>2, <2>3
      <3>. QED
        BY <2>2, <3>1, <3>2 DEF Content, GotSome
    <2>4. CASE t \notin A
      <3>1. stat[t] = "ready" /\ error[t] = "ok"
        BY <1>1, <1>2, <2>1, <2>4 DEF Readied
      <3>2. t \in Alert(Event)
        BY <2>1, <3>1 DEF Alert
      <3>3. wanted'[t] = wanted[t]
        BY <1>2, <2>1, <2>4
      <3>. QED
        BY <2>2, <3>2, <3>3 DEF EventCover, GotSome
    <2>. QED
      BY <2>3, <2>4
  <1>. QED
    BY <1>6, <1>7 DEF EventCover

LEMMA EventReceives ==
  ASSUME ThreadInv, ThreadInv', WaitInv, EventCover, NEW s \in SUBSET Bits,
         NEW all, NEW clear, NEW n, (s # {} /\ EventRecv(s, all, clear, n)) \/ EventEnd
  PROVE  EventCover'
  <1>. DEFINE next == <<"event_end", s>>
              new  == [bits |-> s, all |-> all, clear |-> clear]
              c    == <<Sch, next>>
  <1>0. /\ todo = [t \in Threads |-> todo[t]] /\ current \in Threads
        /\ stat \in [Threads -> Stats] /\ error \in [Threads -> Results]
        /\ wanted \in [Threads -> WantedType] /\ waitList \in [Lists -> Seq(Threads)]
        /\ Event \in Lists /\ Elems(waitList[Event]) \subseteq Waiters
    BY EndsFacts, OneList
    DEF ThreadInv, KernelTypes, ListInv, CallsRight, CurrentRight, WaitInv
  <1>1. \A t \in Elems(waitList[Event]) : t \in Threads /\ stat[t] = "suspend"
    BY <1>0 DEF Waiters
  <1>2. ASSUME UNCHANGED <<stat, waitList, wanted>>, set' \subseteq set,
               stat[current] = "ready", ~Seeks(todo'[current], Event),
               \A t \in Threads \ {current} : error'[t] = error[t] /\ todo'[t] = todo[t]
        PROVE  EventCover'
    <2>1. ASSUME NEW t \in Elems(waitList'[Event])
          PROVE  ~Met(t, set)' /\ wanted'[t].bits = Last(t)'[2] /\ wanted'[t].bits # {}
      <3>1. /\ t \in Elems(waitList[Event]) /\ todo'[t] = todo[t] /\ ~Met(t, set)
            /\ wanted'[t] = wanted[t]
        BY <1>1, <1>2 DEF EventCover
      <3>2. ~Met(t, set)' /\ Last(t)' = Last(t)
        BY <1>2, <3>1 DEF Met, Last
      <3>. QED
        BY <3>1, <3>2 DEF EventCover
    <2>2. ASSUME NEW t \in Alert(Event)' PROVE GotSome(t)'
      <3>1. t \in Threads /\ t # current
        BY <1>2 DEF Alert
      <3>2. t \in Alert(Event) /\ Last(t)' = Last(t)
        BY <1>2, <3>1 DEF Alert, Last
      <3>. QED
        BY <1>2, <3>2 DEF EventCover, GotSome
    <2>. QED
      BY <2>1, <2>2 DEF EventCover
  <1>3. \A d : Reaches(d, {}) => ~Seeks(d, Event)
    BY <1>0 DEF Reaches
  <1>4. CASE EventEnd
    <2>1. /\ At("event_end") /\ Then(<<>>) /\ "event_end" \in EndNames
          /\ UNCHANGED <<stat, waitList, wanted, set, error>>
      BY <1>4 DEF EventEnd, schedVars, msgVars, eventVars, EndNames
    <2>2. stat[current] = "ready" /\ <<>> \o Tail(todo[current]) = <<>> \o <<>>
      BY <2>1, AtReaches
    <2>3. todo' = [todo EXCEPT ![current] = <<>>]
      BY <2>1, <2>2, RestFacts DEF Then
    <2>4. todo'[current] = <<>> /\ \A t \in Threads \ {current} : todo'[t] = todo[t]
      BY <1>0, <2>3
    <2>. QED
      BY <1>2, <1>3, <2>1, <2>2, <2>4, ReachFacts
  <1>5. CASE s # {} /\ EventRecv(s, all, clear, n)
    <2>1. todo[current] = <<>> /\ stat[current] = "ready"
      BY <1>5, CallReaches DEF EventRecv, Calls
    <2>2. CASE /\ set' = IF clear THEN set \ s ELSE set
               /\ error' = [error EXCEPT ![current] = "ok"]
               /\ UNCHANGED <<wanted, stat, waitList, todo>>
      <3>1. set' \subseteq set /\ ~Seeks(todo'[current], Event)
        BY <1>3, <2>1, <2>2, ReachFacts
      <3>2. \A t \in Threads \ {current} : error'[t] = error[t] /\ todo'[t] = todo[t]
        BY <1>0, <2>2
      <3>. QED
        BY <1>2, <2>1, <2>2, <3>1, <3>2
    <2>3. CASE /\ ~(IF all THEN s \subseteq set ELSE s \cap set # {})
               /\ wanted' = [wanted EXCEPT ![current] = new]
               /\ SuspendOn(Event, n, ready, next) /\ UNCHANGED set
      <3>1. IsEnd(next) /\ EndIn(next, Event) /\ Event \in {Event}
        BY EndsFacts
      <3>2. /\ todo' = [todo EXCEPT ![current] = c] /\ stat' = [stat EXCEPT ![current] = "suspend"]
            /\ error' = [error EXCEPT ![current] = "ok"]
        BY <2>3 DEF SuspendOn, SuspendIn, Sch
      <3>3. c[Len(c)] = next /\ next[2] = s
        OBVIOUS
      <3>. HIDE DEF c, next
      <3>4. Reaches(todo[current], {Event})
        BY <2>1, CallReaches
      <3>5. Elems(waitList'[Event]) = Elems(waitList[Event]) \cup {current}
        BY <1>0, <2>1, <2>3, <3>1, <3>4, StepBegins
      <3>6. \A t \in Threads \ {current} : /\ todo'[t] = todo[t] /\ stat'[t] = stat[t]
                                           /\ error'[t] = error[t] /\ wanted'[t] = wanted[t]
        BY <1>0, <2>3, <3>2
      <3>7. /\ todo'[current] = c /\ c[Len(c)][2] = s /\ stat'[current] = "suspend"
            /\ wanted'[current].bits = s /\ wanted'[current].all = all
        <4>1. todo'[current] = c /\ stat'[current] = "suspend" /\ wanted'[current] = new
          BY <1>0, <2>3, <3>2
        <4>. QED
          BY <3>3, <4>1
      <3>8. ASSUME NEW t \in Elems(waitList'[Event])
            PROVE  ~Met(t, set)' /\ wanted'[t].bits = Last(t)'[2] /\ wanted'[t].bits # {}
        <4>1. CASE t = current
          <5>1. ~Met(t, set)'
            BY <2>3, <3>7, <4>1 DEF Met
          <5>2. todo'[t] = c
            BY <3>7, <4>1
          <5>3. Last(t)'[2] = s
            BY <3>7, <5>2 DEF Last
          <5>. QED
            BY <1>5, <3>7, <4>1, <5>1, <5>3
        <4>2. CASE t # current
          <5>1. t \in Elems(waitList[Event]) /\ t \in Threads
            BY <1>1, <3>5, <4>2
          <5>2. todo'[t] = todo[t] /\ wanted'[t] = wanted[t] /\ ~Met(t, set)
            BY <3>6, <4>2, <5>1 DEF EventCover
          <5>3. ~Met(t, set)' /\ Last(t)' = Last(t)
            BY <2>3, <5>2 DEF Met, Last
          <5>. QED
            BY <5>1, <5>2, <5>3 DEF EventCover
        <4>. QED
          BY <4>1, <4>2
      <3>9. ASSUME NEW t \in Alert(Event)' PROVE GotSome(t)'
        <4>1. t \in Threads /\ t # current
          BY <3>7 DEF Alert
        <4>2. t \in Alert(Event) /\ Last(t)' = Last(t) /\ wanted'[t] = wanted[t]
          BY <3>6, <4>1 DEF Alert, Last
        <4>. QED
          BY <4>2 DEF EventCover, GotSome
      <3>. QED
        BY <3>8, <3>9 DEF EventCover
    <2>. QED
      BY <1>5, <2>2, <2>3 DEF EventRecv
  <1>. QED
    BY <1>4, <1>5
-----------------------------------------------------------------------------
\* The memory pool.  Who waits is counted in suspended, with some that no longer do.

PoolCover ==
  /\ Covered(Pool, freeCount)
  /\ suspended \in Nat /\ Cardinality(Elems(waitList[Pool])) <= suspended

LEMMA PoolElse ==
  ASSUME ThreadInv, ThreadInv', PoolInv, PoolCover, UNCHANGED <<freeCount, suspended>>,
         NEW L, StepOn(L), Pool \notin L
  PROVE  PoolCover'
  <1>1. PICK e : e = freeCount
    OBVIOUS
  <1>2. Pool \in Lists \ L /\ e \in Int /\ Covered(Pool, e)
    BY <1>1, EndsFacts DEF PoolInv, PoolCover
  <1>3. waitList'[Pool] # <<>> => Cardinality(Alert(Pool)') >= e
    BY <1>2, CoverElse
  <1>4. Covered(Pool, freeCount)'
    BY <1>1, <1>3 DEF Covered
  <1>5. PICK W : W = Elems(waitList[Pool])
    OBVIOUS
  <1>6. PICK V : V = Elems(waitList'[Pool])
    OBVIOUS
  <1>7. V \subseteq W /\ W \subseteq Threads /\ IsFiniteSet(Threads)
    BY <1>2, <1>5, <1>6, AlertStays, OneList, KernelAssumption DEF Waiters, ThreadInv
  <1>8. IsFiniteSet(W) /\ IsFiniteSet(V) /\ Cardinality(V) <= Cardinality(W)
    BY <1>7, FS_Subset
  <1>9. Cardinality(V) \in Nat /\ Cardinality(W) \in Nat /\ Cardinality(W) <= suspended
        /\ suspended \in Nat
    BY <1>5, <1>8, FS_CardinalityType DEF PoolCover
  <1>10. Cardinality(V) <= suspended
    BY <1>8, <1>9
  <1>. QED
    BY <1>4, <1>6, <1>9, <1>10 DEF PoolCover

LEMMA PoolCall ==
  ASSUME ThreadInv, ThreadInv', WaitInv, PoolInv, PoolInv', PoolCover, NEW n \in Int,
         MpAlloc(n) \/ MpWoken \/ MpAgain \/ MpFree
  PROVE  PoolCover'
  <1>1. PICK e : e = freeCount
    OBVIOUS
  <1>2. PICK f : f = freeCount'
    OBVIOUS
  <1>3. PICK W : W = Elems(waitList[Pool])
    OBVIOUS
  <1>4. /\ e \in Int /\ f \in Int /\ Covered(Pool, e) /\ Pool \in Lists
        /\ suspended \in Nat /\ Cardinality(W) <= suspended
        /\ "mp_woken" \in EndNames /\ "mp_again" \in WorkNames /\ StepOn({Pool})
    <2>1. StepOn({Pool})
      BY StepPool
    <2>. QED
      BY <1>1, <1>2, <1>3, <2>1, EndsFacts DEF PoolInv, PoolCover, EndNames, WorkNames
  <1>5. /\ W \subseteq Threads /\ IsFiniteSet(W) /\ Cardinality(W) \in Nat
        /\ waitList[Pool] = <<>> <=> W = {}
        /\ waitList[Pool] \in Seq(Threads) /\ NoneTwice(waitList[Pool])
    <2>1. /\ waitList[Pool] \in Seq(Threads) /\ W \subseteq Threads /\ IsFiniteSet(Threads)
          /\ NoneTwice(waitList[Pool])
      BY <1>3, <1>4, OneList, KernelAssumption DEF Waiters, ThreadInv
    <2>. QED
      BY <1>3, <2>1, ListDomain, FS_Subset, FS_CardinalityType
  <1>6. ASSUME waitList'[Pool] # <<>> => Cardinality(Alert(Pool)') >= f,
               suspended' \in Nat, Cardinality(Elems(waitList'[Pool])) <= suspended'
        PROVE  PoolCover'
    BY <1>2, <1>6 DEF PoolCover, Covered
  <1>7. ASSUME UNCHANGED <<waitList, suspended>>,
               f = e - 1 \/ (f = e /\ (current \notin Alert(Pool) \/ current \in Alert(Pool)'))
        PROVE  PoolCover'
    <2>1. /\ waitList'[Pool] # <<>> => waitList[Pool] # <<>>
          /\ f <= e - 1 \/ (f <= e /\ (current \notin Alert(Pool) \/ current \in Alert(Pool)'))
      BY <1>4, <1>7
    <2>2. waitList'[Pool] # <<>> => Cardinality(Alert(Pool)') >= f
      BY <1>4, <2>1, CoverStep
    <2>. QED
      BY <1>3, <1>4, <1>6, <1>7, <2>2
  <1>8. ASSUME NEW k \in Int, WaitForBlock(k), freeCount = 0, stat[current] = "ready"
        PROVE  PoolCover'
    <2>1. /\ waitList' = [waitList EXCEPT ![Pool] = <<current>> \o waitList[Pool]]
          /\ suspended' = suspended + 1 /\ freeCount' = freeCount
      BY <1>8 DEF WaitForBlock, SuspendIn
    <2>2. current \in Threads /\ current \notin W
      BY <1>3, <1>4, <1>8, OneList DEF Waiters, ThreadInv, ListInv, CurrentRight
    <2>3. waitList'[Pool] = <<current>> \o waitList[Pool]
      BY <1>4, <2>1 DEF ThreadInv, KernelTypes
    <2>4. Elems(waitList'[Pool]) = W \cup {current}
      BY <1>3, <1>5, <2>2, <2>3, FrontFacts
    <2>5. PICK c : c = current
      OBVIOUS
    <2>6. Cardinality(W \cup {c}) = Cardinality(W) + 1
      BY <1>5, <2>2, <2>5, HavingSize
    <2>7. f <= 0
      BY <1>2, <1>8, <2>1
    <2>8. waitList'[Pool] # <<>> => Cardinality(Alert(Pool)') >= f
      BY <1>4, <2>7, CoverNone
    <2>9. Cardinality(Elems(waitList'[Pool])) = Cardinality(W) + 1
      BY <2>4, <2>5, <2>6
    <2>10. suspended' \in Nat /\ Cardinality(Elems(waitList'[Pool])) <= suspended'
      BY <1>4, <1>5, <2>1, <2>9
    <2>. QED
      BY <1>6, <2>8, <2>10
  <1>9. CASE MpAlloc(n)
    <2>1. /\ todo[current] = <<>>
          /\ \/ freeCount' = freeCount - 1 /\ UNCHANGED <<waitList, suspended>>
             \/ freeCount = 0 /\ WaitForBlock(n)
      BY <1>9 DEF MpAlloc, Calls, TakeBlock
    <2>2. stat[current] = "ready"
      BY <2>1, CallReaches
    <2>. QED
      BY <1>1, <1>2, <1>7, <1>8, <2>1, <2>2
  <1>10. CASE MpWoken
    <2>. DEFINE k == Head(todo[current])[2]
                d == <<"mp_again", WaitLeft(k)>>
                c == <<d>>
    <2>1. /\ At("mp_woken") /\ UNCHANGED <<stat, waitList, error, freeCount, suspended>>
          /\ todo' = [todo EXCEPT ![current] = (IF error[current] = "ok" THEN c ELSE <<>>)
                                               \o Tail(@)]
      BY <1>10 DEF MpWoken, Then, schedVars, msgVars, poolVars
    <2>2. c # <<>> /\ c[Len(c)][1] = "mp_again"
      OBVIOUS
    <2>3. k \in Int
      BY <2>1, AgainFacts
    <2>. HIDE DEF k
    <2>4. IsWork(d)
      BY <2>3, LeftFacts DEF IsWork
    <2>5. c \o <<>> = c
      BY <2>4, RestFacts
    <2>. HIDE DEF c, d
    <2>6. /\ current \in Threads /\ stat[current] = "ready"
          /\ c \o Tail(todo[current]) = c \o <<>>
          /\ todo = [t \in Threads |-> todo[t]]
      BY <1>4, <2>1, AtReaches DEF ThreadInv, ListInv, CallsRight
    <2>7. CASE error[current] = "ok"
      <3>1. todo'[current] = c
        BY <2>1, <2>5, <2>6, <2>7
      <3>2. /\ Seeks(todo'[current], Pool) /\ stat'[current] = "ready" /\ error'[current] = "ok"
        BY <2>1, <2>2, <2>6, <2>7, <3>1 DEF Seeks, Working
      <3>3. current \in Alert(Pool)'
        BY <2>6, <3>2 DEF Alert
      <3>. QED
        BY <1>1, <1>2, <1>7, <2>1, <3>3
    <2>8. CASE error[current] # "ok"
      <3>1. current \notin Alert(Pool)
        BY <2>8 DEF Alert
      <3>. QED
        BY <1>1, <1>2, <1>7, <2>1, <3>1
    <2>. QED
      BY <2>7, <2>8
  <1>11. CASE MpAgain
    <2>. DEFINE k == Head(todo[current])[2]
    <2>1. /\ At("mp_again")
          /\ \/ freeCount' = freeCount - 1 /\ UNCHANGED <<waitList, suspended>>
             \/ freeCount = 0 /\ UNCHANGED <<waitList, freeCount, suspended>>
             \/ freeCount = 0 /\ WaitForBlock(k)
      BY <1>11 DEF MpAgain, TakeBlock, poolVars
    <2>2. k \in Int /\ stat[current] = "ready"
      BY <1>4, <2>1, AgainFacts, AtReaches
    <2>. HIDE DEF k
    <2>3. ASSUME freeCount = 0, UNCHANGED <<waitList, freeCount, suspended>> PROVE PoolCover'
      <3>1. f <= 0
        BY <1>2, <2>3
      <3>2. waitList'[Pool] # <<>> => Cardinality(Alert(Pool)') >= f
        BY <1>4, <3>1, CoverNone
      <3>. QED
        BY <1>3, <1>4, <1>6, <2>3, <3>2
    <2>. QED
      BY <1>1, <1>2, <1>7, <1>8, <2>1, <2>2, <2>3
  <1>12. CASE MpFree
    <2>1. /\ todo[current] = <<>> /\ (suspended > 0 => waitList[Pool] # <<>>)
          /\ freeCount' = freeCount + 1 /\ \E b : CallerGoes(b)
          /\ \/ /\ suspended > 0 /\ suspended' = suspended - 1
                /\ ResumeFirst(Pool, ready, priority)
                /\ error' = [error EXCEPT ![Head(waitList[Pool])] = "ok"]
             \/ /\ suspended = 0 /\ ResumeNobody(ready) /\ UNCHANGED <<suspended, error>>
      BY <1>12 DEF MpFree
    <2>2. stat[current] = "ready" /\ Reaches(todo[current], {})
      BY <2>1, CallReaches
    <2>3. current \notin Alert(Pool)
      BY <1>4, <2>2 DEF Reaches, Alert
    <2>4. ASSUME ResumeOne(Pool), UNCHANGED error,
                 suspended' \in Nat, Cardinality(Elems(waitList'[Pool])) <= suspended'
          PROVE  PoolCover'
      <3>1. waitList'[Pool] # <<>> => Cardinality(Alert(Pool)') >= e + 1
        BY <1>4, <2>1, <2>2, <2>3, <2>4, CoverGives
      <3>2. f = e + 1
        BY <1>1, <1>2, <2>1
      <3>. QED
        BY <1>6, <2>4, <3>1, <3>2
    <2>5. ASSUME suspended = 0, ResumeNobody(ready), UNCHANGED <<suspended, error>>
          PROVE  PoolCover'
      <3>1. UNCHANGED waitList
        BY <2>5 DEF ResumeNobody
      <3>2. Cardinality(W) = 0
        BY <1>4, <1>5, <2>5
      <3>3. W = {}
        BY <1>5, <3>2, FS_EmptySet
      <3>4. ResumeOne(Pool)
        BY <1>5, <2>5, <3>3 DEF ResumeOne
      <3>. QED
        BY <1>3, <1>4, <2>4, <2>5, <3>1, <3>4
    <2>6. ASSUME suspended > 0, suspended' = suspended - 1,
                 ResumeFirst(Pool, ready, priority),
                 error' = [error EXCEPT ![Head(waitList[Pool])] = "ok"]
          PROVE  PoolCover'
      <3>1. PICK h : h = Head(waitList[Pool])
        OBVIOUS
      <3>2. waitList[Pool] # <<>>
        BY <2>1, <2>6
      <3>3. ResumeOne(Pool)
        BY <2>6, <3>2 DEF ResumeOne
      <3>4. h \in W /\ Elems(Tail(waitList[Pool])) = W \ {h}
        BY <1>3, <1>5, <3>1, <3>2, TailFacts
      <3>5. error \in [Threads -> Results] /\ error[h] = "ok"
        BY <1>3, <1>4, <3>4 DEF WaitInv
      <3>6. UNCHANGED error
        <4>1. [error EXCEPT ![h] = "ok"] = error
          BY <3>5
        <4>. QED
          BY <2>6, <3>1, <4>1
      <3>7. waitList'[Pool] = Tail(waitList[Pool])
        BY <1>4, <2>6 DEF ResumeFirst, ThreadInv, KernelTypes
      <3>8. Cardinality(W \ {h}) = Cardinality(W) - 1
        BY <1>5, <3>4, HavingSize
      <3>9. Cardinality(Elems(waitList'[Pool])) = Cardinality(W) - 1
        BY <3>4, <3>7, <3>8
      <3>10. suspended' \in Nat /\ Cardinality(Elems(waitList'[Pool])) <= suspended'
        BY <1>4, <1>5, <2>6, <3>9
      <3>. QED
        BY <2>4, <3>3, <3>6, <3>10
    <2>. QED
      BY <2>1, <2>5, <2>6
  <1>. QED
    BY <1>9, <1>10, <1>11, <1>12
-----------------------------------------------------------------------------
\* All of them together.

CoverInv == MailCover /\ QueueCover /\ EventCover /\ PoolCover

Messaging == Mailing \cup {Event, Queue, Pool}

LEMMA ListsApart ==
  /\ Messaging \subseteq Lists /\ Messaging \cap Objects = {}
  /\ Event \notin Mailing /\ Queue \notin Mailing /\ Pool \notin Mailing
  /\ Receivers \notin {Event, Queue, Pool} /\ Senders \notin {Event, Queue, Pool}
  /\ Event \notin {Queue, Pool} /\ Queue \notin {Event, Pool} /\ Pool \notin {Event, Queue}
  <1>1. Messaging \subseteq Lists /\ Messaging \cap Objects = {}
    BY IpcAssumption, MessagesAssumption DEF Messaging, Mailing, Objects
  <1>. QED
    BY <1>1 DEF Mailing, Receivers, Senders, Event, Queue, Pool

\* What a step does not touch stays covered: it is on other lists, and what the threads of these
\* look for is not more than it was.
LEMMA CoverStays ==
  ASSUME ThreadInv, ThreadInv', BoxInv, BlockInv, PoolInv, CoverInv, NEW L, StepOn(L)
  PROVE  /\ UNCHANGED entry /\ Receivers \notin L /\ Senders \notin L => MailCover'
         /\ UNCHANGED queue /\ Queue \notin L => QueueCover'
         /\ UNCHANGED wanted /\ set' \subseteq set /\ Event \notin L => EventCover'
         /\ UNCHANGED poolVars /\ Pool \notin L => PoolCover'
  <1>1. ASSUME UNCHANGED entry, Receivers \notin L, Senders \notin L PROVE MailCover'
    <2>1. PICK e : e = entry
      OBVIOUS
    <2>2. PICK f : f = BoxSize - entry
      OBVIOUS
    <2>3. e \in Int /\ f \in Int /\ Covered(Receivers, e) /\ Covered(Senders, f)
      BY <2>1, <2>2, IpcAssumption DEF CoverInv, MailCover, BoxInv
    <2>4. Receivers \in Lists \ L /\ Senders \in Lists \ L
      BY <1>1, ListsApart DEF Messaging, Mailing
    <2>5. /\ waitList'[Receivers] # <<>> => Cardinality(Alert(Receivers)') >= e
          /\ waitList'[Senders] # <<>> => Cardinality(Alert(Senders)') >= f
      BY <2>3, <2>4, CoverElse
    <2>. QED
      BY <1>1, <2>1, <2>2, <2>5 DEF MailCover, Covered
  <1>2. ASSUME UNCHANGED queue, Queue \notin L PROVE QueueCover'
    <2>1. PICK e : e = Len(queue)
      OBVIOUS
    <2>2. e \in Int /\ Covered(Queue, e) /\ Queue \in Lists \ L
      BY <1>2, <2>1, ListsApart DEF CoverInv, QueueCover, BlockInv, Messaging
    <2>3. waitList'[Queue] # <<>> => Cardinality(Alert(Queue)') >= e
      BY <2>2, CoverElse
    <2>. QED
      BY <1>2, <2>1, <2>3 DEF QueueCover, Covered
  <1>3. ASSUME UNCHANGED wanted, set' \subseteq set, Event \notin L PROVE EventCover'
    BY <1>3, EventElse DEF CoverInv
  <1>4. ASSUME UNCHANGED poolVars, Pool \notin L PROVE PoolCover'
    BY <1>4, PoolElse DEF CoverInv, poolVars
  <1>. QED
    BY <1>1, <1>2, <1>3, <1>4

\* The steps that are about none of these lists.
LEMMA CoverAside ==
  ASSUME ThreadInv, ThreadInv', BoxInv, BlockInv, PoolInv, CoverInv,
         UNCHANGED <<entry, msgVars>>, NEW L, StepOn(L), L \cap Messaging = {}
  PROVE  CoverInv'
  <1>1. Receivers \notin L /\ Senders \notin L /\ Event \notin L /\ Queue \notin L /\ Pool \notin L
    BY DEF Messaging, Mailing
  <1>2. UNCHANGED <<entry, queue, wanted, set, poolVars>>
    BY DEF msgVars, eventVars, queueVars
  <1>. QED
    BY <1>1, <1>2, CoverStays DEF CoverInv

LEMMA CoverIpc ==
  ASSUME ThreadInv, ThreadInv', WaitInv, BoxInv, BlockInv, PoolInv, CoverInv,
         IpcNext, UNCHANGED msgVars
  PROVE  CoverInv'
  <1>0. /\ {} \cap Messaging = {} /\ \A o \in Objects : {o} \cap Messaging = {}
        /\ Sems \subseteq Objects /\ Mutexes \subseteq Objects
    BY ListsApart DEF Objects
  <1>1. \A n \in WaitTimes \cup {Forever} : n \in Int
    BY TimesFacts DEF ThreadInv, ListInv, CurrentRight
  <1>2. CASE TickOfAll
    <2>1. StepOn({}) /\ UNCHANGED entry
      BY <1>2, StepTick DEF TickOfAll, boxVars
    <2>. QED
      BY <1>0, <2>1, CoverAside
  <1>3. CASE (Section \/ Call) /\ UNCHANGED ipcVars
    <2>1. StepOn({}) /\ UNCHANGED entry
      BY <1>3, StepKernel DEF ipcVars, boxVars
    <2>. QED
      BY <1>0, <2>1, CoverAside
  <1>4. CASE SemEnd \/ MutexEnd
    <2>1. Subject \in Objects /\ StepOn({Subject}) /\ UNCHANGED entry
      BY <1>0, <1>4, WaitSubject, StepWaitEnds DEF SemEnd, MutexEnd, boxVars
    <2>. QED
      BY <1>0, <2>1, CoverAside
  <1>5. ASSUME NEW s \in Sems, NEW n,
               SemRelease(s) \/ SemReleaseISR(s) \/ SemTake(s, n) \/ SemReset(s, n)
        PROVE  CoverInv'
    <2>1. UNCHANGED entry
      BY <1>5 DEF SemRelease, SemReleaseISR, SemTake, SemReset, boxVars
    <2>2. StepOn({}) \/ StepOn({s})
      BY <1>5, StepRelease, StepSemTake, StepResets
    <2>. QED
      BY <1>0, <2>1, <2>2, CoverAside
  <1>6. ASSUME NEW m \in Mutexes, NEW n \in Int,
               MutexTakeAgain(m) \/ MutexTakeFree(m) \/ MutexTakeWait(m, n) \/ MutexRelease(m)
        PROVE  CoverInv'
    <2>1. UNCHANGED entry
      BY <1>6 DEF MutexTakeAgain, MutexTakeFree, MutexTakeWait, MutexRelease, boxVars
    <2>2. StepOn({m})
      BY <1>6, StepMutexTake, StepMutexRelease
    <2>. QED
      BY <1>0, <2>1, <2>2, CoverAside
  <1>7. ASSUME StepOn(Mailing) \/ StepOn({}), MailCover' PROVE CoverInv'
    <2>1. UNCHANGED <<queue, wanted, set, poolVars>> /\ set' \subseteq set
      BY DEF msgVars, eventVars, queueVars
    <2>2. QueueCover' /\ EventCover' /\ PoolCover'
      BY <1>7, <2>1, ListsApart, CoverStays
    <2>. QED
      BY <1>7, <2>2 DEF CoverInv
  <1>8. ASSUME NEW x, NEW n \in Int,
               \/ x \in Msgs /\ Send(x, n)
               \/ SendISR(x) \/ Receive(n) \/ SendAgain \/ ReceiveAgain
        PROVE  CoverInv'
    <2>1. StepOn(Mailing) /\ MailCover'
      BY <1>8, StepMail, MailCall DEF CoverInv
    <2>. QED
      BY <1>7, <2>1
  <1>9. CASE BoxReset
    <2>1. StepOn({}) /\ MailCover'
      BY <1>9, StepResets, MailReset
    <2>. QED
      BY <1>7, <2>1
  <1>10. CASE InCall
    <2>1. 0 \in Int
      OBVIOUS
    <2>. QED
      BY <1>3, <1>4, <1>8, <1>10, <2>1 DEF InCall
  <1>11. CASE ApplicationCall
    <2>1. CASE \E s \in Sems : \/ SemRelease(s)
                               \/ \E n \in WaitTimes \cup {Forever} : SemTake(s, n)
                               \/ \E n \in 0 .. MaxPermits : SemReset(s, n)
      BY <1>5, <2>1
    <2>2. CASE \E m \in Mutexes : \/ MutexTakeAgain(m) \/ MutexTakeFree(m) \/ MutexRelease(m)
                                  \/ \E n \in WaitTimes \cup {Forever} : MutexTakeWait(m, n)
      <3>1. 0 \in Int
        OBVIOUS
      <3>. QED
        BY <1>1, <1>6, <2>2, <3>1
    <2>3. CASE \E n \in WaitTimes \cup {Forever} : Receive(n) \/ \E x \in Msgs : Send(x, n)
      <3>1. PICK n \in WaitTimes \cup {Forever} : Receive(n) \/ \E x \in Msgs : Send(x, n)
        BY <2>3
      <3>2. n \in Int
        BY <1>1
      <3>. QED
        BY <1>8, <3>1, <3>2
    <2>. QED
      BY <1>3, <1>9, <1>11, <2>1, <2>2, <2>3 DEF ApplicationCall
  <1>12. CASE Handler
    <2>1. 0 \in Int
      OBVIOUS
    <2>. QED
      BY <1>5, <1>8, <1>12, <2>1 DEF Handler
  <1>. QED
    BY <1>2, <1>10, <1>11, <1>12 DEF IpcNext

LEMMA CoverMessages ==
  ASSUME ThreadInv, ThreadInv', WaitInv, BoxInv, BlockInv, BlockInv', PoolInv, PoolInv', CoverInv,
         MsgInCall \/ MsgCall \/ MsgHandler
  PROVE  CoverInv'
  <1>1. \A n \in WaitTimes \cup {Forever} : n \in Int
    BY TimesFacts DEF ThreadInv, ListInv, CurrentRight
  <1>2. ASSUME NEW s \in SUBSET Bits, NEW all, NEW clear, NEW n,
               \/ EventSend(s) \/ EventSendISR(s)
               \/ (s # {} /\ EventRecv(s, all, clear, n)) \/ EventEnd
        PROVE  CoverInv'
    <2>1. StepOn({Event}) /\ EventCover'
      BY <1>2, StepEvent, EventSends, EventReceives DEF CoverInv
    <2>2. UNCHANGED <<entry, queue, poolVars>>
      BY <1>2 DEF EventSend, EventSendISR, EventRecv, EventEnd, SetBits, ipcVars, boxVars,
         queueVars, msgVars
    <2>3. MailCover' /\ QueueCover' /\ PoolCover'
      BY <2>1, <2>2, ListsApart, CoverStays
    <2>. QED
      BY <2>1, <2>3 DEF CoverInv
  <1>3. ASSUME NEW how \in Ways, NEW x, NEW n \in Int,
               \/ MqSend(how, x) \/ MqLink(how) \/ MqSendISR(how, x)
               \/ MqReceive(n) \/ MqReceiveAgain \/ MqCopied
        PROVE  CoverInv'
    <2>1. StepOn({Queue}) /\ QueueCover'
      BY <1>3, StepQueue, QueueCall DEF CoverInv
    <2>2. UNCHANGED <<entry, wanted, set, poolVars>> /\ set' \subseteq set
      BY <1>3 DEF MqSend, MqLink, MqSendISR, MqReceive, MqReceiveAgain, MqCopied, Fails,
         WaitsAgain, ipcVars, boxVars, eventVars
    <2>3. MailCover' /\ EventCover' /\ PoolCover'
      BY <2>1, <2>2, ListsApart, CoverStays
    <2>. QED
      BY <2>1, <2>3 DEF CoverInv
  <1>4. ASSUME NEW n \in Int, MpAlloc(n) \/ MpWoken \/ MpAgain \/ MpFree PROVE CoverInv'
    <2>1. StepOn({Pool}) /\ PoolCover'
      BY <1>4, StepPool, PoolCall DEF CoverInv
    <2>2. UNCHANGED <<entry, wanted, set, queue>> /\ set' \subseteq set
      BY <1>4 DEF MpAlloc, MpWoken, MpAgain, MpFree, ipcVars, boxVars, eventVars, queueVars, msgVars
    <2>3. MailCover' /\ EventCover' /\ QueueCover'
      BY <2>1, <2>2, ListsApart, CoverStays
    <2>. QED
      BY <2>1, <2>3 DEF CoverInv
  <1>5. CASE EventReset
    <2>1. StepOn({}) /\ UNCHANGED <<entry, wanted, queue, poolVars>> /\ set' \subseteq set
      BY <1>5, StepResets DEF EventReset, ipcVars, boxVars, queueVars
    <2>. QED
      BY <2>1, CoverStays DEF CoverInv
  <1>6. CASE MqReset
    <2>1. StepOn({}) /\ UNCHANGED <<entry, wanted, set, poolVars>> /\ set' \subseteq set
      BY <1>6, StepResets DEF MqReset, ipcVars, boxVars, eventVars
    <2>. QED
      BY <1>6, <2>1, CoverStays, QueueReset DEF CoverInv
  <1>7. /\ 0 \in Int /\ "mq_send" \in Ways /\ {} \in SUBSET Bits
        /\ \A s \in (SUBSET Bits) \ {{}} : s \in SUBSET Bits /\ s # {}
    BY DEF Ways
  <1>8. CASE MsgInCall
    BY <1>2, <1>3, <1>4, <1>7, <1>8 DEF MsgInCall
  <1>9. CASE MsgCall
    BY <1>1, <1>2, <1>3, <1>4, <1>5, <1>6, <1>7, <1>9 DEF MsgCall
  <1>10. CASE MsgHandler
    BY <1>2, <1>3, <1>7, <1>10 DEF MsgHandler
  <1>. QED
    BY <1>8, <1>9, <1>10

LEMMA CoverNext ==
  ThreadInv /\ WaitInv /\ BoxInv /\ BlockInv /\ PoolInv /\ CoverInv /\ [Next]_allVars => CoverInv'
  <1>1. ASSUME ThreadInv, WaitInv, BoxInv, BlockInv, PoolInv, CoverInv, Next PROVE CoverInv'
    <2>1. ThreadInv' /\ BlockInv' /\ PoolInv'
      BY <1>1, InvStep, BlockNext, PoolNext
    <2>. QED
      BY <1>1, <2>1, CoverIpc, CoverMessages DEF Next
  <1>2. ASSUME CoverInv, UNCHANGED allVars PROVE CoverInv'
    <2>1. UNCHANGED <<entry, queue, wanted, set, freeCount, suspended, waitList, todo, stat, error>>
      BY <1>2 DEF allVars, ipcAndKernel, ipcVars, boxVars, vars, schedVars, threadVars, msgVars,
         eventVars, queueVars, poolVars
    <2>2. \A l : UNCHANGED Alert(l)
      BY <2>1 DEF Alert
    <2>3. MailCover' /\ QueueCover' /\ PoolCover'
      BY <1>2, <2>1, <2>2 DEF CoverInv, MailCover, QueueCover, PoolCover, Covered
    <2>4. EventCover'
      BY <1>2, <2>1, <2>2 DEF CoverInv, EventCover, GotSome, Met, Last
    <2>. QED
      BY <2>3, <2>4 DEF CoverInv
  <1>. QED
    BY <1>1, <1>2

LEMMA CoverInit ==
  MessagesInit => CoverInv
  <1>. SUFFICES ASSUME MessagesInit PROVE CoverInv
    OBVIOUS
  <1>1. /\ waitList = [l \in Lists |-> <<>>] /\ todo = [t \in Threads |-> <<>>] /\ suspended = 0
    BY DEF MessagesInit, IpcInit, Init
  <1>2. \A l \in Messaging : waitList[l] = <<>> /\ Elems(waitList[l]) = {}
    BY <1>1, ListsApart, EmptyFacts
  <1>3. Alert(Event) = {}
    <2>1. Reaches(<<>>, {}) /\ Event \in Lists
      BY ReachFacts, ListsApart DEF Messaging
    <2>2. ~Seeks(<<>>, Event)
      BY <2>1 DEF Reaches
    <2>. QED
      BY <1>1, <2>2 DEF Alert
  <1>4. MailCover /\ QueueCover /\ EventCover
    BY <1>2, <1>3 DEF Messaging, Mailing, MailCover, QueueCover, EventCover, Covered
  <1>5. PoolCover
    <2>1. waitList[Pool] = <<>> /\ Elems(waitList[Pool]) = {} /\ Cardinality({}) = 0
      BY <1>2, FS_EmptySet DEF Messaging
    <2>2. Covered(Pool, freeCount)
      BY <2>1 DEF Covered
    <2>3. Cardinality(Elems(waitList[Pool])) = 0
      BY <2>1
    <2>. QED
      BY <1>1, <2>2, <2>3 DEF PoolCover
  <1>. QED
    BY <1>4, <1>5 DEF CoverInv

\* Those that look do so in the last section of the call that waited.
LEMMA AlertLooks ==
  /\ Alert(Receivers) \subseteq Looking("recv_again")
  /\ Alert(Senders) \subseteq Looking("send_again")
  /\ Alert(Queue) \subseteq Looking("mq_again")
  /\ Alert(Pool) \subseteq Looking("mp_woken") \cup Looking("mp_again")
  <1>1. /\ \A e \in {"sem_end"} \X Sems \cup {"mutex_end"} \X Mutexes : e[2] \in Objects
        /\ \A e : IsEnd(e) /\ e[1] \in {"sem_end", "mutex_end"} => e[2] \in Objects
    BY DEF IsEnd, Objects
  <1>2. ASSUME NEW e, IsEnd(e)
        PROVE  /\ EndIn(e, Receivers) => e[1] = "recv_again"
               /\ EndIn(e, Senders) => e[1] = "send_again"
               /\ EndIn(e, Queue) => e[1] = "mq_again"
               /\ EndIn(e, Pool) => e[1] = "mp_woken"
    <2>1. \A l \in Messaging : EndIn(e, l) => e[1] \notin {"sem_end", "mutex_end"}
      BY <1>1, <1>2, ListsApart DEF EndIn
    <2>2. \A l \in Messaging : EndIn(e, l) =>
            \/ e[1] = "event_end" /\ l = Event
            \/ e[1] = "send_again" /\ l = Senders
            \/ e[1] = "recv_again" /\ l = Receivers
            \/ e[1] = "mq_again" /\ l = Queue
            \/ e[1] = "mp_woken" /\ l = Pool
      BY <2>1 DEF EndIn
    <2>. QED
      BY <2>2 DEF Messaging, Mailing, Receivers, Senders, Event, Queue, Pool
  <1>3. \A t : /\ Seeks(todo[t], Receivers) => todo[t] # <<>> /\ Last(t)[1] = "recv_again"
               /\ Seeks(todo[t], Senders) => todo[t] # <<>> /\ Last(t)[1] = "send_again"
               /\ Seeks(todo[t], Queue) => todo[t] # <<>> /\ Last(t)[1] = "mq_again"
               /\ Seeks(todo[t], Pool) => todo[t] # <<>> /\ Last(t)[1] \in {"mp_woken", "mp_again"}
    BY <1>2, ListsApart DEF Seeks, Working, WaitingIn, Waiting, Last
  <1>. QED
    BY <1>3 DEF Alert, Looking

LEMMA WakeUpsFacts ==
  ASSUME ThreadInv, WaitInv, BoxInv, BlockInv, PoolInv, CoverInv
  PROVE  WakeUpsCovered
  <1>1. ASSUME NEW l, NEW S, Alert(l) \subseteq S, S \subseteq Threads, NEW n \in Int,
               Covered(l, n), waitList[l] # <<>>
        PROVE  Cardinality(S) >= n
    <2>1. PICK A : A = Alert(l)
      OBVIOUS
    <2>2. IsFiniteSet(S) /\ A \subseteq S
      BY <1>1, <2>1, KernelAssumption, FS_Subset
    <2>3. IsFiniteSet(A) /\ Cardinality(A) <= Cardinality(S) /\ Cardinality(A) >= n
      BY <1>1, <2>1, <2>2, FS_Subset DEF Covered
    <2>4. Cardinality(A) \in Nat /\ Cardinality(S) \in Nat
      BY <2>2, <2>3, FS_CardinalityType
    <2>. QED
      BY <2>3, <2>4
  <1>2. \A a : Looking(a) \subseteq Threads
    BY DEF Looking
  <1>3. MailCovered
    <2>1. entry \in Int /\ BoxSize - entry \in Int
      BY IpcAssumption DEF BoxInv
    <2>2. PICK f \in Int : f = BoxSize - entry
      BY <2>1
    <2>3. waitList[Receivers] # <<>> => Cardinality(Looking("recv_again")) >= entry
      BY <1>1, <1>2, <2>1, AlertLooks DEF CoverInv, MailCover
    <2>4. waitList[Senders] # <<>> => Cardinality(Looking("send_again")) >= f
      BY <1>1, <1>2, <2>2, AlertLooks DEF CoverInv, MailCover
    <2>. QED
      BY <2>2, <2>3, <2>4 DEF MailCovered
  <1>4. waitList[Queue] # <<>> => Cardinality(Looking("mq_again")) >= Len(queue)
    <2>1. Len(queue) \in Int
      BY DEF BlockInv
    <2>. QED
      BY <1>1, <1>2, <2>1, AlertLooks DEF CoverInv, QueueCover
  <1>5. waitList[Pool] # <<>> =>
          Cardinality(Looking("mp_woken") \cup Looking("mp_again")) >= freeCount
    <2>1. /\ freeCount \in Int /\ Looking("mp_woken") \cup Looking("mp_again") \subseteq Threads
      BY <1>2 DEF PoolInv
    <2>. QED
      BY <1>1, <2>1, AlertLooks DEF CoverInv, PoolCover
  <1>6. ASSUME NEW t \in Threads, todo[t] # <<>>, Last(t)[1] = "event_end", error[t] = "ok",
               t \notin Elems(waitList[Event])
        PROVE  GotSome(t)
    <2>1. Event \in Lists /\ IsCall(todo[t])
      BY ListsApart DEF ThreadInv, ListInv, CallsRight, Messaging
    <2>2. WaitingIn(todo[t], Event)
      <3>1. Last(t) = todo[t][Len(todo[t])]
        BY DEF Last
      <3>2. \A e : IsEnd(e) /\ e[1] = "event_end" => EndIn(e, Event)
        BY DEF EndIn
      <3>3. \A u \in Threads : ~Starts(todo[t], u)
        BY <1>6, <3>1, LastFacts DEF Starts, Sch
      <3>4. IsEnd(Last(t))
        BY <1>6, <2>1, <3>1, <3>3, LastFacts DEF IsCall, IsWork, Sch
      <3>. QED
        BY <1>6, <3>1, <3>2, <3>4 DEF WaitingIn, Waiting
    <2>3. stat[t] = "ready"
      BY <1>6, <2>1, <2>2 DEF WaitInv
    <2>. QED
      BY <1>6, <2>2, <2>3 DEF Alert, Seeks, CoverInv, EventCover
  <1>7. BitsArrive
    BY <1>6 DEF BitsArrive, GotSome, CoverInv, EventCover
  <1>. QED
    BY <1>3, <1>4, <1>5, <1>7 DEF WakeUpsCovered

\* No wake-up is lost: while threads wait in the mailbox, in the message queue or in the pool, as
\* many others as there is to be had have been let go from there and are still to look
\* (rt_mb_send_wait, rt_mb_recv, rt_mq_send, rt_mp_free), whichever of them time out or are
\* overtaken by another that needs not wait; and a thread waits for bits of the event only while
\* it is not content with those set, and is let go with bits it asked for (rt_event_send).
THEOREM WakeUpsCoveredCorrect ==
  Spec /\ Unmanaged => []WakeUpsCovered
  <1>. DEFINE Inv == ThreadInv /\ WaitInv /\ BoxInv /\ BlockInv /\ PoolInv /\ CoverInv
  <1>1. MessagesInit /\ Unmanaged => Inv
    BY InvInit, WaitInit, BoxInit, BlockInit, PoolInit, CoverInit
  <1>2. Inv /\ [Next]_allVars => Inv'
    BY InvStep, WaitNext, BoxNext, BlockNext, PoolNext, CoverNext
  <1>3. Inv => WakeUpsCovered
    BY WakeUpsFacts
  <1>. QED
    BY <1>1, <1>2, <1>3, PTL DEF Spec
-----------------------------------------------------------------------------
\* Bounds: what stays within its bounds by guards alone, apart from what the invariants
\* above say of it.

ShareBounds ==
  /\ \A s \in Sems : permits[s] <= MaxPermits
  /\ \A m \in Mutexes : hold[m] <= MaxHold
  /\ \A t \in Threads : \A s \in Sems : taken[t][s] <= 1
TimeBounds ==
  /\ lockNest <= MaxNest /\ remaining \in [Threads -> 1 .. Slice]
  /\ spent \in [Threads -> 0 .. Half]
ListBounds == defunct \in Seq(Threads) /\ received \in Msgs /\ suspended \in 0 .. MaxSuspended

\* Nesting, slices and the time spent.
LEMMA TimeoutBounds ==
  ASSUME ThreadInv, TimeInv, NEW t \in Threads
  PROVE  Timeout(t) \in Int /\ Timeout(t) < Half
  <1>1. Half \in Nat /\ Half > 0 /\ Forever = -1
    BY KernelAssumption DEF Half, Forever
  <1>2. CASE todo[t] # <<>> /\ Last(t)[1] \in Looping
    <2>1. IsTime(Last(t)[Len(Last(t))])
      BY <1>2 DEF TimeInv, CallOnTime, Last
    <2>. QED
      BY <1>1, <1>2, <2>1 DEF Timeout, IsTime, Spans
  <1>3. CASE ~(todo[t] # <<>> /\ Last(t)[1] \in Looping)
    BY <1>1, <1>3 DEF Timeout
  <1>. QED
    BY <1>2, <1>3

LEMMA TimeBoundsTick ==
  ASSUME ThreadInv, TimeInv, TimeBounds, TickOfAll
  PROVE  TimeBounds'
  <1>1. current \in Threads /\ Slice \in Nat \ {0} /\ Half \in Nat
    BY KernelAssumption DEF ThreadInv, ListInv, CurrentRight, Half
  <1>2. /\ remaining' = [remaining EXCEPT ![current] = IF @ = 1 THEN Slice ELSE @ - 1]
        /\ spent' = [t \in Threads |-> IF spent[t] < Timeout(t) THEN spent[t] + 1 ELSE spent[t]]
        /\ lockNest' = lockNest
    BY DEF TickOfAll, Tick
  <1>3. remaining' \in [Threads -> 1 .. Slice]
    BY <1>1, <1>2 DEF TimeBounds
  <1>4. \A t \in Threads : spent[t] \in 0 .. Half /\ Timeout(t) \in Int /\ Timeout(t) < Half
    BY TimeoutBounds DEF TimeBounds
  <1>5. \A t \in Threads : (IF spent[t] < Timeout(t) THEN spent[t] + 1 ELSE spent[t]) \in 0 .. Half
    BY <1>1, <1>4
  <1>. QED
    BY <1>2, <1>3, <1>5 DEF TimeBounds

\* The other steps leave the slices alone, and nest only as far as they may.
Restarts == UNCHANGED spent \/ spent' = [spent EXCEPT ![current] = 0]

LEMMA TimeBoundsStay ==
  ASSUME ThreadInv, TimeBounds, Restarts, UNCHANGED remaining, lockNest' <= MaxNest
  PROVE  TimeBounds'
  <1>1. current \in Threads /\ Half \in Nat
    BY KernelAssumption DEF ThreadInv, ListInv, CurrentRight, Half
  <1>. QED
    BY <1>1 DEF TimeBounds, Restarts

LEMMA TimeBoundsKernel ==
  ASSUME ThreadInv, TimeBounds, Section \/ Call, UNCHANGED ipcVars
  PROVE  TimeBounds'
  <1>1. lockNest \in Nat /\ lockNest <= MaxNest /\ MaxNest \in Nat
    BY KernelAssumption DEF ThreadInv, KernelTypes, TimeBounds
  <1>2. UNCHANGED remaining /\ (UNCHANGED lockNest \/ EnterCritical \/ ExitCritical)
    <2>1. CASE Section
      BY <2>1 DEF Section, Schedule, Slept, SuspendNow, UnlinkNow, InsertNow, RemoveNow, StopNow,
                  CloseNow
    <2>2. CASE Call
      BY <2>2 DEF Call, Yield, EnterCritical, ExitCritical, Exit, IdleCleanup, Sleep, Startup,
                  Suspend, Resume, Detach, AboutThread, ChangePriority
    <2>. QED
      BY <2>1, <2>2
  <1>3. lockNest' <= MaxNest
    BY <1>1, <1>2 DEF EnterCritical, ExitCritical
  <1>. QED
    BY <1>2, <1>3, TimeBoundsStay DEF ipcVars, Restarts

LEMMA TimeBoundsCalls ==
  ASSUME (InCall /\ ~(Section /\ UNCHANGED ipcVars))
         \/ (ApplicationCall /\ ~(Call /\ UNCHANGED ipcVars)) \/ Handler
  PROVE  UNCHANGED <<remaining, lockNest>> /\ Restarts
  <1>1. CASE SemEnd \/ MutexEnd
    BY <1>1 DEF SemEnd, MutexEnd, Returns, Restarts
  <1>2. CASE SendAgain \/ ReceiveAgain
    BY <1>2 DEF SendAgain, ReceiveAgain, Fails, Works, WaitsAgain, SuspendOn, SuspendIn, Returns,
                Restarts
  <1>3. ASSUME NEW s, NEW n, SemRelease(s) \/ SemReleaseISR(s) \/ SemTake(s, n) \/ SemReset(s, n)
        PROVE  UNCHANGED <<remaining, lockNest>> /\ Restarts
    BY <1>3 DEF SemRelease, SemReleaseISR, SemTake, SemReset, SuspendOn, SuspendIn, Restarts
  <1>4. ASSUME NEW m, NEW n,
               MutexTakeAgain(m) \/ MutexTakeFree(m) \/ MutexRelease(m) \/ MutexTakeWait(m, n)
        PROVE  UNCHANGED <<remaining, lockNest>> /\ Restarts
    <2>1. CASE MutexTakeWait(m, n)
      <3>. DEFINE h == owner[m]
                  p == Inherited(h, current)
                  r == IF p # priority[h] THEN Reprioritized(ready, h, p) ELSE ready
                  next == <<"mutex_end", m>>
      <3>1. SuspendOn(m, n, r, next) /\ UNCHANGED <<remaining, lockNest>>
        BY <2>1 DEF MutexTakeWait
      <3>. HIDE DEF r, next
      <3>. QED
        BY <3>1 DEF SuspendOn, SuspendIn, Restarts
    <2>2. CASE MutexTakeAgain(m) \/ MutexTakeFree(m)
      BY <2>2 DEF MutexTakeAgain, MutexTakeFree, Restarts
    <2>3. CASE MutexRelease(m)
      BY <2>3 DEF MutexRelease, Restarts
    <2>. QED
      BY <1>4, <2>1, <2>2, <2>3
  <1>5. ASSUME NEW n, NEW x, Receive(n) \/ Send(x, n) \/ SendISR(x)
        PROVE  UNCHANGED <<remaining, lockNest>> /\ Restarts
    BY <1>5 DEF Receive, Send, SendISR, SuspendOn, SuspendIn, Restarts
  <1>6. CASE BoxReset
    BY <1>6 DEF BoxReset, Restarts
  <1>. QED
    BY <1>1, <1>2, <1>3, <1>4, <1>5, <1>6 DEF InCall, ApplicationCall, Handler

LEMMA TimeBoundsMessages ==
  ASSUME MsgInCall \/ MsgCall \/ MsgHandler
  PROVE  UNCHANGED <<remaining, lockNest>> /\ Restarts
  <1>1. CASE MsgInCall
    <2>1. CASE EventEnd \/ MqCopied \/ MpWoken \/ \E how \in Ways : MqLink(how)
      BY <2>1 DEF EventEnd, MqLink, MqCopied, MpWoken, Returns, Restarts, ipcVars
    <2>2. CASE MqReceiveAgain
      BY <2>2 DEF MqReceiveAgain, Fails, WaitsAgain, SuspendOn, SuspendIn, Returns, Restarts
    <2>3. CASE MpAgain
      BY <2>3 DEF MpAgain, WaitForBlock, SuspendIn, Restarts
    <2>. QED
      BY <1>1, <2>1, <2>2, <2>3 DEF MsgInCall
  <1>2. ASSUME NEW s, NEW all, NEW clear, NEW n,
               EventSend(s) \/ EventSendISR(s) \/ EventRecv(s, all, clear, n)
        PROVE  UNCHANGED <<remaining, lockNest>> /\ Restarts
    BY <1>2 DEF EventSend, EventSendISR, EventRecv, SuspendOn, SuspendIn, Restarts, ipcVars
  <1>3. ASSUME NEW how, NEW x, NEW n, MqSend(how, x) \/ MqSendISR(how, x) \/ MqReceive(n) \/ MpAlloc(n)
        PROVE  UNCHANGED <<remaining, lockNest>> /\ Restarts
    BY <1>3 DEF MqSend, MqSendISR, MqReceive, MpAlloc, WaitForBlock, SuspendOn, SuspendIn, Restarts,
                ipcVars
  <1>4. CASE EventReset \/ MqReset \/ MpFree
    BY <1>4 DEF EventReset, MqReset, MpFree, Restarts, ipcVars
  <1>. QED
    BY <1>1, <1>2, <1>3, <1>4 DEF MsgCall, MsgHandler

LEMMA TimeBoundsNext ==
  ThreadInv /\ TimeInv /\ TimeBounds /\ [Next]_allVars => TimeBounds'
  <1>0. TimeBounds => lockNest <= MaxNest
    BY DEF TimeBounds
  <1>1. ASSUME ThreadInv, TimeInv, TimeBounds, IpcNext PROVE TimeBounds'
    <2>1. CASE (Section \/ Call) /\ UNCHANGED ipcVars
      BY <1>1, <2>1, TimeBoundsKernel
    <2>2. CASE ~((Section \/ Call) /\ UNCHANGED ipcVars) /\ ~TickOfAll
      <3>1. UNCHANGED <<remaining, lockNest>> /\ Restarts
        BY <1>1, <2>2, TimeBoundsCalls DEF IpcNext
      <3>. QED
        BY <1>0, <1>1, <3>1, TimeBoundsStay
    <2>. QED
      BY <1>1, <2>1, <2>2, TimeBoundsTick
  <1>2. ASSUME ThreadInv, TimeBounds, MsgInCall \/ MsgCall \/ MsgHandler PROVE TimeBounds'
    <2>1. UNCHANGED <<remaining, lockNest>> /\ Restarts
      BY <1>2, TimeBoundsMessages
    <2>. QED
      BY <1>0, <1>2, <2>1, TimeBoundsStay
  <1>3. ASSUME TimeBounds, UNCHANGED allVars PROVE TimeBounds'
    BY <1>3 DEF TimeBounds, allVars, ipcAndKernel, vars, ipcVars
  <1>. QED
    BY <1>1, <1>2, <1>3 DEF Next

\* Permits and holds.
LEMMA ShareBoundsSem ==
  ASSUME SharesTyped, SharesTyped', ShareBounds, NEW s \in Sems, SemStep(s), UNCHANGED hold,
         current \in Threads
  PROVE  ShareBounds'
  <1>1. \/ UNCHANGED permits
        \/ \E k : k <= MaxPermits /\ permits' = [permits EXCEPT ![s] = k]
    <2>1. CASE SemRelease(s) \/ SemReleaseISR(s)
      <3>1. permits[s] \in Int /\ MaxPermits \in Nat
        BY IpcAssumption DEF SharesTyped
      <3>2. \/ UNCHANGED permits
            \/ permits[s] < MaxPermits /\ permits' = [permits EXCEPT ![s] = permits[s] + 1]
        BY <2>1 DEF SemRelease, SemReleaseISR
      <3>3. permits[s] < MaxPermits => permits[s] + 1 <= MaxPermits
        BY <3>1
      <3>. QED
        BY <3>2, <3>3
    <2>2. ASSUME NEW n \in Int, SemReset(s, n)
          PROVE  \E k : k <= MaxPermits /\ permits' = [permits EXCEPT ![s] = k]
      BY <2>2 DEF SemReset
    <2>3. ASSUME NEW n \in Int, SemTake(s, n) PROVE UNCHANGED permits
      BY <2>3 DEF SemTake, ghosts
    <2>. QED
      BY <2>1, <2>2, <2>3 DEF SemStep, SemEnd
  <1>2. UNCHANGED taken \/ \E k \in {0, 1} : taken' = [taken EXCEPT ![current][s] = k]
    <2>1. CASE SemRelease(s) \/ SemReleaseISR(s)
      BY <2>1 DEF SemRelease, SemReleaseISR
    <2>2. ASSUME NEW n \in Int, SemTake(s, n) \/ SemReset(s, n)
          PROVE  UNCHANGED taken \/ taken' = [taken EXCEPT ![current][s] = 1]
      BY <2>2 DEF SemTake, SemReset
    <2>3. CASE SemEnd /\ Subject = s
      BY <2>3 DEF SemEnd
    <2>. QED
      BY <2>1, <2>2, <2>3 DEF SemStep
  <1>3. \A r \in Sems : permits'[r] <= MaxPermits
    BY <1>1 DEF ShareBounds, SharesTyped
  <1>4. \A t \in Threads : \A r \in Sems : taken'[t][r] <= 1
    <2>1. CASE UNCHANGED taken
      BY <2>1 DEF ShareBounds
    <2>2. CASE \E k \in {0, 1} : taken' = [taken EXCEPT ![current][s] = k]
      <3>1. PICK k \in {0, 1} : taken' = [taken EXCEPT ![current][s] = k]
        BY <2>2
      <3>2. s \in Objects /\ Sems \subseteq Objects /\ k \in Nat /\ k <= 1
        BY DEF Objects
      <3>3. \A u \in Threads : \A p \in Objects :
              taken'[u][p] = IF u = current /\ p = s THEN k ELSE taken[u][p]
        BY <3>1, <3>2, TakenFacts DEF SharesTyped
      <3>. QED
        BY <3>2, <3>3 DEF ShareBounds
    <2>. QED
      BY <1>2, <2>1, <2>2
  <1>. QED
    BY <1>3, <1>4 DEF ShareBounds

LEMMA ShareBoundsMutex ==
  ASSUME ThreadInv, SharesTyped, ShareBounds, NEW m \in Mutexes, HoldOf(m), MutexStep(m),
         UNCHANGED permits
  PROVE  ShareBounds'
  <1>0. /\ MaxHold \in Nat \ {0} /\ current \in Threads /\ m \notin Sems /\ m \in Objects
        /\ Sems \subseteq Objects /\ hold \in [Mutexes -> Nat]
        /\ taken \in [Threads -> [Objects -> Nat]]
    BY ValuesFacts, IpcAssumption DEF SharesTyped
  <1>1. \/ UNCHANGED hold
        \/ \E k \in Int : k <= MaxHold /\ hold' = [hold EXCEPT ![m] = k]
    <2>1. CASE MutexTakeAgain(m)
      <3>1. hold[m] \in Nat /\ hold[m] < MaxHold /\ hold' = [hold EXCEPT ![m] = hold[m] + 1]
        BY <1>0, <2>1 DEF MutexTakeAgain
      <3>2. hold[m] + 1 \in Int /\ hold[m] + 1 <= MaxHold
        BY <1>0, <3>1
      <3>. QED
        BY <3>1, <3>2
    <2>2. CASE MutexTakeFree(m)
      <3>1. value[m] # 0 /\ hold' = [hold EXCEPT ![m] = hold[m] + 1]
        BY <1>0, <2>2, ValuesFacts DEF MutexTakeFree
      <3>2. hold[m] = 0
        BY <3>1 DEF ThreadInv, OwnersRight, HoldOf
      <3>3. 0 + 1 \in Int /\ 0 + 1 <= MaxHold
        BY <1>0
      <3>. QED
        BY <3>1, <3>2, <3>3
    <2>3. CASE MutexRelease(m)
      <3>1. \/ UNCHANGED hold
            \/ hold' = [hold EXCEPT ![m] = hold[m] - 1]
            \/ hold' = [hold EXCEPT ![m] = 0]
        BY <2>3 DEF MutexRelease
      <3>2. hold[m] \in Nat /\ hold[m] <= MaxHold
        BY <1>0 DEF ShareBounds
      <3>3. hold[m] - 1 \in Int /\ hold[m] - 1 <= MaxHold /\ 0 \in Int /\ 0 <= MaxHold
        BY <1>0, <3>2
      <3>. QED
        BY <3>1, <3>3
    <2>4. ASSUME NEW n \in Int, MutexTakeWait(m, n) PROVE UNCHANGED hold
      BY <2>4 DEF MutexTakeWait, mutexVars
    <2>5. CASE MutexEnd
      BY <2>5 DEF MutexEnd, mutexVars
    <2>. QED
      BY <2>1, <2>2, <2>3, <2>4, <2>5 DEF MutexStep
  <1>2. UNCHANGED taken \/ \E k : taken' = [taken EXCEPT ![current][m] = k]
    <2>1. CASE MutexTakeAgain(m) \/ MutexTakeFree(m) \/ MutexRelease(m)
      BY <2>1 DEF MutexTakeAgain, MutexTakeFree, MutexRelease
    <2>2. ASSUME NEW n \in Int, MutexTakeWait(m, n) PROVE UNCHANGED taken
      BY <2>2 DEF MutexTakeWait, ghosts
    <2>3. CASE MutexEnd /\ Subject = m
      BY <2>3 DEF MutexEnd
    <2>. QED
      BY <2>1, <2>2, <2>3 DEF MutexStep
  <1>3. \A k \in Mutexes : hold'[k] <= MaxHold
    BY <1>0, <1>1 DEF ShareBounds
  <1>4. \A t \in Threads : \A s \in Sems : taken'[t][s] = taken[t][s]
    BY <1>0, <1>2
  <1>. QED
    BY <1>3, <1>4 DEF ShareBounds

LEMMA ShareBoundsNext ==
  ThreadInv /\ WaitInv /\ ShareInv /\ ShareBounds /\ [Next]_allVars => ShareBounds'
  <1>1. ASSUME ThreadInv, WaitInv, ShareInv, ShareBounds, Next PROVE ShareBounds'
    <2>1. SharesTyped' /\ SharesTyped /\ \A m \in Mutexes : HoldOf(m)
      BY <1>1, InvStep, ShareStep DEF ShareInv
    <2>2. CASE SharesStay
      BY <1>1, <2>2 DEF SharesStay, ShareBounds
    <2>. QED
      BY <1>1, <2>1, <2>2, NextCases, ValuesFacts, ShareBoundsSem, ShareBoundsMutex
  <1>2. ASSUME ShareBounds, UNCHANGED allVars PROVE ShareBounds'
    BY <1>2 DEF ShareBounds, allVars, ipcAndKernel, ipcVars, mutexVars, ghosts
  <1>. QED
    BY <1>1, <1>2

\* The defunct threads, the last message and the threads counted as waiting for a block.
LEMMA DefunctKernel ==
  ASSUME ThreadInv, defunct \in Seq(Threads), Section \/ Call
  PROVE  defunct' \in Seq(Threads)
  <1>1. ~SuspendNow /\ ~RemoveNow /\ ~StopNow /\ ~CloseNow
    <2>1. \A s : At(s) /\ s # "schedule" => s \notin {"suspend", "remove", "stop", "close"}
      BY SectionFacts, HeadFacts
    <2>. QED
      BY <2>1 DEF SuspendNow, RemoveNow, StopNow, CloseNow
  <1>2. CASE UnlinkNow
    BY <1>2, WithoutFacts DEF UnlinkNow
  <1>3. CASE Exit
    <2>1. current \in Threads /\ defunct' = Closed(current)
      BY <1>3 DEF Exit, ThreadInv, ListInv, CurrentRight
    <2>. QED
      BY <2>1 DEF Closed
  <1>4. CASE IdleCleanup
    BY <1>4, TailFacts DEF IdleCleanup
  <1>5. CASE Section /\ ~UnlinkNow
    BY <1>1, <1>5 DEF Section, Schedule, Slept, InsertNow
  <1>6. CASE Call /\ ~Exit /\ ~IdleCleanup
    BY <1>6 DEF Call, Yield, EnterCritical, ExitCritical, Sleep, Startup, Suspend, Resume, Detach,
                AboutThread, ChangePriority
  <1>. QED
    BY <1>2, <1>3, <1>4, <1>5, <1>6

LEMMA ListBoundsIpc ==
  ASSUME ThreadInv, BoxInv, ListBounds, IpcNext, UNCHANGED msgVars
  PROVE  ListBounds'
  <1>1. pool[out] \in Msgs
    BY DEF BoxInv
  <1>2. UNCHANGED suspended
    BY DEF msgVars, poolVars
  <1>3. CASE (Section \/ Call) /\ UNCHANGED ipcVars
    BY <1>2, <1>3, DefunctKernel DEF ListBounds, ipcVars, ghosts
  <1>4. CASE TickOfAll
    BY <1>2, <1>4 DEF ListBounds, TickOfAll, Tick, ghosts
  <1>5. ASSUME UNCHANGED defunct, UNCHANGED received \/ received' = pool[out]
        PROVE  ListBounds'
    BY <1>1, <1>2, <1>5 DEF ListBounds
  <1>6. CASE SemEnd \/ MutexEnd \/ SendAgain \/ ReceiveAgain
    BY <1>5, <1>6 DEF SemEnd, MutexEnd, SendAgain, ReceiveAgain, Get, ghosts
  <1>7. ASSUME NEW s, NEW n, SemRelease(s) \/ SemReleaseISR(s) \/ SemTake(s, n) \/ SemReset(s, n)
        PROVE  ListBounds'
    BY <1>5, <1>7 DEF SemRelease, SemReleaseISR, SemTake, SemReset
  <1>8. ASSUME NEW m, NEW n,
               MutexTakeAgain(m) \/ MutexTakeFree(m) \/ MutexRelease(m) \/ MutexTakeWait(m, n)
        PROVE  ListBounds'
    <2>1. UNCHANGED <<defunct, received>>
      BY <1>8 DEF MutexTakeAgain, MutexTakeFree, MutexRelease, MutexTakeWait, ghosts
    <2>. QED
      BY <1>5, <2>1
  <1>9. ASSUME NEW n, NEW x, Receive(n) \/ Send(x, n) \/ SendISR(x) PROVE ListBounds'
    BY <1>5, <1>9 DEF Receive, Send, SendISR, Get, ghosts
  <1>10. CASE BoxReset
    BY <1>5, <1>10 DEF BoxReset, ghosts
  <1>. QED
    BY <1>3, <1>4, <1>6, <1>7, <1>8, <1>9, <1>10 DEF IpcNext, InCall, ApplicationCall, Handler

LEMMA ListBoundsMessages ==
  ASSUME ThreadInv, BlockInv, ListBounds, MsgInCall \/ MsgCall \/ MsgHandler
  PROVE  ListBounds'
  <1>1. ASSUME UNCHANGED <<defunct, received>>,
               UNCHANGED suspended \/ (suspended < MaxSuspended /\ suspended' = suspended + 1)
                 \/ (suspended > 0 /\ suspended' = suspended - 1)
        PROVE  ListBounds'
    <2>1. suspended \in 0 .. MaxSuspended /\ MaxSuspended \in Nat
      BY MessagesAssumption DEF ListBounds
    <2>2. suspended' \in 0 .. MaxSuspended
      BY <1>1, <2>1
    <2>. QED
      BY <1>1, <2>2 DEF ListBounds
  <1>2. CASE MqCopied
    <2>. DEFINE e == todo[current][1]
    <2>1. At("mq_copy") /\ received' = contents[Subject] /\ UNCHANGED <<defunct, suspended>>
      BY <1>2 DEF MqCopied, poolVars
    <2>2. "mq_copy" \in WorkNames /\ "mq_copy" \in Carrying
      BY DEF WorkNames, Carrying
    <2>3. /\ todo[current] = <<e>> /\ Head(todo[current]) = e /\ e[1] = "mq_copy"
          /\ current \in Threads
      BY <2>1, <2>2, LastSection
    <2>. HIDE DEF e
    <2>4. HandOf(todo[current]) = {e[2]}
      BY <2>2, <2>3, HandFacts DEF BlockOf
    <2>5. e[2] \in Blocks /\ Subject = e[2]
      BY <2>3, <2>4 DEF BlockInv, Apart, Hands, Subject
    <2>6. received' \in Msgs
      BY <2>1, <2>5 DEF BlockInv
    <2>. QED
      BY <2>1, <2>6 DEF ListBounds
  <1>3. CASE MsgInCall /\ ~MqCopied
    <2>1. CASE EventEnd \/ MpWoken \/ MqReceiveAgain \/ \E how \in Ways : MqLink(how)
      BY <1>1, <2>1 DEF EventEnd, MqLink, MpWoken, MqReceiveAgain, ipcVars, ghosts, msgVars, poolVars
    <2>2. CASE MpAgain
      BY <1>1, <2>2 DEF MpAgain, TakeBlock, WaitForBlock, ghosts, poolVars
    <2>. QED
      BY <1>3, <2>1, <2>2 DEF MsgInCall
  <1>4. ASSUME NEW s, NEW all, NEW clear, NEW n,
               EventSend(s) \/ EventSendISR(s) \/ EventRecv(s, all, clear, n)
        PROVE  ListBounds'
    BY <1>1, <1>4 DEF EventSend, EventSendISR, EventRecv, SetBits, ipcVars, ghosts, poolVars
  <1>5. ASSUME NEW how, NEW x, NEW n, MqSend(how, x) \/ MqSendISR(how, x) \/ MqReceive(n)
        PROVE  ListBounds'
    BY <1>1, <1>5 DEF MqSend, MqSendISR, MqReceive, ipcVars, ghosts, poolVars
  <1>6. ASSUME NEW n, MpAlloc(n) PROVE ListBounds'
    BY <1>1, <1>6 DEF MpAlloc, TakeBlock, WaitForBlock, ghosts
  <1>7. CASE EventReset \/ MqReset \/ MpFree
    BY <1>1, <1>7 DEF EventReset, MqReset, MpFree, ipcVars, ghosts, poolVars
  <1>. QED
    BY <1>2, <1>3, <1>4, <1>5, <1>6, <1>7 DEF MsgCall, MsgHandler

LEMMA ListBoundsNext ==
  ThreadInv /\ BoxInv /\ BlockInv /\ ListBounds /\ [Next]_allVars => ListBounds'
  <1>1. ASSUME ListBounds, UNCHANGED allVars PROVE ListBounds'
    BY <1>1 DEF ListBounds, allVars, ipcAndKernel, vars, ipcVars, ghosts, msgVars, poolVars
  <1>. QED
    BY <1>1, ListBoundsIpc, ListBoundsMessages DEF Next

\* Together.
Bounds == ShareBounds /\ TimeBounds /\ ListBounds

LEMMA BoundsInit ==
  MessagesInit => Bounds
  <1>. SUFFICES ASSUME MessagesInit PROVE Bounds
    OBVIOUS
  <1>1. /\ lockNest = 0 /\ remaining = [t \in Threads |-> Slice] /\ defunct = <<>>
        /\ spent = [t \in Threads |-> 0] /\ permits = [s \in Sems |-> Permits]
        /\ hold = [m \in Mutexes |-> 0] /\ taken = [t \in Threads |-> [o \in Objects |-> 0]]
        /\ \E x \in Msgs : received = x /\ suspended = 0
    BY DEF MessagesInit, IpcInit, Init
  <1>2. /\ MaxNest \in Nat /\ Slice \in Nat \ {0} /\ Half \in Nat /\ MaxSuspended \in Nat
        /\ MaxPermits \in Nat /\ Permits \in 0 .. MaxPermits /\ MaxHold \in Nat
    BY KernelAssumption, IpcAssumption, MessagesAssumption DEF Half
  <1>3. \A s \in Sems : s \in Objects
    BY DEF Objects
  <1>. QED
    BY <1>1, <1>2, <1>3 DEF Bounds, ShareBounds, TimeBounds, ListBounds

TypesInv == ThreadInv /\ TimeInv /\ WaitInv /\ ShareInv /\ BoxInv /\ BlockInv /\ PoolInv /\ Bounds

LEMMA TypesFacts ==
  TypesInv => TypeOK
  <1>. SUFFICES ASSUME TypesInv PROVE TypeOK
    OBVIOUS
  <1>1. KernelTypeOK
    <2>0. ReadyRight(ready, stat, priority) /\ KernelTypes /\ CurrentRight
      BY DEF TypesInv, ThreadInv, ListInv
    <2>1. /\ current \in Threads /\ stat \in [Threads -> Stats] /\ priority \in [Threads -> Prios]
          /\ ready \in ReadyType /\ lockNest \in Nat /\ tick \in Ticks /\ timers \in Seq(TimerSet)
          /\ waitList \in [Lists -> Seq(Threads)]
      BY <2>0 DEF KernelTypes, CurrentRight, ReadyRight
    <2>2. /\ lockNest <= MaxNest /\ remaining \in [Threads -> 1 .. Slice]
          /\ defunct \in Seq(Threads) /\ error \in [Threads -> Results]
      BY DEF TypesInv, Bounds, TimeBounds, ListBounds, WaitInv
    <2>3. lockNest \in 0 .. MaxNest
      BY <2>1, <2>2, KernelAssumption
    <2>4. left \in [Threads -> 0 .. Half]
      <3>1. Half \in Nat /\ \A n \in Spans : n \in 0 .. Half
        BY KernelAssumption DEF Half, Spans
      <3>. QED
        BY <3>1 DEF TypesInv, TimeInv
    <2>. QED
      BY <2>1, <2>2, <2>3, <2>4 DEF KernelTypeOK, Stats, ReadyType, TimerSet, Results
  <1>2. value \in [Objects -> 0 .. MaxPermits] /\ permits \in [Sems -> 0 .. MaxPermits]
    <2>1. /\ value \in [Objects -> Nat] /\ permits \in [Sems -> Int]
          /\ \A s \in Sems : permits[s] <= MaxPermits /\ PermitsOf(s) /\ s \in Objects
          /\ MaxPermits \in Nat \ {0} /\ Objects = Sems \cup Mutexes
      BY ValuesFacts, IpcAssumption DEF TypesInv, Bounds, ShareBounds, ShareInv, SharesTyped, Objects
    <2>2. ASSUME NEW s \in Sems PROVE value[s] <= permits[s] /\ permits[s] \in 0 .. MaxPermits
      <3>1. Cardinality(Having(s)) \in Nat
        BY <2>1, HavingIs, HavingSize DEF TypesInv
      <3>. QED
        BY <2>1, <3>1 DEF PermitsOf
    <2>3. ASSUME NEW m \in Mutexes PROVE value[m] <= MaxPermits
      BY <2>1 DEF TypesInv, ThreadInv, OwnersRight
    <2>4. \A o \in Objects : value[o] \in 0 .. MaxPermits
      BY <2>1, <2>2, <2>3
    <2>. QED
      BY <2>1, <2>2, <2>4
  <1>3. hold \in [Mutexes -> 0 .. MaxHold] /\ taken \in [Threads -> [Objects -> 0 .. MaxHold]]
    <2>1. /\ taken \in [Threads -> [Objects -> Nat]] /\ hold \in [Mutexes -> Nat]
          /\ \A m \in Mutexes : hold[m] <= MaxHold /\ HoldOf(m)
          /\ \A t \in Threads : \A s \in Sems : taken[t][s] <= 1
          /\ MaxHold \in Nat \ {0} /\ Objects = Sems \cup Mutexes
      BY IpcAssumption DEF TypesInv, Bounds, ShareBounds, ShareInv, SharesTyped, Objects
    <2>2. \A t \in Threads : \A m \in Mutexes : taken[t][m] <= MaxHold
      BY <2>1 DEF HoldOf
    <2>3. \A t \in Threads : \A o \in Objects : taken[t][o] \in 0 .. MaxHold
      BY <2>1, <2>2
    <2>4. \A t \in Threads : taken[t] \in [Objects -> 0 .. MaxHold]
      BY <2>1, <2>3
    <2>5. \A m \in Mutexes : hold[m] \in 0 .. MaxHold
      BY <2>1
    <2>. QED
      BY <2>1, <2>4, <2>5
  <1>4. /\ owner \in [Mutexes -> Threads \cup {NoThread}] /\ original \in [Mutexes -> 0 .. Never]
        /\ set \subseteq Bits
        /\ wanted \in [Threads -> [bits : SUBSET Bits, all : BOOLEAN, clear : BOOLEAN]]
        /\ spent \in [Threads -> 0 .. Half] /\ received \in Msgs /\ suspended \in 0 .. MaxSuspended
    BY DEF TypesInv, ThreadInv, KernelTypes, WantedType, Bounds, TimeBounds, ListBounds
  <1>5. /\ pool \in [0 .. BoxSize - 1 -> Msgs] /\ entry \in 0 .. BoxSize
        /\ in \in 0 .. BoxSize - 1 /\ out \in 0 .. BoxSize - 1
    <2>1. BoxSize \in Nat \ {0} /\ BoxInv
      BY IpcAssumption DEF TypesInv
    <2>2. \A i \in Nat : i % BoxSize \in 0 .. BoxSize - 1
      BY <2>1
    <2>3. out + entry \in Nat
      BY <2>1 DEF BoxInv
    <2>. QED
      BY <2>1, <2>2, <2>3 DEF BoxInv
  <1>6. freeCount \in 0 .. PoolSize /\ blocks \in [Threads -> 0 .. PoolSize]
    <2>. DEFINE S == {t \in Threads : blocks[t] = 1}
    <2>1. /\ PoolSize \in Nat /\ freeCount \in Nat /\ blocks \in [Threads -> {0, 1}]
          /\ freeCount + Cardinality(S) = PoolSize
      BY MessagesAssumption DEF TypesInv, PoolInv
    <2>2. IsFiniteSet(S) /\ Cardinality(S) \in Nat
      BY KernelAssumption, FS_Subset, FS_CardinalityType
    <2>3. S # {} => Cardinality(S) # 0
      BY <2>2, FS_EmptySet
    <2>4. ASSUME NEW t \in Threads PROVE blocks[t] \in 0 .. PoolSize
      <3>1. blocks[t] = 0 \/ (blocks[t] = 1 /\ S # {})
        BY <2>1
      <3>. HIDE DEF S
      <3>. QED
        BY <2>1, <2>2, <2>3, <3>1
    <2>. HIDE DEF S
    <2>5. freeCount \in 0 .. PoolSize
      BY <2>1, <2>2
    <2>. QED
      BY <2>1, <2>4, <2>5
  <1>7. free \in Seq(Blocks) /\ queue \in Seq(Blocks) /\ contents \in [Blocks -> Msgs]
    BY DEF TypesInv, BlockInv
  <1>. QED
    BY <1>1, <1>2, <1>3, <1>4, <1>5, <1>6, <1>7 DEF TypeOK, IpcTypeOK

\* Every count and every list stays within the bounds its variable has, whatever is nested,
\* shared, resumed or timed out: no permit, hold or place of the mailbox goes below zero or above
\* what there is of it, no offset leaves the mailbox and no time left half the range of the tick
\* count, and what is received is a message (scheduler.c, thread.c, timer.c, ipc.c, mempool.c).
THEOREM TypesCorrect ==
  Spec /\ Unmanaged => []TypeOK
  <1>1. MessagesInit /\ Unmanaged => TypesInv
    BY InvInit, TimeInit, WaitInit, ShareInit, BoxInit, BlockInit, PoolInit, BoundsInit DEF TypesInv
  <1>2. TypesInv /\ [Next]_allVars => TypesInv'
    BY InvStep, TimeStep, WaitNext, ShareNext, BoxNext, BlockNext, PoolNext, ShareBoundsNext,
       TimeBoundsNext, ListBoundsNext DEF TypesInv, Bounds
  <1>3. TypesInv => TypeOK
    BY TypesFacts
  <1>. QED
    BY <1>1, <1>2, <1>3, PTL DEF Spec
================================================================================
