-------------------------- MODULE FrEventGroupProofs --------------------------
(***************************************************************************)
(* Theorems about event groups, for any number of tasks and bits and any   *)
(* applications; about co-routines, for any number of them, priorities and *)
(* delays, any queue length and width of the tick count; and about the     *)
(* memory heaps of RT-Thread, for any size of the pool and of a header.    *)
(***************************************************************************)
EXTENDS FrEventGroup, FrCoRoutine, RttMemHeap, SequenceTheorems, FiniteSetTheorems, TLAPS

\* What an application is; at a rendezvous each task has a bit of its own.
Calls == {"wait", "sync", "set", "clear", "delete"}
EventAssumption ==
  /\ Styles \subseteq [users : SUBSET Tasks, bits : SUBSET Bits, calls : SUBSET Calls,
                       waits : SUBSET Waits, rounds : Nat]
  /\ OwnBit \in [Tasks -> Bits]
  /\ \A t, u \in Tasks : OwnBit[t] = OwnBit[u] => t = u

\* The invariant behind the first three properties.
EventInv ==
  /\ EventTypeOK /\ entered \in [Tasks -> Nat] /\ left \in [Tasks -> Nat]
  /\ NobodyOverlooked /\ NoBitLost /\ ToldRight

\* The invariant behind the rendezvous: the bits are those of the tasks that wait, each
\* for all bits; and all tasks are in the same round, a task that waits or was not yet
\* resumed having entered it and not left it.
OnlyMeets == style.calls = {"sync"} /\ style.waits = {"forever"}
AllBits == {OwnBit[u] : u \in Tasks}
WaitsForAll(t) ==
  /\ op[t].sync /\ op[t].all /\ op[t].clear /\ op[t].wait = "forever" /\ op[t].bits = AllBits
  /\ t \in xTasksWaitingForBits \/ woken[t].unblocked
Round(t) == IF t \in xTasksWaitingForBits THEN left[t] ELSE entered[t]
MeetingInv ==
  /\ ~deleted
  /\ \A t \in Tasks : IF pc[t] = "blocked" THEN entered[t] = left[t] + 1 /\ WaitsForAll(t)
                                           ELSE entered[t] = left[t]
  /\ uxEventBits = {OwnBit[u] : u \in xTasksWaitingForBits}
  /\ \A t, u \in Tasks : Round(t) = Round(u)

\* A condition met by fewer bits is met by more.
LEMMA MoreBitsMeet ==
  ASSUME NEW few, NEW many, NEW o, few \subseteq many, Met(few, o)
  PROVE  Met(many, o)
  BY DEF Met

\* What is cleared on exit was seen.
LEMMA ClearedWasSeen ==
  ASSUME NEW ts
  PROVE  ClearedFor(ts) \subseteq SeenBy(ts)
  <1>1. \A o : CleanedBy(o) \subseteq Seen(o)
    BY DEF CleanedBy, Seen
  <1>. QED
    BY <1>1 DEF ClearedFor, SeenBy

\* Who is told the bits, of those that wait, and what the others wait for.
LEMMA MatchedFacts ==
  ASSUME NEW bits
  PROVE  /\ Matched(bits) \subseteq xTasksWaitingForBits
         /\ \A u \in Matched(bits) : Met(bits, op[u])
         /\ \A u \in xTasksWaitingForBits \ Matched(bits) : ~Met(bits, op[u])
  BY DEF Matched

LEMMA TypeFacts ==
  ASSUME EventAssumption, EventInv
  PROVE  /\ style.users \subseteq Tasks /\ style.bits \subseteq Bits /\ style.waits \subseteq Waits
         /\ style.rounds \in Nat /\ style.calls \subseteq Calls
         /\ \A bits \in SUBSET Bits : Told(bits) \in [unblocked : BOOLEAN, bits : SUBSET Bits]
         /\ Untold \in [unblocked : BOOLEAN, bits : SUBSET Bits]
         /\ Told({}) \in [unblocked : BOOLEAN, bits : SUBSET Bits]
         /\ \A bits : Told(bits).unblocked /\ Told(bits).bits = bits
         /\ ~Untold.unblocked
         /\ \A t \in Tasks : op[t] \in WaitOps \cup {NoOp}
         /\ \A t \in Tasks : pc[t] \in {"idle", "blocked"}
  BY DEF EventAssumption, EventInv, EventTypeOK, Told, Untold

LEMMA EventInvInit ==
  ASSUME EventAssumption, EventInit
  PROVE  EventInv
  <1>1. EventTypeOK /\ entered \in [Tasks -> Nat] /\ left \in [Tasks -> Nat]
    BY DEF EventInit, EventTypeOK, Untold
  <1>2. NobodyOverlooked /\ NoBitLost /\ ToldRight
    BY DEF EventInit, NobodyOverlooked, NoBitLost, ToldRight, Untold
  <1>. QED
    BY <1>1, <1>2 DEF EventInv

\* Waking those whose condition is met by the bits at hand, and clearing what they clear.
LEMMA WokenKeeps ==
  ASSUME EventAssumption, EventInv, NEW now \in SUBSET Bits, Woken(Matched(now), now),
         uxEventBits \subseteq now, style' = style, op' = op, pc' = pc, deleted' = deleted,
         uxEventBits' = now \ ClearedFor(Matched(now))
  PROVE  /\ EventTypeOK' /\ NobodyOverlooked' /\ ToldRight'
         /\ xTasksWaitingForBits' = xTasksWaitingForBits \ Matched(now)
  <1>1. /\ xTasksWaitingForBits' = xTasksWaitingForBits \ Matched(now)
        /\ woken' = [t \in Tasks |-> IF t \in Matched(now) THEN Told(now) ELSE woken[t]]
    BY DEF Woken
  <1>2. EventTypeOK'
    BY <1>1, TypeFacts DEF EventInv, EventTypeOK
  <1>3. NobodyOverlooked'
    <2>. SUFFICES ASSUME NEW u \in xTasksWaitingForBits \ Matched(now)
                  PROVE  pc[u] = "blocked" /\ ~Met(uxEventBits', op[u])
      BY <1>1 DEF NobodyOverlooked, Met
    <2>1. ~Met(now, op[u])
      BY MatchedFacts
    <2>2. uxEventBits' \subseteq now
      OBVIOUS
    <2>. QED
      BY <2>1, <2>2, MoreBitsMeet DEF EventInv, NobodyOverlooked
  <1>4. ToldRight'
    <2>. SUFFICES ASSUME NEW u \in Tasks, woken'[u].unblocked, ~deleted
                  PROVE  /\ pc[u] = "blocked" /\ u \notin xTasksWaitingForBits'
                         /\ Met(woken'[u].bits, op[u])
      BY DEF ToldRight, Met
    <2>1. CASE u \in Matched(now)
      <3>1. woken'[u].bits = now
        BY <1>1, <2>1, TypeFacts
      <3>2. u \in xTasksWaitingForBits /\ Met(now, op[u])
        BY <2>1, MatchedFacts
      <3>. QED
        BY <1>1, <2>1, <3>1, <3>2 DEF EventInv, NobodyOverlooked
    <2>2. CASE u \notin Matched(now)
      <3>1. woken'[u] = woken[u]
        BY <1>1, <2>2
      <3>. QED
        BY <1>1, <3>1 DEF EventInv, ToldRight
    <2>. QED
      BY <2>1, <2>2
  <1>. QED
    BY <1>1, <1>2, <1>3, <1>4

LEMMA SetBitsKeeps ==
  ASSUME EventAssumption, EventInv, style' = style, NEW bits \in SUBSET style.bits, SetBits(bits)
  PROVE  EventInv'
  <1>. DEFINE now == uxEventBits \cup bits
  <1>1. now \in SUBSET Bits /\ uxEventBits \subseteq now
    BY TypeFacts DEF EventInv, EventTypeOK
  <1>2. /\ Woken(Matched(now), now) /\ uxEventBits' = now \ ClearedFor(Matched(now))
        /\ unseen' = (unseen \cup bits) \ SeenBy(Matched(now))
        /\ UNCHANGED <<pc, op, deleted, entered, left>>
    BY DEF SetBits
  <1>3. NoBitLost'
    <2>1. unseen \cup bits \subseteq now
      BY DEF EventInv, NoBitLost
    <2>. HIDE DEF now
    <2>. QED
      BY <1>2, <2>1, ClearedWasSeen DEF NoBitLost
  <1>. HIDE DEF now
  <1>4. EventTypeOK' /\ NobodyOverlooked' /\ ToldRight'
    BY <1>1, <1>2, WokenKeeps
  <1>. QED
    BY <1>2, <1>3, <1>4 DEF EventInv

LEMMA ClearBitsKeeps ==
  ASSUME EventInv, style' = style, NEW bits \in SUBSET style.bits, ClearBits(bits)
  PROVE  EventInv'
  <1>1. /\ uxEventBits' = uxEventBits \ bits /\ unseen' = unseen \ bits
        /\ UNCHANGED <<xTasksWaitingForBits, pc, op, woken, deleted, entered, left>>
    BY DEF ClearBits
  <1>2. EventTypeOK' /\ NoBitLost'
    BY <1>1 DEF EventInv, EventTypeOK, NoBitLost
  <1>3. NobodyOverlooked'
    BY <1>1, MoreBitsMeet DEF EventInv, NobodyOverlooked, Met
  <1>4. ToldRight'
    BY <1>1 DEF EventInv, ToldRight, Met
  <1>. QED
    BY <1>1, <1>2, <1>3, <1>4 DEF EventInv

LEMMA DeleteKeeps ==
  ASSUME EventAssumption, EventInv, style' = style, Delete
  PROVE  EventInv'
  <1>1. /\ xTasksWaitingForBits' = {} /\ deleted' = TRUE
        /\ woken' = [t \in Tasks |-> IF t \in xTasksWaitingForBits THEN Told({}) ELSE woken[t]]
        /\ UNCHANGED <<uxEventBits, pc, op, unseen, entered, left>>
    BY DEF Delete, Woken
  <1>2. EventTypeOK'
    BY <1>1, TypeFacts DEF EventInv, EventTypeOK
  <1>3. NobodyOverlooked' /\ NoBitLost' /\ ToldRight'
    BY <1>1 DEF EventInv, NobodyOverlooked, NoBitLost, ToldRight
  <1>. QED
    BY <1>1, <1>2, <1>3 DEF EventInv

LEMMA TimedOutKeeps ==
  ASSUME EventInv, style' = style, NEW t \in Tasks, TimedOut(t)
  PROVE  EventInv'
  <1>1. /\ xTasksWaitingForBits' = xTasksWaitingForBits \ {t}
        /\ UNCHANGED <<uxEventBits, pc, op, woken, deleted, unseen, entered, left>>
    BY DEF TimedOut
  <1>2. EventTypeOK' /\ NoBitLost'
    BY <1>1 DEF EventInv, EventTypeOK, NoBitLost
  <1>3. NobodyOverlooked' /\ ToldRight'
    BY <1>1 DEF EventInv, NobodyOverlooked, ToldRight, Met
  <1>. QED
    BY <1>1, <1>2, <1>3 DEF EventInv

LEMMA ResumeKeeps ==
  ASSUME EventAssumption, EventInv, style' = style, NEW t \in Tasks, Resume(t)
  PROVE  EventInv'
  <1>1. /\ pc' = [pc EXCEPT ![t] = "idle"] /\ op' = [op EXCEPT ![t] = NoOp]
        /\ woken' = [woken EXCEPT ![t] = Untold] /\ t \notin xTasksWaitingForBits
        /\ UNCHANGED <<xTasksWaitingForBits, deleted, entered>>
    BY DEF Resume
  <1>2. \/ uxEventBits' = uxEventBits /\ unseen' = unseen
        \/ uxEventBits' = uxEventBits \ CleanedBy(op[t]) /\ unseen' = unseen \ Seen(op[t])
    BY DEF Resume
  <1>3. left' \in [Tasks -> Nat]
    BY DEF Resume, EventInv
  <1>4. uxEventBits' \subseteq uxEventBits
    BY <1>2
  <1>5. EventTypeOK'
    BY <1>1, <1>4, TypeFacts DEF EventInv, EventTypeOK
  <1>6. NoBitLost'
    BY <1>2 DEF EventInv, NoBitLost, CleanedBy, Seen
  <1>7. NobodyOverlooked'
    <2>. SUFFICES ASSUME NEW u \in xTasksWaitingForBits
                  PROVE  pc'[u] = "blocked" /\ ~Met(uxEventBits', op'[u])
      BY <1>1 DEF NobodyOverlooked, Met
    <2>1. u # t /\ u \in Tasks
      BY <1>1 DEF EventInv, EventTypeOK
    <2>2. pc'[u] = pc[u] /\ op'[u] = op[u]
      BY <1>1, <2>1 DEF EventInv, EventTypeOK
    <2>3. pc[u] = "blocked" /\ ~Met(uxEventBits, op[u])
      BY DEF EventInv, NobodyOverlooked
    <2>. QED
      BY <1>4, <2>2, <2>3, MoreBitsMeet
  <1>8. ToldRight'
    <2>. SUFFICES ASSUME NEW u \in Tasks, woken'[u].unblocked, ~deleted
                  PROVE  /\ pc'[u] = "blocked" /\ u \notin xTasksWaitingForBits
                         /\ Met(woken'[u].bits, op'[u])
      BY <1>1 DEF ToldRight, Met
    <2>1. u # t
      BY <1>1, TypeFacts DEF EventInv, EventTypeOK
    <2>2. pc'[u] = pc[u] /\ op'[u] = op[u] /\ woken'[u] = woken[u]
      BY <1>1, <2>1 DEF EventInv, EventTypeOK
    <2>. QED
      BY <2>2 DEF EventInv, ToldRight
  <1>. QED
    BY <1>1, <1>3, <1>5, <1>6, <1>7, <1>8 DEF EventInv

LEMMA WaitBitsKeeps ==
  ASSUME EventAssumption, EventInv, style' = style, ~deleted, NEW t \in Tasks,
         NEW o \in WaitOps, WaitBits(t, o)
  PROVE  EventInv'
  <1>1. pc[t] = "idle" /\ UNCHANGED <<deleted, entered, left>>
    BY DEF WaitBits
  <1>2. CASE /\ uxEventBits' = uxEventBits \ CleanedBy(o) /\ unseen' = unseen \ Seen(o)
             /\ UNCHANGED <<xTasksWaitingForBits, pc, op, woken>>
    <2>1. uxEventBits' \subseteq uxEventBits
      BY <1>2
    <2>2. EventTypeOK'
      BY <1>1, <1>2, <2>1 DEF EventInv, EventTypeOK
    <2>3. NoBitLost'
      BY <1>2 DEF EventInv, NoBitLost, CleanedBy, Seen
    <2>4. NobodyOverlooked'
      BY <1>2, <2>1, MoreBitsMeet DEF EventInv, NobodyOverlooked, Met
    <2>5. ToldRight'
      BY <1>1, <1>2 DEF EventInv, ToldRight, Met
    <2>. QED
      BY <1>1, <2>2, <2>3, <2>4, <2>5 DEF EventInv
  <1>3. CASE UNCHANGED <<uxEventBits, xTasksWaitingForBits, pc, op, woken, unseen>>
    BY <1>1, <1>3 DEF EventInv, EventTypeOK, NoBitLost, NobodyOverlooked, ToldRight, Met
  <1>4. CASE /\ ~Met(uxEventBits, o)
             /\ xTasksWaitingForBits' = xTasksWaitingForBits \cup {t}
             /\ woken' = [woken EXCEPT ![t] = Untold]
             /\ pc' = [pc EXCEPT ![t] = "blocked"] /\ op' = [op EXCEPT ![t] = o]
             /\ UNCHANGED <<uxEventBits, unseen>>
    <2>1. EventTypeOK' /\ NoBitLost'
      BY <1>1, <1>4, TypeFacts DEF EventInv, EventTypeOK, NoBitLost
    <2>2. \A u \in Tasks \ {t} : pc'[u] = pc[u] /\ op'[u] = op[u] /\ woken'[u] = woken[u]
      BY <1>4 DEF EventInv, EventTypeOK
    <2>3. pc'[t] = "blocked" /\ op'[t] = o /\ ~woken'[t].unblocked
      BY <1>4, TypeFacts DEF EventInv, EventTypeOK
    <2>4. NobodyOverlooked'
      <3>. SUFFICES ASSUME NEW u \in xTasksWaitingForBits \cup {t}
                    PROVE  pc'[u] = "blocked" /\ ~Met(uxEventBits, op'[u])
        BY <1>4 DEF NobodyOverlooked, Met
      <3>1. u \in Tasks
        BY DEF EventInv, EventTypeOK
      <3>. QED
        BY <1>4, <2>2, <2>3, <3>1 DEF EventInv, NobodyOverlooked
    <2>5. ToldRight'
      <3>. SUFFICES ASSUME NEW u \in Tasks, woken'[u].unblocked, ~deleted
                    PROVE  /\ pc'[u] = "blocked" /\ u \notin xTasksWaitingForBits'
                           /\ Met(woken'[u].bits, op'[u])
        BY <1>1 DEF ToldRight, Met
      <3>1. u # t
        BY <2>3
      <3>. QED
        BY <1>4, <2>2, <3>1 DEF EventInv, ToldRight
    <2>. QED
      BY <1>1, <2>1, <2>4, <2>5 DEF EventInv
  <1>. QED
    BY <1>2, <1>3, <1>4 DEF WaitBits

\* What xEventGroupSync() does: t meets the others and leaves, or does not find all.
SyncOp(wait) == [bits |-> AllBits, clear |-> TRUE, all |-> TRUE, wait |-> wait, sync |-> TRUE]
Entered(t) ==
  pc[t] = "idle" /\ entered' = [entered EXCEPT ![t] = @ + 1] /\ deleted' = deleted
MeetsAll(t, bits) ==
  /\ AllBits \subseteq bits
  /\ Woken(Matched(bits), bits)
  /\ uxEventBits' = (bits \ ClearedFor(Matched(bits))) \ AllBits
  /\ unseen' = unseen \ (AllBits \cup SeenBy(Matched(bits)))
  /\ left' = [left EXCEPT ![t] = @ + 1]
  /\ UNCHANGED <<pc, op>>
MissesSome(t, wait, bits) ==
  /\ ~(AllBits \subseteq bits)
  /\ xTasksWaitingForBits' =
       (xTasksWaitingForBits \ Matched(bits)) \cup (IF wait = "none" THEN {} ELSE {t})
  /\ woken' = [u \in Tasks |-> IF u \in Matched(bits) THEN Told(bits)
                               ELSE IF u = t THEN Untold ELSE woken[u]]
  /\ uxEventBits' = bits \ ClearedFor(Matched(bits))
  /\ unseen' = (unseen \cup {OwnBit[t]}) \ SeenBy(Matched(bits))
  /\ pc' = [pc EXCEPT ![t] = IF wait = "none" THEN "idle" ELSE "blocked"]
  /\ op' = [op EXCEPT ![t] = IF wait = "none" THEN @ ELSE SyncOp(wait)]
  /\ UNCHANGED left

LEMMA SyncFacts ==
  ASSUME NEW t, NEW wait, Sync(t, wait)
  PROVE  /\ Entered(t) /\ t \in style.users /\ wait \in style.waits
         /\ \/ MeetsAll(t, uxEventBits \cup {OwnBit[t]})
            \/ MissesSome(t, wait, uxEventBits \cup {OwnBit[t]})
  BY DEF Sync, Entered, MeetsAll, MissesSome, SyncOp, AllBits, Met

LEMMA SyncKeeps ==
  ASSUME EventAssumption, EventInv, style' = style, ~deleted, NEW t \in Tasks,
         NEW wait \in Waits, Sync(t, wait)
  PROVE  EventInv'
  <1>. DEFINE bits == uxEventBits \cup {OwnBit[t]}
  <1>1. /\ bits \in SUBSET Bits /\ AllBits \in SUBSET Bits /\ AllBits # {}
        /\ uxEventBits \subseteq bits /\ OwnBit[t] \in AllBits
    BY DEF EventAssumption, EventInv, EventTypeOK, AllBits
  <1>2. unseen \cup {OwnBit[t]} \subseteq bits
    BY DEF EventInv, NoBitLost
  <1>3. Entered(t) /\ (MeetsAll(t, bits) \/ MissesSome(t, wait, bits))
    BY SyncFacts
  <1>4. SyncOp(wait) \in WaitOps
    <2>1. AllBits \in (SUBSET Bits) \ {{}}
      BY <1>1
    <2>2. ASSUME NEW S, AllBits \in S
          PROVE  SyncOp(wait) \in [bits : S, clear : BOOLEAN, all : BOOLEAN, wait : Waits,
                                   sync : BOOLEAN]
      BY <2>2 DEF SyncOp
    <2>. QED
      BY <2>1, <2>2 DEF WaitOps
  <1>. HIDE DEF bits
  <1>5. entered' \in [Tasks -> Nat] /\ left' \in [Tasks -> Nat]
    BY <1>3 DEF EventInv, Entered, MeetsAll, MissesSome
  <1>6. /\ pc[t] = "idle" /\ deleted' = deleted /\ t \notin xTasksWaitingForBits
        /\ t \notin Matched(bits)
    BY <1>3, MatchedFacts DEF EventInv, NobodyOverlooked, Entered
  <1>7. \A u \in Matched(bits) : u \in Tasks /\ pc[u] = "blocked" /\ Met(bits, op[u]) /\ u # t
    BY <1>6, MatchedFacts DEF EventInv, EventTypeOK, NobodyOverlooked
  <1>8. uxEventBits' \subseteq bits
    BY <1>3 DEF MeetsAll, MissesSome
  <1>9. NoBitLost'
    BY <1>2, <1>3, ClearedWasSeen DEF NoBitLost, MeetsAll, MissesSome
  <1>10. CASE MeetsAll(t, bits)
    <2>1. /\ xTasksWaitingForBits' = xTasksWaitingForBits \ Matched(bits)
          /\ woken' = [u \in Tasks |-> IF u \in Matched(bits) THEN Told(bits) ELSE woken[u]]
          /\ pc' = pc /\ op' = op
      BY <1>10 DEF MeetsAll, Woken
    <2>2. EventTypeOK'
      BY <1>1, <1>6, <1>8, <2>1, TypeFacts DEF EventInv, EventTypeOK
    <2>3. NobodyOverlooked'
      <3>. SUFFICES ASSUME NEW u \in xTasksWaitingForBits \ Matched(bits)
                    PROVE  pc[u] = "blocked" /\ ~Met(uxEventBits', op[u])
        BY <2>1 DEF NobodyOverlooked, Met
      <3>. QED
        BY <1>8, MatchedFacts, MoreBitsMeet DEF EventInv, NobodyOverlooked
    <2>4. ToldRight'
      <3>. SUFFICES ASSUME NEW u \in Tasks, woken'[u].unblocked, ~deleted
                    PROVE  /\ pc[u] = "blocked" /\ u \notin xTasksWaitingForBits'
                           /\ Met(woken'[u].bits, op[u])
        BY <1>6, <2>1 DEF ToldRight, Met
      <3>1. CASE u \in Matched(bits)
        BY <1>7, <2>1, <3>1, TypeFacts
      <3>2. CASE u \notin Matched(bits)
        BY <2>1, <3>2 DEF EventInv, ToldRight
      <3>. QED
        BY <3>1, <3>2
    <2>. QED
      BY <1>5, <1>9, <2>2, <2>3, <2>4 DEF EventInv
  <1>11. CASE MissesSome(t, wait, bits)
    <2>1. /\ xTasksWaitingForBits' =
               (xTasksWaitingForBits \ Matched(bits)) \cup (IF wait = "none" THEN {} ELSE {t})
          /\ woken' = [u \in Tasks |-> IF u \in Matched(bits) THEN Told(bits)
                                       ELSE IF u = t THEN Untold ELSE woken[u]]
          /\ pc' = [pc EXCEPT ![t] = IF wait = "none" THEN "idle" ELSE "blocked"]
          /\ op' = [op EXCEPT ![t] = IF wait = "none" THEN op[t] ELSE SyncOp(wait)]
      BY <1>11 DEF MissesSome
    <2>2. EventTypeOK'
      BY <1>1, <1>4, <1>6, <1>8, <2>1, TypeFacts DEF EventInv, EventTypeOK
    <2>3. \A u \in Tasks \ {t} : pc'[u] = pc[u] /\ op'[u] = op[u]
      BY <2>1 DEF EventInv, EventTypeOK
    <2>4. ~Met(bits, SyncOp(wait))
      BY <1>11 DEF MissesSome, Met, SyncOp
    <2>5. NobodyOverlooked'
      <3>. SUFFICES ASSUME NEW u \in xTasksWaitingForBits'
                    PROVE  pc'[u] = "blocked" /\ ~Met(uxEventBits', op'[u])
        BY DEF NobodyOverlooked, Met
      <3>1. CASE u = t
        <4>1. wait # "none"
          BY <1>6, <2>1, <3>1
        <4>2. pc'[t] = "blocked" /\ op'[t] = SyncOp(wait)
          BY <2>1, <4>1 DEF EventInv, EventTypeOK
        <4>. QED
          BY <1>8, <2>4, <3>1, <4>2, MoreBitsMeet
      <3>2. CASE u # t
        <4>1. u \in xTasksWaitingForBits \ Matched(bits) /\ u \in Tasks
          BY <2>1, <3>2 DEF EventInv, EventTypeOK
        <4>2. pc[u] = "blocked" /\ ~Met(bits, op[u])
          BY <4>1, MatchedFacts DEF EventInv, NobodyOverlooked
        <4>. QED
          BY <1>8, <2>3, <3>2, <4>1, <4>2, MoreBitsMeet
      <3>. QED
        BY <3>1, <3>2
    <2>6. ToldRight'
      <3>. SUFFICES ASSUME NEW u \in Tasks, woken'[u].unblocked, ~deleted
                    PROVE  /\ pc'[u] = "blocked" /\ u \notin xTasksWaitingForBits'
                           /\ Met(woken'[u].bits, op'[u])
        BY <1>6 DEF ToldRight, Met
      <3>1. u # t
        BY <1>6, <2>1, TypeFacts
      <3>2. CASE u \in Matched(bits)
        BY <1>7, <2>1, <2>3, <3>1, <3>2, TypeFacts
      <3>3. CASE u \notin Matched(bits)
        <4>1. woken'[u] = woken[u]
          BY <2>1, <3>1, <3>3
        <4>. QED
          BY <2>1, <2>3, <3>1, <4>1 DEF EventInv, ToldRight
      <3>. QED
        BY <3>2, <3>3
    <2>. QED
      BY <1>5, <1>9, <2>2, <2>5, <2>6 DEF EventInv
  <1>. QED
    BY <1>3, <1>10, <1>11

LEMMA EventInvStep ==
  ASSUME EventAssumption, EventInv, [EventNext]_eventVars
  PROVE  EventInv'
  <1>1. CASE UNCHANGED eventVars
    BY <1>1 DEF eventVars, EventInv, EventTypeOK, NobodyOverlooked, NoBitLost, ToldRight, Met
  <1>2. CASE EventNext
    <2>1. style' = style
      BY <1>2 DEF EventNext
    <2>2. \/ Delete
          \/ \E bits \in SUBSET style.bits : SetBits(bits) \/ ClearBits(bits)
          \/ \E t \in Tasks : \/ TimedOut(t) \/ Resume(t)
                              \/ ~deleted /\ \/ \E o \in WaitOps : WaitBits(t, o)
                                             \/ \E wait \in Waits : Sync(t, wait)
      BY <1>2 DEF EventNext
    <2>. QED
      BY <2>1, <2>2, DeleteKeeps, SetBitsKeeps, ClearBitsKeeps, TimedOutKeeps, ResumeKeeps,
         WaitBitsKeeps, SyncKeeps
  <1>. QED
    BY <1>1, <1>2

-----------------------------------------------------------------------------
\* The rendezvous.

LEMMA MeetingInvInit ==
  ASSUME EventAssumption, EventInit
  PROVE  MeetingInv
  <1>1. \A t \in Tasks : pc[t] = "idle" /\ entered[t] = 0 /\ left[t] = 0
    BY DEF EventInit
  <1>2. uxEventBits = {} /\ xTasksWaitingForBits = {} /\ ~deleted
    BY DEF EventInit
  <1>. QED
    BY <1>1, <1>2 DEF MeetingInv, Round

\* What can happen where tasks only meet, without block times.
LEMMA OnlyMeetsSteps ==
  ASSUME EventAssumption, EventInv, OnlyMeets, MeetingInv, EventNext
  PROVE  /\ style' = style
         /\ \E t \in Tasks : Resume(t) \/ Sync(t, "forever")
  <1>1. style' = style
    BY DEF EventNext
  <1>2. \A t \in Tasks : ~TimedOut(t)
    BY DEF TimedOut, EventInv, NobodyOverlooked, MeetingInv, WaitsForAll
  <1>3. ~Delete /\ \A bits : ~SetBits(bits) /\ ~ClearBits(bits)
    BY DEF OnlyMeets, Delete, SetBits, ClearBits
  <1>4. \A t, o : ~WaitBits(t, o)
    BY DEF OnlyMeets, WaitBits
  <1>5. \A t, wait : Sync(t, wait) => wait = "forever"
    BY SyncFacts DEF OnlyMeets
  <1>. QED
    BY <1>1, <1>2, <1>3, <1>4, <1>5 DEF EventNext

\* A task that was told goes on, and leaves the round.
LEMMA ResumeMeets ==
  ASSUME EventAssumption, EventInv, OnlyMeets, MeetingInv, NEW t \in Tasks, Resume(t)
  PROVE  MeetingInv'
  <1>1. /\ pc[t] = "blocked" /\ t \notin xTasksWaitingForBits
        /\ pc' = [pc EXCEPT ![t] = "idle"] /\ op' = [op EXCEPT ![t] = NoOp]
        /\ woken' = [woken EXCEPT ![t] = Untold]
        /\ UNCHANGED <<xTasksWaitingForBits, deleted, entered>>
    BY DEF Resume
  <1>2. woken[t].unblocked /\ op[t].sync /\ entered[t] = left[t] + 1
    BY <1>1 DEF MeetingInv, WaitsForAll
  <1>3. uxEventBits' = uxEventBits /\ left' = [left EXCEPT ![t] = left[t] + 1]
    BY <1>2 DEF Resume
  <1>4. \A u \in Tasks \ {t} :
          /\ pc'[u] = pc[u] /\ op'[u] = op[u] /\ woken'[u] = woken[u] /\ left'[u] = left[u]
    BY <1>1, <1>3 DEF EventInv, EventTypeOK
  <1>5. pc'[t] = "idle" /\ left'[t] = left[t] + 1
    BY <1>1, <1>3 DEF EventInv, EventTypeOK
  <1>6. \A u \in Tasks : Round(u)' = Round(u)
    BY <1>1, <1>4 DEF Round
  <1>7. \A u \in Tasks \ {t} : WaitsForAll(u) => WaitsForAll(u)'
    BY <1>1, <1>4 DEF WaitsForAll, AllBits
  <1>8. \A u \in Tasks : IF pc'[u] = "blocked" THEN entered'[u] = left'[u] + 1 /\ WaitsForAll(u)'
                                               ELSE entered'[u] = left'[u]
    BY <1>1, <1>2, <1>4, <1>5, <1>7 DEF MeetingInv
  <1>. QED
    BY <1>1, <1>3, <1>6, <1>8 DEF MeetingInv

\* The last task to come finds the bits of all others, who wait, tells them all, and
\* leaves; one that comes before joins those who wait.
LEMMA SyncMeets ==
  ASSUME EventAssumption, EventInv, OnlyMeets, MeetingInv, NEW t \in Tasks, Sync(t, "forever")
  PROVE  MeetingInv'
  <1>. DEFINE bits == uxEventBits \cup {OwnBit[t]}
  <1>1. Entered(t) /\ (MeetsAll(t, bits) \/ MissesSome(t, "forever", bits))
    BY SyncFacts
  <1>2. /\ pc[t] = "idle" /\ t \notin xTasksWaitingForBits /\ entered[t] = left[t]
        /\ entered' = [entered EXCEPT ![t] = entered[t] + 1] /\ ~deleted'
    BY <1>1, TypeFacts DEF Entered, MeetingInv, EventInv, NobodyOverlooked
  <1>3. \A u \in xTasksWaitingForBits :
          u \in Tasks /\ pc[u] = "blocked" /\ op[u].all /\ op[u].clear /\ op[u].bits = AllBits
    BY DEF EventInv, EventTypeOK, NobodyOverlooked, MeetingInv, WaitsForAll
  <1>4. \A b : Matched(b) = IF AllBits \subseteq b THEN xTasksWaitingForBits ELSE {}
    BY <1>3 DEF Matched, Met
  <1>5. \A u \in Tasks : AllBits \subseteq bits /\ u # t => u \in xTasksWaitingForBits
    <2>. SUFFICES ASSUME NEW u \in Tasks, AllBits \subseteq bits, u # t
                  PROVE  u \in xTasksWaitingForBits
      OBVIOUS
    <2>1. OwnBit[u] \in AllBits /\ OwnBit[u] # OwnBit[t]
      BY DEF AllBits, EventAssumption
    <2>2. OwnBit[u] \in uxEventBits
      BY <2>1
    <2>3. PICK w \in xTasksWaitingForBits : OwnBit[u] = OwnBit[w]
      BY <2>2 DEF MeetingInv
    <2>. QED
      BY <1>3, <2>3 DEF EventAssumption
  <1>. HIDE DEF bits
  <1>6. CASE MeetsAll(t, bits)
    <2>1. AllBits \subseteq bits /\ Matched(bits) = xTasksWaitingForBits
      BY <1>4, <1>6 DEF MeetsAll
    <2>2. /\ xTasksWaitingForBits' = {} /\ pc' = pc /\ op' = op
          /\ woken' = [u \in Tasks |-> IF u \in xTasksWaitingForBits THEN Told(bits) ELSE woken[u]]
          /\ uxEventBits' = (bits \ ClearedFor(xTasksWaitingForBits)) \ AllBits
          /\ left' = [left EXCEPT ![t] = left[t] + 1]
      BY <1>6, <2>1 DEF MeetsAll, Woken
    <2>3. uxEventBits' = {}
      <3>1. bits \subseteq AllBits
        <4>1. \A w \in xTasksWaitingForBits : OwnBit[w] \in AllBits
          BY <1>3 DEF AllBits
        <4>2. OwnBit[t] \in AllBits
          BY DEF AllBits
        <4>. QED
          BY <4>1, <4>2 DEF MeetingInv, bits
      <3>. QED
        BY <2>2, <3>1
    <2>4. /\ entered'[t] = entered[t] + 1 /\ left'[t] = left[t] + 1
          /\ \A u \in Tasks \ {t} : entered'[u] = entered[u] /\ left'[u] = left[u]
      BY <1>2, <2>2 DEF EventInv
    <2>5. \A u \in Tasks \ {t} : u \in xTasksWaitingForBits /\ pc[u] = "blocked"
      BY <1>3, <1>5, <2>1
    <2>6. \A u \in Tasks \ {t} : WaitsForAll(u)'
      <3>. SUFFICES ASSUME NEW u \in Tasks \ {t} PROVE WaitsForAll(u)'
        OBVIOUS
      <3>1. WaitsForAll(u)
        BY <2>5 DEF MeetingInv
      <3>2. woken'[u].unblocked
        BY <2>2, <2>5, TypeFacts
      <3>. QED
        BY <2>2, <3>1, <3>2 DEF WaitsForAll, AllBits
    <2>7. \A u \in Tasks : IF pc'[u] = "blocked" THEN entered'[u] = left'[u] + 1 /\ WaitsForAll(u)'
                                                 ELSE entered'[u] = left'[u]
      BY <1>2, <2>2, <2>4, <2>5, <2>6 DEF MeetingInv
    <2>8. \A u \in Tasks : Round(u)' = Round(t) + 1
      <3>1. Round(t)' = Round(t) + 1
        BY <1>2, <2>2, <2>4 DEF Round
      <3>2. ASSUME NEW u \in Tasks \ {t}
            PROVE  Round(u)' = Round(t) + 1
        <4>1. Round(u) = left[u] /\ Round(u)' = entered[u] /\ entered[u] = left[u] + 1
          BY <2>2, <2>4, <2>5 DEF Round, MeetingInv
        <4>2. Round(u) = Round(t)
          BY DEF MeetingInv
        <4>. QED
          BY <4>1, <4>2
      <3>. QED
        BY <3>1, <3>2
    <2>. QED
      BY <1>2, <2>2, <2>3, <2>7, <2>8 DEF MeetingInv
  <1>7. CASE MissesSome(t, "forever", bits)
    <2>1. Matched(bits) = {} /\ ClearedFor({}) = {}
      BY <1>4, <1>7 DEF MissesSome, ClearedFor
    <2>2. /\ xTasksWaitingForBits' = xTasksWaitingForBits \cup {t}
          /\ woken' = [u \in Tasks |-> IF u = t THEN Untold ELSE woken[u]]
          /\ uxEventBits' = bits /\ left' = left
          /\ pc' = [pc EXCEPT ![t] = "blocked"]
          /\ op' = [op EXCEPT ![t] = SyncOp("forever")]
      BY <1>7, <2>1 DEF MissesSome
    <2>3. /\ entered'[t] = entered[t] + 1 /\ pc'[t] = "blocked" /\ op'[t] = SyncOp("forever")
          /\ \A u \in Tasks \ {t} : /\ entered'[u] = entered[u] /\ pc'[u] = pc[u]
                                    /\ op'[u] = op[u] /\ woken'[u] = woken[u]
      BY <1>2, <2>2 DEF EventInv, EventTypeOK
    <2>4. uxEventBits' = {OwnBit[u] : u \in xTasksWaitingForBits'}
      BY <2>2 DEF MeetingInv, bits
    <2>5. WaitsForAll(t)'
      BY <2>2, <2>3 DEF WaitsForAll, SyncOp, AllBits
    <2>6. \A u \in Tasks \ {t} : WaitsForAll(u) => WaitsForAll(u)'
      BY <2>2, <2>3 DEF WaitsForAll, AllBits
    <2>7. \A u \in Tasks : IF pc'[u] = "blocked" THEN entered'[u] = left'[u] + 1 /\ WaitsForAll(u)'
                                                 ELSE entered'[u] = left'[u]
      BY <1>2, <2>2, <2>3, <2>5, <2>6 DEF MeetingInv
    <2>8. \A u \in Tasks : Round(u)' = Round(u)
      BY <1>2, <2>2, <2>3 DEF Round
    <2>. QED
      BY <1>2, <2>4, <2>7, <2>8 DEF MeetingInv
  <1>. QED
    BY <1>1, <1>6, <1>7

LEMMA MeetingInvStep ==
  ASSUME EventAssumption, EventInv, OnlyMeets => MeetingInv, [EventNext]_eventVars
  PROVE  (OnlyMeets => MeetingInv)'
  <1>1. CASE UNCHANGED eventVars
    <2>1. \A u \in Tasks : Round(u)' = Round(u) /\ (WaitsForAll(u)' <=> WaitsForAll(u))
      BY <1>1 DEF eventVars, Round, WaitsForAll, AllBits
    <2>. QED
      BY <1>1, <2>1 DEF eventVars, OnlyMeets, MeetingInv
  <1>2. CASE EventNext
    <2>1. style' = style
      BY <1>2 DEF EventNext
    <2>. SUFFICES ASSUME OnlyMeets PROVE MeetingInv'
      BY <2>1 DEF OnlyMeets
    <2>. QED
      BY <1>2, OnlyMeetsSteps, ResumeMeets, SyncMeets
  <1>. QED
    BY <1>1, <1>2

\* No task leaves its n-th meeting before all have come to theirs.
LEMMA MeetingImpliesRendezvous ==
  ASSUME EventInv, OnlyMeets => MeetingInv
  PROVE  Rendezvous
  <1>. SUFFICES ASSUME OnlyMeets, NEW t \in Tasks, NEW u \in Tasks PROVE left[t] <= entered[u]
    BY DEF Rendezvous, OnlyMeets
  <1>1. /\ left[t] \in Nat /\ left[u] \in Nat /\ entered[t] \in Nat /\ entered[u] \in Nat
    BY DEF EventInv
  <1>2. left[t] <= Round(t) /\ Round(u) <= entered[u]
    BY <1>1 DEF MeetingInv, Round
  <1>3. Round(t) = Round(u) /\ Round(t) \in Nat
    BY <1>1 DEF MeetingInv, Round
  <1>. QED
    BY <1>1, <1>2, <1>3

\* No bit that was set is lost, no task is left waiting for bits that are there or told
\* bits that do not end its wait, however calls, time-outs and late tasks fall; and where
\* tasks do nothing but meet, none leaves a meeting before all have come to it
\* (event_groups.c xEventGroupWaitBits, xEventGroupSetBits, xEventGroupSync).
THEOREM EventsCorrect ==
  ASSUME EventAssumption
  PROVE  EventSpec => []EventsArrive
  <1>. DEFINE Inv == EventInv /\ (OnlyMeets => MeetingInv)
  <1>1. EventInit => Inv
    BY EventInvInit, MeetingInvInit
  <1>2. Inv /\ [EventNext]_eventVars => Inv'
    BY EventInvStep, MeetingInvStep
  <1>3. Inv => EventsArrive
    BY MeetingImpliesRendezvous DEF EventInv, EventsArrive
  <1>. QED
    BY <1>1, <1>2, <1>3, PTL DEF EventSpec

\* The event group and the calls keep their values.
THEOREM EventTypesCorrect ==
  ASSUME EventAssumption
  PROVE  EventSpec => []EventTypeOK
  <1>1. EventInit => EventInv
    BY EventInvInit
  <1>2. EventInv /\ [EventNext]_eventVars => EventInv'
    BY EventInvStep
  <1>3. EventInv => EventTypeOK
    BY DEF EventInv
  <1>. QED
    BY <1>1, <1>2, <1>3, PTL DEF EventSpec
-----------------------------------------------------------------------------
\* The ticks between two calls of vCoRoutineSchedule() are less than a cycle, and so are
\* delays.
CoRoutineAssumption ==
  /\ IsFiniteSet(CoRoutines) /\ Priority \in [CoRoutines -> Nat]
  /\ TickMod \in Nat \ {0} /\ Delays \subseteq 0 .. TickMod - 1 /\ MaxBehind \in 0 .. TickMod - 1
  /\ QueueLength \in Nat

States == {"begin", "full", "sending", "resend", "receiving", "rereceive"}
Receiving == {"rereceive", "receiving"}

CoTypes ==
  /\ CoRoutineTypeOK /\ uxState \in [CoRoutines -> States]
  /\ uxTopCoRoutineReadyPriority \in Nat

\* Who waits to send or receive looks again when it goes on.
WaitsRight ==
  /\ \A c \in Waiting("receive") : uxState[c] = "rereceive"
  /\ \A c \in Waiting("send") : uxState[c] = "resend"

\* The co-routines' tick count is up to date but while it catches up.
ClockRight ==
  /\ scheduler # "delayed" => xCoRoutineTickCount = xLastTickCount
  /\ scheduler = "delayed" => ((xCoRoutineTickCount - xLastTickCount) % TickMod) + xPassedTicks
                                <= (xTickCount - xLastTickCount) % TickMod

WakesRight ==
  \A c \in CoRoutines :
    /\ genericList[c] = "delayed" =>
         \/ wakeTime[c] > xCoRoutineTickCount
         \/ wakeTime[c] = xCoRoutineTickCount /\ scheduler = "delayed"
    /\ genericList[c] = "overflow" => wakeTime[c] < xCoRoutineTickCount

CoRoutineInv == CoTypes /\ WaitsRight /\ ItemsAgree /\ ClockRight /\ WakesRight /\ ReceiversCovered

LEMMA CoModFacts ==
  ASSUME NEW m \in Nat \ {0}, NEW i \in -m .. 2 * m - 1
  PROVE  /\ i % m \in 0 .. m - 1
         /\ i % m = IF i < 0 THEN i + m ELSE IF i < m THEN i ELSE i - m
  OBVIOUS

\* Counting on in a cycle.
LEMMA CoNext ==
  ASSUME NEW m \in Nat \ {0}, NEW x \in 0 .. m - 1, NEW y \in 0 .. m - 1,
         (x - y) % m < m - 1
  PROVE  /\ (x + 1) % m \in 0 .. m - 1
         /\ (((x + 1) % m) - y) % m = ((x - y) % m) + 1
         /\ (x + 1) % m = IF x = m - 1 THEN 0 ELSE x + 1
  <1>. DEFINE z == (x + 1) % m
  <1>1. z \in 0 .. m - 1 /\ z = IF x = m - 1 THEN 0 ELSE x + 1
    <2>1. x + 1 \in -m .. 2 * m - 1
      OBVIOUS
    <2>. HIDE DEF z
    <2>2. PICK w \in -m .. 2 * m - 1 : w = x + 1
      BY <2>1
    <2>3. w % m = IF w < 0 THEN w + m ELSE IF w < m THEN w ELSE w - m
      BY CoModFacts
    <2>4. z = (x + 1) % m
      BY DEF z
    <2>. QED
      BY <2>2, <2>3, <2>4
  <1>. HIDE DEF z
  <1>2. (x - y) % m = IF x - y < 0 THEN x - y + m ELSE x - y
    <2>1. x - y \in -m .. 2 * m - 1 /\ x - y < m
      OBVIOUS
    <2>. QED
      BY <2>1, CoModFacts
  <1>3. (z - y) % m = IF z - y < 0 THEN z - y + m ELSE z - y
    <2>1. z - y \in -m .. 2 * m - 1 /\ z - y < m
      BY <1>1
    <2>. QED
      BY <2>1, CoModFacts
  <1>4. (z - y) % m = ((x - y) % m) + 1
    BY <1>1, <1>2, <1>3
  <1>. QED
    BY <1>1, <1>4 DEF z

LEMMA CoInit ==
  CoRoutineAssumption /\ CoRoutineInit => CoRoutineInv
  <1>. SUFFICES ASSUME CoRoutineAssumption, CoRoutineInit PROVE CoRoutineInv
    OBVIOUS
  <1>1. CoTypes
    BY DEF CoRoutineAssumption, CoRoutineInit, CoRoutineTypeOK, CoTypes, States
  <1>2. WaitsRight /\ WakesRight /\ ReceiversCovered
    BY DEF CoRoutineInit, WaitsRight, WakesRight, ReceiversCovered, Waiting, States
  <1>3. ItemsAgree
    <2>1. PICK c \in CoRoutines : /\ \A d \in CoRoutines : Priority[d] <= Priority[c]
                                  /\ uxTopCoRoutineReadyPriority = Priority[c]
      BY DEF CoRoutineInit
    <2>. QED
      BY <2>1 DEF CoRoutineInit, ItemsAgree, Ready
  <1>4. ClockRight
    BY DEF CoRoutineInit, ClockRight
  <1>. QED
    BY <1>1, <1>2, <1>3, <1>4 DEF CoRoutineInv

\* Who is coming to receive, when co-routines move: as many more as messages, at least.
LEMMA ComingFinite ==
  ASSUME CoRoutineAssumption
  PROVE  /\ IsFiniteSet(Coming(Receiving)) /\ Cardinality(Coming(Receiving)) \in Nat
         /\ IsFiniteSet(Coming(Receiving)') /\ Cardinality(Coming(Receiving)') \in Nat
  <1>1. Coming(Receiving) \subseteq CoRoutines /\ Coming(Receiving)' \subseteq CoRoutines
    BY DEF Coming
  <1>. QED
    BY <1>1, FS_Subset, FS_CardinalityType DEF CoRoutineAssumption

LEMMA MoreComing ==
  ASSUME CoRoutineAssumption, CoRoutineInv, Coming(Receiving) \subseteq Coming(Receiving)',
         Waiting("receive")' \subseteq Waiting("receive"),
         uxMessagesWaiting' \in Nat, uxMessagesWaiting' <= uxMessagesWaiting
  PROVE  ReceiversCovered'
  <1>1. Cardinality(Coming(Receiving)) <= Cardinality(Coming(Receiving)')
    BY ComingFinite, FS_Subset
  <1>2. uxMessagesWaiting \in Nat
    BY DEF CoRoutineInv, CoTypes, CoRoutineTypeOK, CoRoutineAssumption
  <1>. QED
    BY <1>1, <1>2, ComingFinite DEF CoRoutineInv, ReceiversCovered, Receiving

\* prvCheckPendingReadyList() and prvCheckDelayedList() ready a co-routine.
LEMMA ReadyStep ==
  ASSUME CoRoutineAssumption, CoRoutineInv, NEW c \in CoRoutines, AddToReady(c, "null"),
         scheduler \in {"pending", "delayed"}, UNCHANGED <<tickVars, scheduler>>,
         UNCHANGED <<xTickCount, pxCurrentCoRoutine, uxState, uxMessagesWaiting>>
  PROVE  CoRoutineInv'
  <1>1. /\ genericList \in [CoRoutines -> {"ready", "delayed", "overflow"}]
        /\ eventList \in [CoRoutines -> {"null", "receive", "send", "pending"}]
        /\ genericList' = [genericList EXCEPT ![c] = "ready"]
        /\ eventList' = [eventList EXCEPT ![c] = "null"]
        /\ UNCHANGED <<wakeTime, xCoRoutineTickCount, xLastTickCount, xPassedTicks, scheduler,
                       xTickCount, pxCurrentCoRoutine, uxState, uxMessagesWaiting>>
        /\ uxTopCoRoutineReadyPriority' =
             IF Priority[c] > uxTopCoRoutineReadyPriority THEN Priority[c] ELSE uxTopCoRoutineReadyPriority
        /\ Priority \in [CoRoutines -> Nat]
    BY DEF AddToReady, CoRoutineInv, CoTypes, CoRoutineTypeOK, tickVars, CoRoutineAssumption
  <1>2. CoTypes'
    BY <1>1 DEF CoRoutineInv, CoTypes, CoRoutineTypeOK
  <1>3. WaitsRight'
    BY <1>1 DEF CoRoutineInv, WaitsRight, Waiting
  <1>4. ItemsAgree'
    BY <1>1 DEF CoRoutineInv, CoTypes, ItemsAgree, Ready
  <1>5. ClockRight' /\ WakesRight'
    BY <1>1 DEF CoRoutineInv, ClockRight, WakesRight
  <1>6. ReceiversCovered'
    <2>1. Waiting("receive")' \subseteq Waiting("receive")
      BY <1>1 DEF Waiting
    <2>2. Coming(Receiving) \subseteq Coming(Receiving)'
      BY <1>1 DEF Coming
    <2>. QED
      BY <1>1, <2>1, <2>2, MoreComing DEF CoRoutineInv, CoTypes, CoRoutineTypeOK,
         CoRoutineAssumption
  <1>. QED
    BY <1>1, <1>2, <1>3, <1>4, <1>5, <1>6 DEF CoRoutineInv

LEMMA PendingStep ==
  ASSUME CoRoutineAssumption, CoRoutineInv, CheckPendingReadyList
  PROVE  CoRoutineInv'
  <1>1. scheduler = "pending" /\ UNCHANGED <<xTickCount, pxCurrentCoRoutine, uxState,
                                             uxMessagesWaiting>>
    BY DEF CheckPendingReadyList
  <1>2. ASSUME NEW c \in Waiting("pending"), AddToReady(c, "null"), UNCHANGED <<tickVars,
                                                                                scheduler>>
        PROVE  CoRoutineInv'
    BY <1>1, <1>2, ReadyStep DEF Waiting
  <1>3. ASSUME xPassedTicks' = (xTickCount - xLastTickCount) % TickMod, scheduler' = "delayed",
               UNCHANGED <<listVars, xCoRoutineTickCount, xLastTickCount>>
        PROVE  CoRoutineInv'
    <2>1. /\ xTickCount \in 0 .. TickMod - 1 /\ xLastTickCount \in 0 .. TickMod - 1
          /\ TickMod \in Nat \ {0} /\ xCoRoutineTickCount = xLastTickCount
      BY <1>1 DEF CoRoutineInv, CoTypes, CoRoutineTypeOK, CoRoutineAssumption, ClockRight
    <2>2. xPassedTicks' \in 0 .. TickMod - 1
      <3>1. xTickCount - xLastTickCount \in -TickMod .. 2 * TickMod - 1
        BY <2>1
      <3>. QED
        BY <1>3, <2>1, <3>1, CoModFacts
    <2>3. (xCoRoutineTickCount - xLastTickCount) % TickMod = 0
      <3>1. xCoRoutineTickCount - xLastTickCount = 0 /\ 0 \in -TickMod .. 2 * TickMod - 1
        BY <2>1
      <3>2. 0 % TickMod = 0
        BY <2>1, <3>1, CoModFacts
      <3>. QED
        BY <3>1, <3>2
    <2>4. ClockRight'
      BY <1>1, <1>3, <2>2, <2>3 DEF ClockRight
    <2>5. CoTypes' /\ WaitsRight' /\ ItemsAgree' /\ WakesRight'
      BY <1>1, <1>3, <2>2 DEF CoRoutineInv, CoTypes, CoRoutineTypeOK, WaitsRight, Waiting,
         ItemsAgree,
           Ready, WakesRight, listVars
    <2>6. ReceiversCovered'
      BY <1>1, <1>3 DEF CoRoutineInv, ReceiversCovered, Waiting, Coming, listVars
    <2>. QED
      BY <2>4, <2>5, <2>6 DEF CoRoutineInv
  <1>. QED
    BY <1>2, <1>3 DEF CheckPendingReadyList

LEMMA DelayedStep ==
  ASSUME CoRoutineAssumption, CoRoutineInv, CheckDelayedList
  PROVE  CoRoutineInv'
  <1>1. scheduler = "delayed" /\ UNCHANGED <<xTickCount, pxCurrentCoRoutine, uxState,
                                             uxMessagesWaiting>>
    BY DEF CheckDelayedList
  <1>2. ASSUME NEW c \in Due, AddToReady(c, EventListAfter(c)), UNCHANGED <<tickVars, scheduler>>
        PROVE  CoRoutineInv'
    BY <1>1, <1>2, ReadyStep DEF Due, EventListAfter
  <1>3. /\ xTickCount \in 0 .. TickMod - 1 /\ xLastTickCount \in 0 .. TickMod - 1
        /\ xCoRoutineTickCount \in 0 .. TickMod - 1 /\ xPassedTicks \in 0 .. TickMod - 1
        /\ TickMod \in Nat \ {0}
        /\ ((xCoRoutineTickCount - xLastTickCount) % TickMod) + xPassedTicks
             <= (xTickCount - xLastTickCount) % TickMod
        /\ wakeTime \in [CoRoutines -> 0 .. TickMod - 1]
        /\ genericList \in [CoRoutines -> {"ready", "delayed", "overflow"}]
        /\ eventList \in [CoRoutines -> {"null", "receive", "send", "pending"}]
    BY <1>1 DEF CoRoutineInv, CoTypes, CoRoutineTypeOK, CoRoutineAssumption, ClockRight
  <1>4. ASSUME Due = {}
        PROVE  \A c \in CoRoutines : genericList[c] = "delayed" => wakeTime[c] > xCoRoutineTickCount
    BY <1>3, <1>4 DEF Due
  <1>5. ASSUME Due = {}, xPassedTicks > 0, xPassedTicks' = xPassedTicks - 1,
               xCoRoutineTickCount' = (xCoRoutineTickCount + 1) % TickMod,
               genericList' = IF xCoRoutineTickCount' = 0 THEN SwappedLists ELSE genericList,
               UNCHANGED <<xLastTickCount, eventList, wakeTime, uxTopCoRoutineReadyPriority,
                           scheduler>>
        PROVE  CoRoutineInv'
    <2>1. (xTickCount - xLastTickCount) % TickMod \in 0 .. TickMod - 1 /\
          (xCoRoutineTickCount - xLastTickCount) % TickMod \in 0 .. TickMod - 1
      BY <1>3
    <2>2. (xCoRoutineTickCount - xLastTickCount) % TickMod < TickMod - 1
      BY <1>3, <1>5, <2>1
    <2>3. /\ xCoRoutineTickCount' \in 0 .. TickMod - 1
          /\ (xCoRoutineTickCount' - xLastTickCount) % TickMod =
               ((xCoRoutineTickCount - xLastTickCount) % TickMod) + 1
          /\ xCoRoutineTickCount' = IF xCoRoutineTickCount = TickMod - 1 THEN 0
                                                                      ELSE xCoRoutineTickCount + 1
      BY <1>3, <1>5, <2>2, CoNext
    <2>4. ClockRight'
      BY <1>1, <1>3, <1>5, <2>1, <2>3 DEF ClockRight
    <2>5. \A c \in CoRoutines :
            /\ genericList'[c] \in {"ready", "delayed", "overflow"}
            /\ genericList'[c] = "ready" <=> genericList[c] = "ready"
            /\ xCoRoutineTickCount' # 0 => genericList'[c] = genericList[c]
            /\ xCoRoutineTickCount' = 0 => /\ genericList'[c] = "delayed" => genericList[c] = "overflow"
                                           /\ genericList'[c] = "overflow" => genericList[c] = "delayed"
      BY <1>3, <1>5 DEF SwappedLists
    <2>6. genericList' \in [CoRoutines -> {"ready", "delayed", "overflow"}]
      BY <1>3, <1>5, <2>5 DEF SwappedLists
    <2>7. Ready' = Ready
      BY <2>5 DEF Ready
    <2>8. WakesRight'
      BY <1>1, <1>3, <1>4, <1>5, <2>3, <2>5 DEF CoRoutineInv, WakesRight
    <2>9. CoTypes' /\ WaitsRight'
      BY <1>1, <1>3, <1>5, <2>3, <2>6 DEF CoRoutineInv, CoTypes, CoRoutineTypeOK, WaitsRight,
         Waiting
    <2>10. ItemsAgree'
      BY <1>1, <1>5, <2>7 DEF CoRoutineInv, ItemsAgree
    <2>11. ReceiversCovered'
      BY <1>1, <1>5 DEF CoRoutineInv, ReceiversCovered, Waiting, Coming
    <2>. QED
      BY <2>4, <2>8, <2>9, <2>10, <2>11 DEF CoRoutineInv
  <1>6. ASSUME Due = {}, xLastTickCount' = xCoRoutineTickCount, scheduler' = "select",
               UNCHANGED <<listVars, xCoRoutineTickCount, xPassedTicks>>
        PROVE  CoRoutineInv'
    <2>1. WakesRight' /\ ClockRight'
      BY <1>4, <1>6 DEF CoRoutineInv, WakesRight, ClockRight, listVars
    <2>2. CoTypes' /\ WaitsRight' /\ ItemsAgree'
      BY <1>1, <1>3, <1>6 DEF CoRoutineInv, CoTypes, CoRoutineTypeOK, WaitsRight, Waiting,
         ItemsAgree, Ready,
           listVars
    <2>3. ReceiversCovered'
      BY <1>1, <1>6 DEF CoRoutineInv, ReceiversCovered, Waiting, Coming, listVars
    <2>. QED
      BY <2>1, <2>2, <2>3 DEF CoRoutineInv
  <1>. QED
    BY <1>2, <1>5, <1>6 DEF CheckDelayedList

LEMMA SelectStep ==
  ASSUME CoRoutineAssumption, CoRoutineInv, Select
  PROVE  CoRoutineInv'
  <1>. DEFINE listed(p) == {c \in Ready : Priority[c] = p}
              below     == {p \in 0 .. uxTopCoRoutineReadyPriority : listed(p) # {}}
  <1>1. /\ scheduler = "select"
        /\ UNCHANGED <<genericList, eventList, wakeTime, xCoRoutineTickCount, xLastTickCount,
                       xPassedTicks,
                       xTickCount, uxState, uxMessagesWaiting>>
    BY DEF Select, tickVars
  <1>2. /\ \A c \in Ready : Priority[c] \in Nat /\ Priority[c] <= uxTopCoRoutineReadyPriority
        /\ Ready \subseteq CoRoutines /\ uxTopCoRoutineReadyPriority \in Nat
    BY DEF CoRoutineInv, CoTypes, ItemsAgree, Ready, CoRoutineAssumption
  <1>3. Ready' = Ready
    BY <1>1 DEF Ready
  <1>4. \A c \in Ready : Priority[c] \in below
    BY <1>2
  <1>5. /\ uxTopCoRoutineReadyPriority' \in Nat /\ \A c \in Ready : Priority[c] <= uxTopCoRoutineReadyPriority'
        /\ scheduler' \in {"pending", "run"} /\ pxCurrentCoRoutine' \in CoRoutines
        /\ scheduler' = "run" => pxCurrentCoRoutine' \in Ready
    <2>1. CASE below = {}
      <3>1. uxTopCoRoutineReadyPriority' = 0 /\ scheduler' = "pending" /\ UNCHANGED pxCurrentCoRoutine
        BY <2>1 DEF Select
      <3>2. Ready = {}
        BY <1>4, <2>1
      <3>. QED
        BY <3>1, <3>2 DEF CoRoutineInv, CoTypes, CoRoutineTypeOK
    <2>2. CASE below # {}
      <3>1. scheduler' = "run" /\ \E p \in below : /\ \A q \in below : q <= p
                                                   /\ uxTopCoRoutineReadyPriority' = p
                                                   /\ pxCurrentCoRoutine' \in listed(p)
        BY <2>2 DEF Select
      <3>. QED
        BY <1>2, <1>4, <3>1
    <2>. QED
      BY <2>1, <2>2
  <1>. HIDE DEF below, listed
  <1>6. CoTypes' /\ WaitsRight' /\ ItemsAgree'
    BY <1>1, <1>3, <1>5 DEF CoRoutineInv, CoTypes, CoRoutineTypeOK, WaitsRight, Waiting, ItemsAgree
  <1>7. ClockRight' /\ WakesRight'
    BY <1>1, <1>5 DEF CoRoutineInv, ClockRight, WakesRight
  <1>8. ReceiversCovered'
    BY <1>1 DEF CoRoutineInv, ReceiversCovered, Waiting, Coming
  <1>. QED
    BY <1>6, <1>7, <1>8 DEF CoRoutineInv

LEMMA CoTickStep ==
  ASSUME CoRoutineAssumption, CoRoutineInv, Tick
  PROVE  CoRoutineInv'
  <1>1. /\ (xTickCount - xLastTickCount) % TickMod < MaxBehind
        /\ xTickCount' = (xTickCount + 1) % TickMod
        /\ UNCHANGED <<genericList, eventList, wakeTime, uxTopCoRoutineReadyPriority,
                       xCoRoutineTickCount,
                       xLastTickCount, xPassedTicks, scheduler, pxCurrentCoRoutine, uxState, uxMessagesWaiting>>
    BY DEF Tick, listVars, tickVars
  <1>2. /\ xTickCount \in 0 .. TickMod - 1 /\ xLastTickCount \in 0 .. TickMod - 1
        /\ TickMod \in Nat \ {0} /\ MaxBehind \in 0 .. TickMod - 1
    BY DEF CoRoutineInv, CoTypes, CoRoutineTypeOK, CoRoutineAssumption
  <1>3. (xTickCount - xLastTickCount) % TickMod \in Nat
    BY <1>2
  <1>4. /\ xTickCount' \in 0 .. TickMod - 1
        /\ (xTickCount' - xLastTickCount) % TickMod = ((xTickCount - xLastTickCount) % TickMod) + 1
    <2>1. (xTickCount - xLastTickCount) % TickMod < TickMod - 1
      BY <1>1, <1>2, <1>3
    <2>. QED
      BY <1>1, <1>2, <2>1, CoNext
  <1>5. ClockRight'
    <2>1. ((xCoRoutineTickCount - xLastTickCount) % TickMod) + xPassedTicks \in Int
      BY <1>2 DEF CoRoutineInv, CoTypes, CoRoutineTypeOK
    <2>. QED
      BY <1>1, <1>3, <1>4, <2>1 DEF CoRoutineInv, ClockRight
  <1>6. CoTypes' /\ WaitsRight' /\ ItemsAgree' /\ WakesRight'
    BY <1>1, <1>4 DEF CoRoutineInv, CoTypes, CoRoutineTypeOK, WaitsRight, Waiting, ItemsAgree,
       Ready, WakesRight
  <1>7. ReceiversCovered'
    BY <1>1 DEF CoRoutineInv, ReceiversCovered, Waiting, Coming
  <1>. QED
    BY <1>5, <1>6, <1>7 DEF CoRoutineInv

\* What the current co-routine and the handlers leave alone.
Others == UNCHANGED <<xCoRoutineTickCount, xLastTickCount, xPassedTicks, xTickCount,
                      pxCurrentCoRoutine>>

\* A co-routine that runs is in no event list, and it is the only one whose state changes.
LEMMA RunFacts ==
  ASSUME CoRoutineAssumption, CoRoutineInv
  PROVE  /\ genericList \in [CoRoutines -> {"ready", "delayed", "overflow"}]
         /\ eventList \in [CoRoutines -> {"null", "receive", "send", "pending"}]
         /\ uxState \in [CoRoutines -> States]
         /\ wakeTime \in [CoRoutines -> 0 .. TickMod - 1]
         /\ xCoRoutineTickCount \in 0 .. TickMod - 1 /\ xLastTickCount \in 0 .. TickMod - 1
         /\ TickMod \in Nat \ {0} /\ Priority \in [CoRoutines -> Nat]
         /\ uxMessagesWaiting \in 0 .. QueueLength /\ QueueLength \in Nat
         /\ pxCurrentCoRoutine \in CoRoutines
         /\ scheduler = "run" => eventList[pxCurrentCoRoutine] = "null"
                               /\ genericList[pxCurrentCoRoutine] = "ready"
                               /\ xCoRoutineTickCount = xLastTickCount
         /\ uxTopCoRoutineReadyPriority \in Nat
  BY DEF CoRoutineAssumption, CoRoutineInv, CoTypes, CoRoutineTypeOK, ItemsAgree, Ready, ClockRight

\* It goes on at another place, with the lists as they are.
LEMMA GoesOnStep ==
  ASSUME CoRoutineAssumption, CoRoutineInv, scheduler = "run", NEW state \in States,
         NEW returns \in BOOLEAN, GoesOn(state, returns), UNCHANGED <<genericList, eventList,
         wakeTime, uxTopCoRoutineReadyPriority>>, uxMessagesWaiting' \in 0 .. QueueLength
  PROVE  CoTypes' /\ WaitsRight' /\ ItemsAgree' /\ ClockRight' /\ WakesRight'
  <1>1. /\ uxState' = [uxState EXCEPT ![pxCurrentCoRoutine] = state]
        /\ scheduler' \in {"pending", "run"} /\ Others
    BY DEF GoesOn, tickVars, Others
  <1>2. CoTypes'
    BY <1>1, RunFacts DEF CoTypes, CoRoutineTypeOK, CoRoutineInv, Others
  <1>3. WaitsRight'
    BY <1>1, RunFacts DEF CoRoutineInv, WaitsRight, Waiting
  <1>4. ItemsAgree' /\ ClockRight' /\ WakesRight'
    BY <1>1, RunFacts DEF CoRoutineInv, ItemsAgree, Ready, ClockRight, WakesRight, Others
  <1>. QED
    BY <1>2, <1>3, <1>4

\* It is put into a delayed list and, to wait, into one of the queue's.
LEMMA AddToDelayedStep ==
  ASSUME CoRoutineAssumption, CoRoutineInv, scheduler = "run",
         NEW ticks \in Delays, ticks > 0,
         NEW list \in {"null", "send", "receive"}, AddToDelayed(ticks, list),
         NEW state \in States, GoesOn(state, TRUE), UNCHANGED uxMessagesWaiting,
         list = "send" => state = "resend", list = "receive" => state = "rereceive"
  PROVE  CoTypes' /\ WaitsRight' /\ ItemsAgree' /\ ClockRight' /\ WakesRight'
  <1>. DEFINE wake == (xCoRoutineTickCount + ticks) % TickMod
              c    == pxCurrentCoRoutine
  <1>1. /\ uxState' = [uxState EXCEPT ![c] = state]
        /\ scheduler' = "pending" /\ Others
        /\ genericList' = [genericList EXCEPT ![c] =
                             IF wake < xCoRoutineTickCount THEN "overflow" ELSE "delayed"]
        /\ eventList' = [eventList EXCEPT ![c] = list]
        /\ wakeTime' = [wakeTime EXCEPT ![c] = wake]
        /\ UNCHANGED uxTopCoRoutineReadyPriority
    BY DEF GoesOn, tickVars, Others, AddToDelayed
  <1>2. wake \in 0 .. TickMod - 1 /\ wake # xCoRoutineTickCount
    <2>1. xCoRoutineTickCount \in 0 .. TickMod - 1 /\ TickMod \in Nat \ {0} /\ ticks \in 1 .. TickMod - 1
      BY RunFacts DEF CoRoutineAssumption
    <2>2. PICK w \in -TickMod .. 2 * TickMod - 1 : w = xCoRoutineTickCount + ticks
      BY <2>1
    <2>3. w % TickMod \in 0 .. TickMod - 1 /\ w % TickMod = IF w < 0 THEN w + TickMod ELSE IF w < TickMod THEN w ELSE w - TickMod
      BY <2>1, CoModFacts
    <2>4. wake = w % TickMod
      BY <2>2
    <2>. HIDE DEF wake
    <2>. QED
      BY <2>1, <2>2, <2>3, <2>4
  <1>. HIDE DEF wake
  <1>3. CoTypes'
    BY <1>1, <1>2, RunFacts DEF CoTypes, CoRoutineTypeOK, CoRoutineInv, Others
  <1>4. WaitsRight'
    BY <1>1, RunFacts DEF CoRoutineInv, WaitsRight, Waiting
  <1>5. ItemsAgree'
    BY <1>1, RunFacts DEF CoRoutineInv, ItemsAgree, Ready
  <1>6. ClockRight'
    BY <1>1, RunFacts DEF CoRoutineInv, ClockRight, Others
  <1>7. WakesRight'
    <2>1. ASSUME NEW d \in CoRoutines
          PROVE  /\ genericList'[d] = "delayed" => wakeTime'[d] > xCoRoutineTickCount'
                 /\ genericList'[d] = "overflow" => wakeTime'[d] < xCoRoutineTickCount'
      <3>1. CASE d = c
        BY <1>1, <1>2, <3>1, RunFacts DEF Others
      <3>2. CASE d # c
        BY <1>1, <3>2, RunFacts DEF CoRoutineInv, WakesRight, Others
      <3>. QED
        BY <3>1, <3>2
    <2>. QED
      BY <2>1 DEF WakesRight
  <1>. QED
    BY <1>3, <1>4, <1>5, <1>6, <1>7

\* xCoRoutineRemoveFromEventList() moves one that waits, if there is one.
LEMMA RemoveFacts ==
  ASSUME CoRoutineAssumption, CoRoutineInv, NEW list \in {"send", "receive"},
         RemoveFromEventList(list)
  PROVE  /\ UNCHANGED <<genericList, wakeTime, uxTopCoRoutineReadyPriority>>
         /\ eventList' \in [CoRoutines -> {"null", "receive", "send", "pending"}]
         /\ \/ Waiting(list) = {} /\ UNCHANGED eventList
            \/ \E c \in Waiting(list) : eventList' = [eventList EXCEPT ![c] = "pending"]
         /\ \A c \in CoRoutines : eventList[c] = "null" => eventList'[c] = "null"
         /\ \A c \in CoRoutines : eventList'[c] # "pending" => eventList'[c] = eventList[c]
         /\ \A c \in CoRoutines : eventList'[c] # eventList[c] => eventList[c] = list /\ eventList'[c] = "pending"
  BY RunFacts DEF RemoveFromEventList, Waiting

\* A message is put or taken: with nothing else changed, as handlers do it, and with the current
\* co-routine going on.
LEMMA MovesStep ==
  ASSUME CoRoutineAssumption, CoRoutineInv, NEW list \in {"send", "receive"},
         RemoveFromEventList(list),
         uxMessagesWaiting' \in 0 .. QueueLength, Others,
         \/ UNCHANGED <<scheduler, uxState>>
         \/ /\ scheduler = "run" /\ scheduler' \in {"run", "pending"}
            /\ \E state \in States : uxState' = [uxState EXCEPT ![pxCurrentCoRoutine] = state]
  PROVE  CoTypes' /\ WaitsRight' /\ ItemsAgree' /\ ClockRight' /\ WakesRight'
  <1>1. /\ UNCHANGED <<genericList, wakeTime, uxTopCoRoutineReadyPriority>>
        /\ eventList' \in [CoRoutines -> {"null", "receive", "send", "pending"}]
        /\ \A c \in CoRoutines : eventList[c] = "null" => eventList'[c] = "null"
        /\ \A c \in CoRoutines : eventList'[c] # "pending" => eventList'[c] = eventList[c]
    BY RemoveFacts
  <1>2. /\ uxState' \in [CoRoutines -> States]
        /\ \A c \in CoRoutines : eventList[c] # "null" => uxState'[c] = uxState[c]
        /\ scheduler' \in {"pending", "delayed", "select", "run"}
        /\ scheduler' = "run" => scheduler = "run"
        /\ scheduler' = "delayed" <=> scheduler = "delayed"
    BY RunFacts DEF CoRoutineInv, CoTypes, CoRoutineTypeOK
  <1>3. CoTypes'
    BY <1>1, <1>2 DEF CoTypes, CoRoutineTypeOK, CoRoutineInv, Others
  <1>4. WaitsRight'
    BY <1>1, <1>2 DEF CoRoutineInv, WaitsRight, Waiting
  <1>5. ItemsAgree'
    BY <1>1, <1>2, RunFacts DEF CoRoutineInv, ItemsAgree, Ready, Others
  <1>6. ClockRight' /\ WakesRight'
    BY <1>1, <1>2 DEF CoRoutineInv, ClockRight, WakesRight, Others
  <1>. QED
    BY <1>3, <1>4, <1>5, <1>6

\* A message is put, which lets one that waits for it go.
LEMMA PutCovers ==
  ASSUME CoRoutineAssumption, CoRoutineInv, Put,
         \/ UNCHANGED uxState
         \/ /\ scheduler = "run" /\ uxState[pxCurrentCoRoutine] \notin Receiving
            /\ \E state \in States : uxState' = [uxState EXCEPT ![pxCurrentCoRoutine] = state]
  PROVE  ReceiversCovered'
  <1>1. RemoveFromEventList("receive") /\ uxMessagesWaiting' = uxMessagesWaiting + 1
    BY DEF Put
  <1>2. CASE Waiting("receive") = {}
    <2>1. Waiting("receive")' = {}
      BY <1>1, <1>2, RemoveFacts, RunFacts DEF Waiting
    <2>. QED
      BY <2>1 DEF ReceiversCovered
  <1>3. CASE Waiting("receive") # {}
    <2>1. PICK c \in Waiting("receive") : eventList' = [eventList EXCEPT ![c] = "pending"]
      BY <1>1, <1>3, RemoveFacts
    <2>2. c \in CoRoutines /\ eventList[c] = "receive" /\ uxState[c] = "rereceive"
      BY <2>1 DEF Waiting, CoRoutineInv, WaitsRight
    <2>3. uxState'[c] = "rereceive"
      BY <2>2, RunFacts
    <2>4. c \notin Coming(Receiving) /\ c \in Coming(Receiving)'
      BY <2>1, <2>2, <2>3, RunFacts DEF Coming, Receiving
    <2>5. Coming(Receiving) \subseteq Coming(Receiving)'
      BY <2>1, RunFacts DEF Coming, Receiving
    <2>6. Cardinality(Coming(Receiving) \cup {c}) = Cardinality(Coming(Receiving)) + 1
      BY <2>4, ComingFinite, FS_AddElement
    <2>7. Cardinality(Coming(Receiving) \cup {c}) <= Cardinality(Coming(Receiving)')
      BY <2>4, <2>5, ComingFinite, FS_Subset
    <2>8. uxMessagesWaiting <= Cardinality(Coming(Receiving))
      BY <1>3 DEF CoRoutineInv, ReceiversCovered, Receiving
    <2>9. uxMessagesWaiting' <= Cardinality(Coming(Receiving)')
      BY <1>1, <2>6, <2>7, <2>8, ComingFinite, RunFacts
    <2>. QED
      BY <2>9 DEF ReceiversCovered, Receiving
  <1>. QED
    BY <1>2, <1>3

\* A message is taken, by a handler or the current co-routine, which comes no more.
LEMMA TakeCovers ==
  ASSUME CoRoutineAssumption, CoRoutineInv, Take, uxMessagesWaiting > 0,
         UNCHANGED pxCurrentCoRoutine,
         \/ UNCHANGED uxState
         \/ scheduler = "run" /\ uxState' = [uxState EXCEPT ![pxCurrentCoRoutine] = "begin"]
  PROVE  ReceiversCovered'
  <1>1. RemoveFromEventList("send") /\ uxMessagesWaiting' = uxMessagesWaiting - 1
    BY DEF Take
  <1>. DEFINE c == pxCurrentCoRoutine
  <1>2. Waiting("receive")' = Waiting("receive")
    BY <1>1, RemoveFacts, RunFacts DEF Waiting
  <1>3. Coming(Receiving) \ {c} \subseteq Coming(Receiving)'
    BY <1>1, RemoveFacts, RunFacts DEF Coming, Receiving
  <1>4. IsFiniteSet(Coming(Receiving) \ {c})
        /\ Cardinality(Coming(Receiving) \ {c}) >= Cardinality(Coming(Receiving)) - 1
    BY ComingFinite, FS_RemoveElement
  <1>5. Cardinality(Coming(Receiving) \ {c}) <= Cardinality(Coming(Receiving)')
        /\ Cardinality(Coming(Receiving) \ {c}) \in Nat
    BY <1>3, <1>4, ComingFinite, FS_Subset, FS_CardinalityType
  <1>6. ASSUME Waiting("receive") # {} PROVE uxMessagesWaiting <= Cardinality(Coming(Receiving))
    BY <1>6 DEF CoRoutineInv, ReceiversCovered, Receiving
  <1>7. ASSUME Waiting("receive") # {} PROVE uxMessagesWaiting' <= Cardinality(Coming(Receiving)')
    BY <1>1, <1>4, <1>5, <1>6, <1>7, ComingFinite, RunFacts
  <1>. QED
    BY <1>2, <1>7 DEF ReceiversCovered, Receiving

\* Nothing is put or taken, and who goes on does not come to receive, or does so still.
LEMMA SameCovers ==
  ASSUME CoRoutineAssumption, CoRoutineInv, UNCHANGED uxMessagesWaiting,
         Waiting("receive")' \subseteq Waiting("receive"), Coming(Receiving) \subseteq Coming(Receiving)'
  PROVE  ReceiversCovered'
  <1>1. uxMessagesWaiting \in Nat
    BY RunFacts
  <1>. QED
    BY <1>1, MoreComing

LEMMA DelayStep ==
  ASSUME CoRoutineAssumption, CoRoutineInv, NEW ticks \in Delays, Delay(ticks)
  PROVE  CoRoutineInv'
  <1>1. /\ scheduler = "run" /\ uxState[pxCurrentCoRoutine] = "begin" /\ GoesOn("begin", TRUE)
        /\ UNCHANGED uxMessagesWaiting /\ "begin" \in States
    BY DEF Delay, At, States
  <1>2. CASE ticks > 0
    <2>1. AddToDelayed(ticks, "null")
      BY <1>2 DEF Delay
    <2>2. eventList' = eventList
      BY <1>1, <2>1, RunFacts DEF AddToDelayed
    <2>3. uxState' = uxState
      BY <1>1, RunFacts DEF GoesOn
    <2>4. ReceiversCovered'
      BY <1>1, <2>2, <2>3 DEF CoRoutineInv, ReceiversCovered, Waiting, Coming
    <2>5. CoTypes' /\ WaitsRight' /\ ItemsAgree' /\ ClockRight' /\ WakesRight'
      BY <1>1, <1>2, <2>1, AddToDelayedStep
    <2>. QED
      BY <2>4, <2>5 DEF CoRoutineInv
  <1>3. CASE ~(ticks > 0)
    <2>1. UNCHANGED <<genericList, eventList, wakeTime, uxTopCoRoutineReadyPriority>>
      BY <1>3 DEF Delay, listVars
    <2>2. uxState' = uxState
      BY <1>1, RunFacts DEF GoesOn
    <2>3. ReceiversCovered'
      BY <1>1, <2>1, <2>2 DEF CoRoutineInv, ReceiversCovered, Waiting, Coming
    <2>4. CoTypes' /\ WaitsRight' /\ ItemsAgree' /\ ClockRight' /\ WakesRight'
      BY <1>1, <2>1, GoesOnStep, RunFacts
    <2>. QED
      BY <2>3, <2>4 DEF CoRoutineInv
  <1>. QED
    BY <1>2, <1>3

\* Where a co-routine that does not receive goes on does not matter to receivers.
LEMMA ElsewhereCovers ==
  ASSUME CoRoutineAssumption, CoRoutineInv, scheduler = "run",
         uxState[pxCurrentCoRoutine] \notin Receiving, UNCHANGED uxMessagesWaiting,
         NEW state \in States, uxState' = [uxState EXCEPT ![pxCurrentCoRoutine] = state],
         \A c \in CoRoutines \ {pxCurrentCoRoutine} : eventList'[c] = eventList[c],
         eventList'[pxCurrentCoRoutine] # "receive"
  PROVE  ReceiversCovered'
  <1>1. Waiting("receive")' \subseteq Waiting("receive")
    BY DEF Waiting
  <1>2. Coming(Receiving) \subseteq Coming(Receiving)'
    BY RunFacts DEF Coming
  <1>. QED
    BY <1>1, <1>2, SameCovers

LEMMA SendStep ==
  ASSUME CoRoutineAssumption, CoRoutineInv, NEW ticks \in Delays, Send(ticks)
  PROVE  CoRoutineInv'
  <1>1. /\ scheduler = "run" /\ uxState[pxCurrentCoRoutine] = "begin" /\ UNCHANGED uxMessagesWaiting
        /\ UNCHANGED <<genericList, eventList, wakeTime, uxTopCoRoutineReadyPriority>>
    BY DEF Send, At, listVars
  <1>2. PICK state \in States : GoesOn(state, FALSE)
    <2>1. uxMessagesWaiting < QueueLength \/ uxMessagesWaiting = QueueLength
      BY RunFacts
    <2>2. ticks > 0 \/ ticks = 0
      BY DEF CoRoutineAssumption
    <2>3. CASE uxMessagesWaiting < QueueLength
      <3>1. ~(uxMessagesWaiting = QueueLength)
        BY <2>3, RunFacts
      <3>2. GoesOn("sending", FALSE)
        BY <2>3, <3>1 DEF Send
      <3>. QED
        BY <3>2 DEF States
    <2>4. CASE uxMessagesWaiting = QueueLength /\ ticks > 0
      <3>1. ~(uxMessagesWaiting < QueueLength) /\ ~(ticks = 0)
        BY <2>4, RunFacts DEF CoRoutineAssumption
      <3>2. GoesOn("full", FALSE)
        BY <2>4, <3>1 DEF Send
      <3>. QED
        BY <3>2 DEF States
    <2>5. CASE uxMessagesWaiting = QueueLength /\ ticks = 0
      <3>1. ~(uxMessagesWaiting < QueueLength) /\ ~(ticks > 0)
        BY <2>5, RunFacts
      <3>2. GoesOn("begin", FALSE)
        BY <2>5, <3>1 DEF Send
      <3>. QED
        BY <3>2 DEF States
    <2>. QED
      BY <2>1, <2>2, <2>3, <2>4, <2>5
  <1>3. uxState' = [uxState EXCEPT ![pxCurrentCoRoutine] = state]
    BY <1>2 DEF GoesOn
  <1>4. ReceiversCovered'
    BY <1>1, <1>3, ElsewhereCovers, RunFacts DEF Receiving
  <1>5. CoTypes' /\ WaitsRight' /\ ItemsAgree' /\ ClockRight' /\ WakesRight'
    BY <1>1, <1>2, GoesOnStep, RunFacts
  <1>. QED
    BY <1>4, <1>5 DEF CoRoutineInv

LEMMA SendBlocksStep ==
  ASSUME CoRoutineAssumption, CoRoutineInv, NEW ticks \in Delays, SendBlocks(ticks)
  PROVE  CoRoutineInv'
  <1>1. /\ scheduler = "run" /\ uxState[pxCurrentCoRoutine] = "full" /\ GoesOn("resend", TRUE)
        /\ UNCHANGED uxMessagesWaiting /\ ticks > 0 /\ AddToDelayed(ticks, "send") /\ "resend" \in States
    BY DEF SendBlocks, At, States
  <1>2. /\ eventList' = [eventList EXCEPT ![pxCurrentCoRoutine] = "send"]
        /\ uxState' = [uxState EXCEPT ![pxCurrentCoRoutine] = "resend"]
    BY <1>1 DEF AddToDelayed, GoesOn
  <1>3. ReceiversCovered'
    BY <1>1, <1>2, ElsewhereCovers, RunFacts DEF Receiving
  <1>4. CoTypes' /\ WaitsRight' /\ ItemsAgree' /\ ClockRight' /\ WakesRight'
    BY <1>1, AddToDelayedStep
  <1>. QED
    BY <1>3, <1>4 DEF CoRoutineInv

LEMMA SendNowStep ==
  ASSUME CoRoutineAssumption, CoRoutineInv, NEW state, SendNow(state)
  PROVE  CoRoutineInv'
  <1>1. /\ scheduler = "run" /\ uxState[pxCurrentCoRoutine] = state
        /\ state \in {"sending", "resend"} /\ state \notin Receiving /\ "begin" \in States
    BY DEF SendNow, At, Receiving, States
  <1>2. CASE uxMessagesWaiting < QueueLength
    <2>1. Put /\ GoesOn("begin", YieldRequired)
      BY <1>2 DEF SendNow
    <2>2. /\ Others /\ scheduler' \in {"run", "pending"}
          /\ uxState' = [uxState EXCEPT ![pxCurrentCoRoutine] = "begin"]
      BY <2>1 DEF GoesOn, Others, tickVars
    <2>3. RemoveFromEventList("receive") /\ uxMessagesWaiting' \in 0 .. QueueLength
      BY <1>2, <2>1, RunFacts DEF Put
    <2>4. ReceiversCovered'
      BY <1>1, <2>1, <2>2, PutCovers
    <2>5. CoTypes' /\ WaitsRight' /\ ItemsAgree' /\ ClockRight' /\ WakesRight'
      BY <1>1, <2>2, <2>3, MovesStep
    <2>. QED
      BY <2>4, <2>5 DEF CoRoutineInv
  <1>3. CASE ~(uxMessagesWaiting < QueueLength)
    <2>1. /\ GoesOn("begin", FALSE) /\ UNCHANGED uxMessagesWaiting
          /\ UNCHANGED <<genericList, eventList, wakeTime, uxTopCoRoutineReadyPriority>>
      BY <1>3 DEF SendNow, listVars
    <2>2. uxState' = [uxState EXCEPT ![pxCurrentCoRoutine] = "begin"]
      BY <2>1 DEF GoesOn
    <2>3. ReceiversCovered'
      BY <1>1, <2>1, <2>2, ElsewhereCovers, RunFacts
    <2>4. CoTypes' /\ WaitsRight' /\ ItemsAgree' /\ ClockRight' /\ WakesRight'
      BY <1>1, <2>1, GoesOnStep, RunFacts
    <2>. QED
      BY <2>3, <2>4 DEF CoRoutineInv
  <1>. QED
    BY <1>2, <1>3

LEMMA ReceiveStep ==
  ASSUME CoRoutineAssumption, CoRoutineInv, NEW ticks \in Delays, Receive(ticks)
  PROVE  CoRoutineInv'
  <1>1. /\ scheduler = "run" /\ uxState[pxCurrentCoRoutine] = "begin" /\ UNCHANGED uxMessagesWaiting
        /\ {"begin", "rereceive", "receiving"} \subseteq States
    BY DEF Receive, At, States
  <1>2. ASSUME uxMessagesWaiting = 0, ticks > 0, AddToDelayed(ticks, "receive"),
               GoesOn("rereceive", TRUE)
        PROVE  CoRoutineInv'
    <2>1. ReceiversCovered'
      BY <1>1, <1>2, ComingFinite DEF ReceiversCovered, Receiving
    <2>2. CoTypes' /\ WaitsRight' /\ ItemsAgree' /\ ClockRight' /\ WakesRight'
      BY <1>1, <1>2, AddToDelayedStep
    <2>. QED
      BY <2>1, <2>2 DEF CoRoutineInv
  <1>3. ASSUME NEW state \in {"begin", "receiving"}, GoesOn(state, FALSE), UNCHANGED listVars
        PROVE  CoRoutineInv'
    <2>1. /\ uxState' = [uxState EXCEPT ![pxCurrentCoRoutine] = state] /\ state \in States
          /\ UNCHANGED <<genericList, eventList, wakeTime, uxTopCoRoutineReadyPriority>>
      BY <1>1, <1>3 DEF GoesOn, listVars
    <2>2. ReceiversCovered'
      BY <1>1, <2>1, ElsewhereCovers, RunFacts DEF Receiving
    <2>3. CoTypes' /\ WaitsRight' /\ ItemsAgree' /\ ClockRight' /\ WakesRight'
      BY <1>1, <1>3, <2>1, GoesOnStep, RunFacts
    <2>. QED
      BY <2>2, <2>3 DEF CoRoutineInv
  <1>. QED
    BY <1>2, <1>3 DEF Receive

LEMMA ReceiveNowStep ==
  ASSUME CoRoutineAssumption, CoRoutineInv, NEW state, ReceiveNow(state)
  PROVE  CoRoutineInv'
  <1>1. scheduler = "run" /\ "begin" \in States
    BY DEF ReceiveNow, At, States
  <1>2. CASE uxMessagesWaiting > 0
    <2>1. Take /\ GoesOn("begin", YieldRequired)
      BY <1>2 DEF ReceiveNow
    <2>2. /\ Others /\ scheduler' \in {"run", "pending"}
          /\ uxState' = [uxState EXCEPT ![pxCurrentCoRoutine] = "begin"]
      BY <2>1 DEF GoesOn, Others, tickVars
    <2>3. RemoveFromEventList("send") /\ uxMessagesWaiting' \in 0 .. QueueLength
      BY <1>2, <2>1, RunFacts DEF Take
    <2>4. ReceiversCovered'
      BY <1>1, <1>2, <2>1, <2>2, TakeCovers DEF Others
    <2>5. CoTypes' /\ WaitsRight' /\ ItemsAgree' /\ ClockRight' /\ WakesRight'
      BY <1>1, <2>2, <2>3, MovesStep
    <2>. QED
      BY <2>4, <2>5 DEF CoRoutineInv
  <1>3. CASE ~(uxMessagesWaiting > 0)
    <2>0. uxMessagesWaiting = 0
      <3>1. uxMessagesWaiting \in 0 .. QueueLength /\ QueueLength \in Nat
        BY RunFacts
      <3>. QED
        BY <1>3, <3>1
    <2>1. /\ GoesOn("begin", FALSE) /\ UNCHANGED uxMessagesWaiting /\ uxMessagesWaiting = 0
          /\ UNCHANGED <<genericList, eventList, wakeTime, uxTopCoRoutineReadyPriority>>
      BY <1>3, <2>0 DEF ReceiveNow, listVars
    <2>2. ReceiversCovered'
      BY <2>1, ComingFinite DEF ReceiversCovered, Receiving
    <2>3. CoTypes' /\ WaitsRight' /\ ItemsAgree' /\ ClockRight' /\ WakesRight'
      BY <1>1, <2>1, GoesOnStep, RunFacts
    <2>. QED
      BY <2>2, <2>3 DEF CoRoutineInv
  <1>. QED
    BY <1>2, <1>3

LEMMA HandlerStep ==
  ASSUME CoRoutineAssumption, CoRoutineInv, SendFromISR \/ ReceiveFromISR
  PROVE  CoRoutineInv'
  <1>1. CASE SendFromISR
    <2>1. /\ Put /\ RemoveFromEventList("receive") /\ uxMessagesWaiting' \in 0 .. QueueLength
          /\ Others /\ UNCHANGED <<scheduler, uxState>>
      BY <1>1, RunFacts DEF SendFromISR, Put, Others, tickVars
    <2>2. ReceiversCovered'
      BY <2>1, PutCovers
    <2>3. CoTypes' /\ WaitsRight' /\ ItemsAgree' /\ ClockRight' /\ WakesRight'
      BY <2>1, MovesStep
    <2>. QED
      BY <2>2, <2>3 DEF CoRoutineInv
  <1>2. CASE ReceiveFromISR
    <2>1. /\ Take /\ RemoveFromEventList("send") /\ uxMessagesWaiting' \in 0 .. QueueLength
          /\ Others /\ UNCHANGED <<scheduler, uxState>> /\ uxMessagesWaiting > 0
      BY <1>2, RunFacts DEF ReceiveFromISR, Take, Others, tickVars
    <2>2. ReceiversCovered'
      BY <2>1, TakeCovers DEF Others
    <2>3. CoTypes' /\ WaitsRight' /\ ItemsAgree' /\ ClockRight' /\ WakesRight'
      BY <2>1, MovesStep
    <2>. QED
      BY <2>2, <2>3 DEF CoRoutineInv
  <1>. QED
    BY <1>1, <1>2

\* No co-routine is in an event list and ready, or ready and out of the sight of the scheduler;
\* who is delayed is due in the cycle of the list it is in; and none waits for items that
\* nobody is on the way to, whatever ticks and handlers do between the steps of
\* vCoRoutineSchedule() and of the queue macros (croutine.c, xQueueCRReceive).
THEOREM CoRoutinesCorrect ==
  ASSUME CoRoutineAssumption
  PROVE  CoRoutineSpec => [](CoRoutineTypeOK /\ CoRoutinesRight)
  <1>1. CoRoutineInit => CoRoutineInv
    BY CoInit
  <1>2. CoRoutineInv /\ [CoRoutineNext]_coRoutineVars => CoRoutineInv'
    <2>1. ASSUME CoRoutineInv, CoRoutineNext PROVE CoRoutineInv'
      <3>1. ASSUME CheckPendingReadyList \/ CheckDelayedList \/ Select \/ Tick \/ SendFromISR \/ ReceiveFromISR
            PROVE  CoRoutineInv'
        BY <2>1, <3>1, PendingStep, DelayedStep, SelectStep, CoTickStep, HandlerStep
      <3>2. ASSUME NEW ticks \in Delays,
                   Delay(ticks) \/ Send(ticks) \/ SendBlocks(ticks) \/ Receive(ticks)
            PROVE  CoRoutineInv'
        BY <2>1, <3>2, DelayStep, SendStep, SendBlocksStep, ReceiveStep
      <3>3. ASSUME NEW state, SendNow(state) \/ ReceiveNow(state)
            PROVE  CoRoutineInv'
        BY <2>1, <3>3, SendNowStep, ReceiveNowStep
      <3>. QED
        BY <2>1, <3>1, <3>2, <3>3 DEF CoRoutineNext
    <2>2. ASSUME CoRoutineInv, UNCHANGED coRoutineVars PROVE CoRoutineInv'
      BY <2>2 DEF CoRoutineInv, CoTypes, CoRoutineTypeOK, WaitsRight, Waiting, ItemsAgree, Ready,
         ClockRight,
         WakesRight, ReceiversCovered, Coming, coRoutineVars, listVars, tickVars
    <2>. QED
      BY <2>1, <2>2
  <1>3. CoRoutineInv => CoRoutineTypeOK /\ CoRoutinesRight
    <2>. SUFFICES ASSUME CoRoutineInv PROVE CoRoutineTypeOK /\ CoRoutinesRight
      OBVIOUS
    <2>1. ASSUME scheduler = "delayed"
          PROVE  (xCoRoutineTickCount + xPassedTicks - xLastTickCount) % TickMod
                   <= (xTickCount - xLastTickCount) % TickMod
      <3>1. /\ xCoRoutineTickCount \in 0 .. TickMod - 1 /\ xLastTickCount \in 0 .. TickMod - 1
            /\ xPassedTicks \in 0 .. TickMod - 1 /\ TickMod \in Nat \ {0}
            /\ ((xCoRoutineTickCount - xLastTickCount) % TickMod) + xPassedTicks
                 <= (xTickCount - xLastTickCount) % TickMod
            /\ xTickCount \in 0 .. TickMod - 1
        BY <2>1 DEF CoRoutineInv, CoTypes, CoRoutineTypeOK, CoRoutineAssumption, ClockRight
      <3>2. PICK d \in -TickMod .. 2 * TickMod - 1 : d = xCoRoutineTickCount - xLastTickCount
        BY <3>1
      <3>3. d % TickMod = IF d < 0 THEN d + TickMod ELSE IF d < TickMod THEN d ELSE d - TickMod
        BY <3>1, CoModFacts
      <3>4. PICK e \in -TickMod .. 2 * TickMod - 1 : e = d + xPassedTicks
        BY <3>1, <3>2
      <3>5. e % TickMod = IF e < 0 THEN e + TickMod ELSE IF e < TickMod THEN e ELSE e - TickMod
        BY <3>1, CoModFacts
      <3>6. xCoRoutineTickCount + xPassedTicks - xLastTickCount = e
        BY <3>1, <3>2, <3>4
      <3>7. (xTickCount - xLastTickCount) % TickMod \in 0 .. TickMod - 1
        BY <3>1
      <3>8. (d % TickMod) + xPassedTicks <= (xTickCount - xLastTickCount) % TickMod
        BY <3>1, <3>2
      <3>9. e % TickMod <= (xTickCount - xLastTickCount) % TickMod
        BY <3>1, <3>2, <3>3, <3>4, <3>5, <3>7, <3>8
      <3>. QED
        BY <3>6, <3>9
    <2>2. DelaysRight
      BY <2>1 DEF CoRoutineInv, WakesRight, DelaysRight
    <2>. QED
      BY <2>2 DEF CoRoutineInv, CoTypes, CoRoutinesRight
  <1>. QED
    BY <1>1, <1>2, <1>3, PTL DEF CoRoutineSpec

-----------------------------------------------------------------------------
\* Memory heaps of RT-Thread.

\* Headers and the smallest item are not empty, and the pool has room for an item.
MemHeapAssumption ==
  /\ PoolSize \in Nat /\ Header \in Nat \ {0} /\ MiniAlloc \in Nat \ {0}
  /\ 2 * Header + MiniAlloc <= PoolSize /\ Wanted \subseteq Nat

\* A ring: each item ends where the next begins, and is linked back to.
IsRing(nx, pv, us) ==
  LET D == DOMAIN us IN
  /\ D \subseteq 0 .. Tailer /\ 0 \in D /\ Tailer \in D
  /\ nx \in [D -> 0 .. Tailer] /\ pv \in [D -> 0 .. Tailer] /\ us \in [D -> BOOLEAN]
  /\ us[Tailer] /\ nx[Tailer] = 0 /\ pv[0] = Tailer
  /\ \A i \in D \ {Tailer} : /\ nx[i] \in D /\ nx[i] >= i + Header + MiniAlloc
                             /\ \A j \in D : j <= i \/ j >= nx[i]
  /\ \A n \in D \ {0} : pv[n] \in D /\ pv[n] < n /\ nx[pv[n]] = n

\* A list that has each element of F once.
Lists(s, F) ==
  /\ s \in Seq(F)
  /\ \A k, l \in 1 .. Len(s) : s[k] = s[l] => k = l
  /\ \A x \in F : \E k \in 1 .. Len(s) : s[k] = x

FreeOnes(us) == {i \in DOMAIN us : ~us[i]}
IsRoom(nx, us, a) == \E i \in DOMAIN us : ~us[i] /\ i + Header <= a /\ a < nx[i]
Rooms(nx, us) == {a \in 0 .. PoolSize : IsRoom(nx, us, a)}

ItemsInv(k) ==
  /\ IsRing(k.next, k.prev, k.used)
  /\ \A i \in DOMAIN k.used : k.used[i] \/ k.used[k.next[i]]
  /\ Lists(k.freeItems, FreeOnes(k.used))

MemHeapInv ==
  /\ ItemsInv(Items)
  /\ available = Cardinality(Rooms(next, used))
  /\ PoolSize - available <= maxUsed /\ maxUsed \in 0 .. PoolSize

LEMMA MemHeapConstants ==
  ASSUME MemHeapAssumption
  PROVE  /\ PoolSize \in Nat \ {0} /\ Header \in Nat \ {0} /\ MiniAlloc \in Nat \ {0}
         /\ Wanted \subseteq Nat
         /\ Tailer \in Nat \ {0} /\ Tailer = PoolSize - Header
         /\ Tailer >= Header + MiniAlloc /\ Tailer < PoolSize
  BY DEF MemHeapAssumption, Tailer

-----------------------------------------------------------------------------
\* The free list: an item is put first, and one is taken out.

LEMMA PutFirst ==
  ASSUME NEW F, NEW s, Lists(s, F), NEW x, x \notin F
  PROVE  Lists(<<x>> \o s, F \cup {x})
  <1>. DEFINE w == <<x>> \o s
  <1>1. s \in Seq(F) /\ Len(s) \in Nat /\ \A k \in 1 .. Len(s) : s[k] \in F
    BY LenProperties, ElementOfSeq DEF Lists
  <1>2. <<x>> \in Seq(F \cup {x}) /\ Len(<<x>>) = 1 /\ <<x>>[1] = x /\ s \in Seq(F \cup {x})
    BY <1>1, SeqMonotonic
  <1>3. /\ w \in Seq(F \cup {x}) /\ Len(w) = Len(s) + 1
        /\ \A k \in 1 .. Len(s) + 1 : w[k] = IF k <= 1 THEN <<x>>[k] ELSE s[k - 1]
    BY <1>1, <1>2, ConcatProperties
  <1>. HIDE DEF w
  <1>4. w[1] = x /\ \A k \in 1 .. Len(s) : k + 1 \in 1 .. Len(w) /\ w[k + 1] = s[k]
    BY <1>1, <1>2, <1>3
  <1>5. \A k \in 1 .. Len(w) : k = 1 \/ (k - 1 \in 1 .. Len(s) /\ w[k] = s[k - 1])
    BY <1>1, <1>3
  <1>6. ASSUME NEW k \in 1 .. Len(w), NEW l \in 1 .. Len(w), w[k] = w[l] PROVE k = l
    <2>1. CASE k = 1 /\ l # 1
      BY <2>1, <1>1, <1>4, <1>5, <1>6
    <2>2. CASE k # 1 /\ l = 1
      BY <2>2, <1>1, <1>4, <1>5, <1>6
    <2>3. CASE k # 1 /\ l # 1
      <3>1. k - 1 \in 1 .. Len(s) /\ l - 1 \in 1 .. Len(s) /\ s[k - 1] = s[l - 1]
        BY <2>3, <1>5, <1>6
      <3>2. \A i, j \in 1 .. Len(s) : s[i] = s[j] => i = j
        BY DEF Lists
      <3>3. k - 1 = l - 1
        BY <3>1, <3>2
      <3>. QED
        BY <3>3, <1>1, <1>3
    <2>. QED
      BY <2>1, <2>2, <2>3
  <1>7. ASSUME NEW y \in F \cup {x} PROVE \E k \in 1 .. Len(w) : w[k] = y
    <2>1. CASE y = x
      <3>1. 1 \in 1 .. Len(w)
        BY <1>1, <1>3
      <3>. QED
        BY <2>1, <3>1, <1>4
    <2>2. CASE y \in F
      <3>1. PICK k \in 1 .. Len(s) : s[k] = y
        BY <2>2 DEF Lists
      <3>. QED
        BY <3>1, <1>4
    <2>. QED
      BY <2>1, <2>2
  <1>8. Lists(w, F \cup {x})
    BY <1>3, <1>6, <1>7 DEF Lists
  <1>. QED
    BY <1>8 DEF w

LEMMA WithoutOne ==
  ASSUME NEW F, NEW w \in Seq(F), NEW k \in 1 .. Len(w),
         NEW s, s = SubSeq(w, 1, k - 1) \o SubSeq(w, k + 1, Len(w))
  PROVE  /\ s \in Seq(F) /\ Len(s) = Len(w) - 1
         /\ \A i \in 1 .. Len(w) - 1 : s[i] = IF i < k THEN w[i] ELSE w[i + 1]
  <1>. DEFINE a == SubSeq(w, 1, k - 1)
              b == SubSeq(w, k + 1, Len(w))
  <1>0. Len(w) \in Nat /\ \A i \in 1 .. Len(w) : w[i] \in F
    BY LenProperties, ElementOfSeq
  <1>1. a \in Seq(F) /\ Len(a) = k - 1 /\ \A i \in 1 .. k - 1 : a[i] = w[i]
    BY <1>0, SubSeqProperties
  <1>2. b \in Seq(F) /\ Len(b) = Len(w) - k /\ \A i \in 1 .. Len(w) - k : b[i] = w[k + i]
    BY <1>0, SubSeqProperties
  <1>. HIDE DEF a, b
  <1>n. Len(w) \in Nat /\ k \in Nat /\ Len(a) + Len(b) = Len(w) - 1 /\ Len(a) = k - 1
    BY <1>0, <1>1, <1>2
  <1>3. a \o b \in Seq(F) /\ Len(a \o b) = Len(w) - 1
    BY <1>1, <1>2, <1>n, ConcatProperties
  <1>4. \A i \in 1 .. Len(w) - 1 : (a \o b)[i] = IF i <= k - 1 THEN a[i] ELSE b[i - (k - 1)]
    BY <1>1, <1>2, <1>n, ConcatProperties
  <1>5. ASSUME NEW i \in 1 .. Len(w) - 1
        PROVE  (a \o b)[i] = IF i < k THEN w[i] ELSE w[i + 1]
    <2>1. CASE i < k
      <3>1. i \in 1 .. k - 1 /\ (a \o b)[i] = a[i]
        BY <1>4, <1>n, <2>1
      <3>. QED
        BY <1>1, <1>n, <2>1, <3>1
    <2>2. CASE i >= k
      <3>1. i - (k - 1) \in 1 .. Len(w) - k /\ k + (i - (k - 1)) = i + 1
        BY <1>n, <2>2
      <3>2. (a \o b)[i] = b[i - (k - 1)]
        BY <1>4, <1>n, <2>2
      <3>3. (a \o b)[i] = w[i + 1]
        BY <1>2, <3>1, <3>2
      <3>. QED
        BY <1>n, <2>2, <3>3
    <2>. QED
      BY <1>n, <2>1, <2>2
  <1>. QED
    BY <1>3, <1>5 DEF a, b

LEMMA TakenOut ==
  ASSUME NEW F, NEW s, Lists(s, F), NEW x
  PROVE  Lists(Unlinked(s, x), F \ {x})
  <1>1. /\ s \in Seq(F) /\ Len(s) \in Nat /\ DOMAIN s = 1 .. Len(s)
        /\ \A k \in 1 .. Len(s) : s[k] \in F
    BY LenProperties, ElementOfSeq DEF Lists
  <1>2. CASE ~ \E k \in DOMAIN s : s[k] = x
    <2>1. Unlinked(s, x) = s
      BY <1>2 DEF Unlinked
    <2>2. x \notin F
      BY <1>1, <1>2 DEF Lists
    <2>3. F \ {x} = F
      BY <2>2
    <2>. QED
      BY <2>1, <2>3
  <1>3. CASE \E k \in DOMAIN s : s[k] = x
    <2>. DEFINE k == CHOOSE k \in DOMAIN s : s[k] = x
                w == SubSeq(s, 1, k - 1) \o SubSeq(s, k + 1, Len(s))
    <2>1. k \in 1 .. Len(s) /\ s[k] = x
      BY <1>1, <1>3
    <2>2. Unlinked(s, x) = w
      BY <1>3 DEF Unlinked
    <2>. HIDE DEF k
    <2>3. /\ w \in Seq(F) /\ Len(w) = Len(s) - 1
          /\ \A i \in 1 .. Len(s) - 1 : w[i] = IF i < k THEN s[i] ELSE s[i + 1]
      BY <1>1, <2>1, WithoutOne
    <2>. HIDE DEF w
    <2>. DEFINE at(i) == IF i < k THEN i ELSE i + 1
    <2>4. /\ \A i \in 1 .. Len(w) : at(i) \in 1 .. Len(s) /\ at(i) # k /\ w[i] = s[at(i)]
          /\ \A i, j \in 1 .. Len(w) : at(i) = at(j) => i = j
      BY <1>1, <2>1, <2>3
    <2>5. \A l \in 1 .. Len(s) : l # k => \E i \in 1 .. Len(w) : at(i) = l
      <3>1. ASSUME NEW l \in 1 .. Len(s), l < k PROVE l \in 1 .. Len(w) /\ at(l) = l
        BY <3>1, <1>1, <2>1, <2>3
      <3>2. ASSUME NEW l \in 1 .. Len(s), l > k PROVE l - 1 \in 1 .. Len(w) /\ at(l - 1) = l
        BY <3>2, <1>1, <2>1, <2>3
      <3>3. \A l \in 1 .. Len(s) : l # k => l < k \/ l > k
        BY <1>1, <2>1
      <3>. QED
        BY <3>1, <3>2, <3>3
    <2>. HIDE DEF at
    <2>6. \A i \in 1 .. Len(w) : w[i] \in F \ {x}
      BY <1>1, <2>1, <2>4 DEF Lists
    <2>7. w \in Seq(F \ {x})
      <3>1. Len(w) \in Nat /\ w = [i \in 1 .. Len(w) |-> w[i]]
        BY <2>3, LenProperties
      <3>. QED
        BY <2>6, <3>1, SeqDef
    <2>8. ASSUME NEW i \in 1 .. Len(w), NEW j \in 1 .. Len(w), w[i] = w[j] PROVE i = j
      <3>1. s[at(i)] = s[at(j)]
        BY <2>4, <2>8
      <3>2. at(i) = at(j)
        BY <2>4, <3>1 DEF Lists
      <3>. QED
        BY <2>4, <3>2
    <2>9. ASSUME NEW y \in F \ {x} PROVE \E i \in 1 .. Len(w) : w[i] = y
      <3>1. PICK l \in 1 .. Len(s) : s[l] = y
        BY DEF Lists
      <3>2. l # k
        BY <2>1, <3>1
      <3>3. PICK i \in 1 .. Len(w) : at(i) = l
        BY <2>5, <3>2
      <3>. QED
        BY <2>4, <3>1, <3>3
    <2>. QED
      BY <2>2, <2>7, <2>8, <2>9 DEF Lists
  <1>. QED
    BY <1>2, <1>3

-----------------------------------------------------------------------------
\* The ring.

LEMMA RingFacts ==
  ASSUME MemHeapAssumption, NEW nx, NEW pv, NEW us, IsRing(nx, pv, us)
  PROVE  /\ Tailer \in Nat \ {0} /\ Header \in Nat \ {0} /\ MiniAlloc \in Nat \ {0}
         /\ DOMAIN us \subseteq 0 .. Tailer /\ 0 \in DOMAIN us /\ Tailer \in DOMAIN us
         /\ us[Tailer] /\ nx[Tailer] = 0 /\ pv[0] = Tailer
         /\ \A i \in DOMAIN us : /\ i \in Nat /\ nx[i] \in DOMAIN us /\ nx[i] \in Nat
                                 /\ pv[i] \in DOMAIN us
         /\ \A i \in DOMAIN us \ {Tailer} :
              /\ nx[i] # 0 /\ nx[i] > i /\ nx[i] >= i + Header + MiniAlloc
              /\ pv[nx[i]] = i /\ \A j \in DOMAIN us : j <= i \/ j >= nx[i]
         /\ \A n \in DOMAIN us \ {0} : pv[n] < n /\ nx[pv[n]] = n /\ pv[n] # Tailer
  <1>1. /\ Tailer \in Nat \ {0} /\ Header \in Nat \ {0} /\ MiniAlloc \in Nat \ {0}
        /\ DOMAIN us \subseteq 0 .. Tailer /\ 0 \in DOMAIN us /\ Tailer \in DOMAIN us
        /\ us[Tailer] /\ nx[Tailer] = 0 /\ pv[0] = Tailer
    BY MemHeapConstants DEF IsRing
  <1>2. \A i \in DOMAIN us : /\ i \in Nat /\ nx[i] \in DOMAIN us /\ nx[i] \in Nat
                             /\ pv[i] \in DOMAIN us
    BY <1>1 DEF IsRing
  <1>3. \A n \in DOMAIN us \ {0} : pv[n] < n /\ nx[pv[n]] = n /\ pv[n] # Tailer
    BY <1>1 DEF IsRing
  <1>4. ASSUME NEW i \in DOMAIN us \ {Tailer}
        PROVE  /\ nx[i] # 0 /\ nx[i] > i /\ nx[i] >= i + Header + MiniAlloc
               /\ pv[nx[i]] = i /\ \A j \in DOMAIN us : j <= i \/ j >= nx[i]
    <2>. DEFINE n == nx[i]
                p == pv[n]
    <2>1. n \in DOMAIN us /\ n >= i + Header + MiniAlloc /\ \A j \in DOMAIN us : j <= i \/ j >= n
      BY DEF IsRing
    <2>2. i \in Nat /\ n \in Nat /\ n > i /\ n # 0
      BY <2>1, <1>1, <1>2
    <2>3. p \in DOMAIN us /\ p < n /\ nx[p] = n /\ p # Tailer
      BY <2>1, <2>2, <1>2, <1>3
    <2>4. \A j \in DOMAIN us : j <= p \/ j >= n
      BY <2>3 DEF IsRing
    <2>5. p \in Nat
      BY <2>3, <1>2
    <2>. HIDE DEF p
    <2>6. p = i
      BY <2>1, <2>2, <2>3, <2>4, <2>5
    <2>. QED
      BY <2>1, <2>2, <2>6 DEF p
  <1>. QED
    BY <1>1, <1>2, <1>3, <1>4

LEMMA ItemFacts ==
  ASSUME MemHeapAssumption, NEW nx, NEW pv, NEW us, IsRing(nx, pv, us),
         NEW i \in DOMAIN us \ {Tailer}
  PROVE  /\ nx[i] \in DOMAIN us \ {0} /\ nx[i] > i /\ nx[i] >= i + Header + MiniAlloc
         /\ pv[nx[i]] = i /\ \A j \in DOMAIN us : j <= i \/ j >= nx[i]
         /\ i \in Nat /\ nx[i] \in Nat
  BY RingFacts

LEMMA EndFacts ==
  ASSUME MemHeapAssumption, NEW nx, NEW pv, NEW us, IsRing(nx, pv, us)
  PROVE  /\ Tailer \in Nat \ {0} /\ Header \in Nat \ {0} /\ MiniAlloc \in Nat \ {0}
         /\ DOMAIN us \subseteq 0 .. Tailer /\ 0 \in DOMAIN us /\ Tailer \in DOMAIN us
         /\ us[Tailer] /\ nx[Tailer] = 0 /\ pv[0] = Tailer
  BY RingFacts

\* An item is cut in two.
CanSplit(c, i, at) ==
  /\ IsRing(c.next, c.prev, c.used) /\ i \in DOMAIN c.used \ {Tailer} /\ at \in Nat
  /\ i + Header + MiniAlloc <= at /\ at + Header + MiniAlloc <= c.next[i]
IsSplit(c, i, at, k) ==
  /\ at \notin DOMAIN c.used /\ i < at /\ at < c.next[i]
  /\ DOMAIN k.used = DOMAIN c.used \cup {at}
  /\ k.next[i] = at /\ k.next[at] = c.next[i] /\ ~k.used[at]
  /\ \A j \in DOMAIN c.used : k.used[j] = c.used[j]
  /\ \A j \in DOMAIN c.used \ {i} : k.next[j] = c.next[j]
  /\ IsRing(k.next, k.prev, k.used) /\ k.freeItems = <<at>> \o c.freeItems
  /\ FreeOnes(k.used) = FreeOnes(c.used) \cup {at}

LEMMA SplitFacts ==
  ASSUME MemHeapAssumption, NEW c, NEW i, NEW at, CanSplit(c, i, at)
  PROVE  IsSplit(c, i, at, Split(c, i, at))
  <1>. DEFINE k == Split(c, i, at)
              D == DOMAIN c.used
              n == c.next[i]
              m == With(c.next, at, n)
              pn == With(c.prev, n, at)
  <1>0. /\ IsRing(c.next, c.prev, c.used) /\ i \in D \ {Tailer} /\ at \in Nat
        /\ i + Header + MiniAlloc <= at /\ at + Header + MiniAlloc <= n
    BY DEF CanSplit
  <1>1. k.next = With(m, i, at) /\ k.prev = With(pn, at, i)
        /\ k.used = With(c.used, at, FALSE) /\ k.freeItems = <<at>> \o c.freeItems
    BY DEF Split
  <1>. HIDE DEF k
  <1>2. /\ D \subseteq 0 .. Tailer /\ 0 \in D /\ Tailer \in D /\ Tailer \in Nat \ {0}
        /\ Header \in Nat \ {0} /\ MiniAlloc \in Nat \ {0} /\ c.next[Tailer] = 0
        /\ i \in D /\ n \in D /\ n # 0 /\ n > i /\ \A j \in D : j <= i \/ j >= n
        /\ i \in Nat /\ n \in Nat
    BY <1>0, EndFacts, ItemFacts
  <1>3. at \notin D /\ at \in 0 .. Tailer /\ at # i /\ at # n /\ i < at /\ at < n /\ at # 0
    <2>1. n <= Tailer
      BY <1>2
    <2>2. at > i /\ at < n
      BY <1>0, <1>2
    <2>. QED
      BY <2>1, <2>2, <1>0, <1>2
  <1>4. /\ k.used \in [D \cup {at} -> BOOLEAN] /\ ~k.used[at]
        /\ \A j \in D : k.used[j] = c.used[j]
    <2>1. c.used \in [D -> BOOLEAN] /\ FALSE \in BOOLEAN
      BY <1>0 DEF IsRing
    <2>. HIDE DEF D
    <2>2. /\ With(c.used, at, FALSE) \in [D \cup {at} -> BOOLEAN]
          /\ With(c.used, at, FALSE)[at] = FALSE
          /\ \A j \in D \ {at} : With(c.used, at, FALSE)[j] = c.used[j]
      BY <2>1 DEF With
    <2>. QED
      BY <2>2, <1>1, <1>3
  <1>5. /\ k.next[i] = at /\ k.next[at] = n /\ \A j \in D \ {i} : k.next[j] = c.next[j]
        /\ k.next \in [D \cup {at} -> 0 .. Tailer]
    <2>1. c.next \in [D -> 0 .. Tailer] /\ n \in 0 .. Tailer /\ at \in 0 .. Tailer
      BY <1>0, <1>2, <1>3 DEF IsRing
    <2>. HIDE DEF D, n
    <2>2. m \in [D \cup {at} -> 0 .. Tailer] /\ m[at] = n /\ \A j \in D \ {at} : m[j] = c.next[j]
      BY <2>1 DEF With
    <2>. HIDE DEF m
    <2>3. /\ With(m, i, at) \in [(D \cup {at}) \cup {i} -> 0 .. Tailer] /\ With(m, i, at)[i] = at
          /\ \A j \in (D \cup {at}) \ {i} : With(m, i, at)[j] = m[j]
      BY <2>1, <2>2 DEF With
    <2>4. (D \cup {at}) \cup {i} = D \cup {at}
      BY <1>2
    <2>. QED
      BY <2>2, <2>3, <2>4, <1>1, <1>2, <1>3
  <1>6. /\ k.prev[at] = i /\ k.prev[n] = at /\ \A j \in D \ {n} : k.prev[j] = c.prev[j]
        /\ k.prev \in [D \cup {at} -> 0 .. Tailer]
    <2>1. c.prev \in [D -> 0 .. Tailer] /\ i \in 0 .. Tailer /\ at \in 0 .. Tailer
      BY <1>0, <1>2, <1>3 DEF IsRing
    <2>. HIDE DEF D, n
    <2>2. /\ pn \in [D \cup {n} -> 0 .. Tailer] /\ pn[n] = at
          /\ \A j \in D \ {n} : pn[j] = c.prev[j]
      BY <2>1 DEF With
    <2>3. D \cup {n} = D
      BY <1>2
    <2>. HIDE DEF pn
    <2>4. /\ With(pn, at, i) \in [D \cup {at} -> 0 .. Tailer] /\ With(pn, at, i)[at] = i
          /\ \A j \in D \ {at} : With(pn, at, i)[j] = pn[j]
      BY <2>1, <2>2, <2>3 DEF With
    <2>. QED
      BY <2>2, <2>4, <1>1, <1>2, <1>3
  <1>7. DOMAIN k.used = D \cup {at}
    BY <1>4
  <1>8. IsRing(k.next, k.prev, k.used)
    <2>1. D \cup {at} \subseteq 0 .. Tailer /\ 0 \in D \cup {at} /\ Tailer \in D \cup {at}
      BY <1>2, <1>3
    <2>2. k.used[Tailer]
      BY <1>0, <1>2, <1>4 DEF IsRing
    <2>3. k.prev[0] = Tailer
      BY <1>0, <1>2, <1>6 DEF IsRing
    <2>4. k.next[Tailer] = 0
      BY <1>2, <1>5
    <2>5. ASSUME NEW j \in (D \cup {at}) \ {Tailer}
          PROVE  /\ k.next[j] \in D \cup {at} /\ k.next[j] >= j + Header + MiniAlloc
                 /\ \A e \in D \cup {at} : e <= j \/ e >= k.next[j]
      <3>1. CASE j = i
        BY <3>1, <1>0, <1>2, <1>3, <1>5
      <3>2. CASE j = at
        BY <3>2, <1>0, <1>2, <1>3, <1>5
      <3>3. CASE j \in D \ {i, Tailer}
        <4>1. /\ k.next[j] = c.next[j] /\ c.next[j] \in D /\ c.next[j] >= j + Header + MiniAlloc
              /\ \A e \in D : e <= j \/ e >= c.next[j]
          BY <3>3, <1>0, <1>5 DEF IsRing
        <4>2. i <= j \/ i >= c.next[j]
          BY <4>1, <1>2
        <4>3. j <= i \/ j >= n
          BY <3>3, <1>2
        <4>4. at <= j \/ at >= c.next[j]
          <5>1. j \in Nat /\ c.next[j] \in Nat /\ j # i
            BY <4>1, <3>3, <1>2
          <5>. HIDE DEF n
          <5>. QED
            BY <4>2, <4>3, <5>1, <1>2, <1>3
        <4>. QED
          BY <4>1, <4>4
      <3>. QED
        BY <3>1, <3>2, <3>3
    <2>6. ASSUME NEW j \in (D \cup {at}) \ {0}
          PROVE  k.prev[j] \in D \cup {at} /\ k.prev[j] < j /\ k.next[k.prev[j]] = j
      <3>1. CASE j = at
        BY <3>1, <1>2, <1>3, <1>5, <1>6
      <3>2. CASE j = n /\ j # at
        BY <3>2, <1>2, <1>3, <1>5, <1>6
      <3>3. CASE j \in D \ {0, n}
        <4>1. k.prev[j] = c.prev[j] /\ c.prev[j] \in D /\ c.prev[j] < j /\ c.next[c.prev[j]] = j
          BY <3>3, <1>0, <1>6 DEF IsRing
        <4>2. c.prev[j] # i
          BY <4>1, <3>3
        <4>. QED
          BY <4>1, <4>2, <1>5
      <3>. QED
        BY <3>1, <3>2, <3>3
    <2>. QED
      BY <2>1, <2>2, <2>3, <2>4, <2>5, <2>6, <1>4, <1>5, <1>6, <1>7 DEF IsRing
  <1>9. FreeOnes(k.used) = FreeOnes(c.used) \cup {at}
    BY <1>3, <1>4, <1>7 DEF FreeOnes
  <1>. QED
    BY <1>1, <1>3, <1>4, <1>5, <1>7, <1>8, <1>9 DEF k, IsSplit

\* An item takes the next one in.
IsJoined(c, i, k) ==
  LET n == c.next[i] IN
  /\ n \in DOMAIN c.used \ {0, i, Tailer} /\ i < n
  /\ c.next[n] \in DOMAIN c.used \ {i, n} /\ n < c.next[n]
  /\ DOMAIN k.used = DOMAIN c.used \ {n}
  /\ k.next[i] = c.next[n]
  /\ \A j \in DOMAIN c.used \ {n} : k.used[j] = c.used[j]
  /\ \A j \in DOMAIN c.used \ {i, n} : k.next[j] = c.next[j] /\ c.next[j] # n
  /\ IsRing(k.next, k.prev, k.used) /\ k.freeItems = Unlinked(c.freeItems, n)
  /\ FreeOnes(k.used) = FreeOnes(c.used) \ {n}

LEMMA JoinedFacts ==
  ASSUME MemHeapAssumption, NEW c, IsRing(c.next, c.prev, c.used),
         NEW i \in DOMAIN c.used \ {Tailer}, c.next[i] # Tailer
  PROVE  IsJoined(c, i, Joined(c, i))
  <1>. DEFINE k == Joined(c, i)
              D == DOMAIN c.used
              n == c.next[i]
              m == c.next[n]
              nl == Less(c.next, n)
              pl == Less(c.prev, n)
  <1>1. k.next = With(nl, i, m) /\ k.prev = With(pl, m, i)
        /\ k.used = Less(c.used, n) /\ k.freeItems = Unlinked(c.freeItems, n)
    BY DEF Joined
  <1>. HIDE DEF k
  <1>2. /\ D \subseteq 0 .. Tailer /\ 0 \in D /\ Tailer \in D /\ Tailer \in Nat \ {0}
        /\ Header \in Nat \ {0} /\ MiniAlloc \in Nat \ {0} /\ c.next[Tailer] = 0
        /\ i \in D /\ n \in D /\ n # 0 /\ n > i /\ n >= i + Header + MiniAlloc
        /\ c.prev[n] = i /\ \A j \in D : j <= i \/ j >= n
        /\ i \in Nat /\ n \in Nat
    BY EndFacts, ItemFacts
  <1>3. n \in D \ {0, i, Tailer}
    BY <1>2
  <1>4. /\ m \in D /\ m # 0 /\ m > n /\ m >= n + Header + MiniAlloc /\ m \in Nat
        /\ \A j \in D : j <= n \/ j >= m
    <2>. HIDE DEF n
    <2>. QED
      BY <1>3, ItemFacts
  <1>5. m # n /\ m # i
    BY <1>2, <1>4
  <1>6. /\ DOMAIN k.used = D \ {n} /\ \A j \in D \ {n} : k.used[j] = c.used[j]
        /\ k.used \in [D \ {n} -> BOOLEAN]
    <2>1. c.used \in [D -> BOOLEAN]
      BY DEF IsRing
    <2>. HIDE DEF D, n
    <2>. QED
      BY <2>1, <1>1 DEF Less
  <1>7. /\ k.next[i] = m /\ \A j \in D \ {i, n} : k.next[j] = c.next[j]
        /\ k.next \in [D \ {n} -> 0 .. Tailer]
    <2>1. c.next \in [D -> 0 .. Tailer] /\ m \in 0 .. Tailer
      BY <1>2, <1>4 DEF IsRing
    <2>. HIDE DEF D, n, m
    <2>2. nl \in [D \ {n} -> 0 .. Tailer] /\ \A j \in D \ {n} : nl[j] = c.next[j]
      BY <2>1 DEF Less
    <2>. HIDE DEF nl
    <2>3. /\ With(nl, i, m) \in [(D \ {n}) \cup {i} -> 0 .. Tailer] /\ With(nl, i, m)[i] = m
          /\ \A j \in (D \ {n}) \ {i} : With(nl, i, m)[j] = nl[j]
      BY <2>1, <2>2 DEF With
    <2>4. (D \ {n}) \cup {i} = D \ {n}
      BY <1>2, <1>3
    <2>. QED
      BY <2>2, <2>3, <2>4, <1>1
  <1>8. /\ k.prev[m] = i /\ \A j \in D \ {n} : j # m => k.prev[j] = c.prev[j]
        /\ k.prev \in [D \ {n} -> 0 .. Tailer]
    <2>1. c.prev \in [D -> 0 .. Tailer] /\ i \in 0 .. Tailer
      BY <1>2 DEF IsRing
    <2>. HIDE DEF D, n, m
    <2>2. pl \in [D \ {n} -> 0 .. Tailer] /\ \A j \in D \ {n} : pl[j] = c.prev[j]
      BY <2>1 DEF Less
    <2>. HIDE DEF pl
    <2>3. /\ With(pl, m, i) \in [(D \ {n}) \cup {m} -> 0 .. Tailer] /\ With(pl, m, i)[m] = i
          /\ \A j \in (D \ {n}) \ {m} : With(pl, m, i)[j] = pl[j]
      BY <2>1, <2>2 DEF With
    <2>4. (D \ {n}) \cup {m} = D \ {n}
      BY <1>4, <1>5
    <2>. QED
      BY <2>2, <2>3, <2>4, <1>1
  <1>9. \A j \in D \ {i, n} : c.next[j] # n
    <2>. SUFFICES ASSUME NEW j \in D \ {i, n}, c.next[j] = n
                  PROVE  FALSE
      OBVIOUS
    <2>1. j # Tailer
      BY <1>2
    <2>2. c.prev[n] = j
      BY <2>1, RingFacts
    <2>. QED
      BY <2>2, <1>2
  <1>10. IsRing(k.next, k.prev, k.used)
    <2>1. D \ {n} \subseteq 0 .. Tailer /\ 0 \in D \ {n} /\ Tailer \in D \ {n}
      BY <1>2, <1>3
    <2>2. k.used[Tailer]
      BY <2>1, <1>6 DEF IsRing
    <2>3. k.prev[0] = Tailer
      BY <2>1, <1>4, <1>8 DEF IsRing
    <2>4. k.next[Tailer] = 0
      <3>1. Tailer \in D \ {i, n}
        BY <2>1
      <3>. QED
        BY <3>1, <1>2, <1>7
    <2>5. ASSUME NEW j \in (D \ {n}) \ {Tailer}
          PROVE  /\ k.next[j] \in D \ {n} /\ k.next[j] >= j + Header + MiniAlloc
                 /\ \A e \in D \ {n} : e <= j \/ e >= k.next[j]
      <3>1. CASE j = i
        <4>1. \A e \in D \ {n} : e <= i \/ e >= m
          <5>. SUFFICES ASSUME NEW e \in D \ {n}
                        PROVE  e <= i \/ e >= m
            OBVIOUS
          <5>1. (e <= i \/ e >= n) /\ (e <= n \/ e >= m) /\ e # n /\ e \in Nat
            BY <1>2, <1>4
          <5>. QED
            BY <5>1, <1>2, <1>4
        <4>2. m >= i + Header + MiniAlloc
          BY <1>2, <1>4
        <4>. QED
          BY <3>1, <4>1, <4>2, <1>4, <1>5, <1>7
      <3>2. CASE j # i
        <4>1. /\ c.next[j] \in D /\ c.next[j] >= j + Header + MiniAlloc
              /\ \A e \in D : e <= j \/ e >= c.next[j]
          BY DEF IsRing
        <4>. QED
          BY <3>2, <4>1, <1>7, <1>9
      <3>. QED
        BY <3>1, <3>2
    <2>6. ASSUME NEW j \in (D \ {n}) \ {0}
          PROVE  k.prev[j] \in D \ {n} /\ k.prev[j] < j /\ k.next[k.prev[j]] = j
      <3>1. CASE j = m
        <4>1. i < m
          BY <1>2, <1>4
        <4>. QED
          BY <3>1, <4>1, <1>3, <1>2, <1>7, <1>8
      <3>2. CASE j # m
        <4>1. k.prev[j] = c.prev[j] /\ c.prev[j] \in D /\ c.prev[j] < j /\ c.next[c.prev[j]] = j
          BY <3>2, <1>8 DEF IsRing
        <4>2. c.prev[j] # n /\ c.prev[j] # i
          BY <3>2, <4>1
        <4>. QED
          BY <4>1, <4>2, <1>7
      <3>. QED
        BY <3>1, <3>2
    <2>. QED
      BY <2>1, <2>2, <2>3, <2>4, <2>5, <2>6, <1>6, <1>7, <1>8 DEF IsRing
  <1>11. FreeOnes(k.used) = FreeOnes(c.used) \ {n}
    BY <1>6 DEF FreeOnes
  <1>. QED
    BY <1>1, <1>2, <1>3, <1>4, <1>5, <1>6, <1>7, <1>9, <1>10, <1>11 DEF k, IsJoined

\* An item comes into use, or is not any more.
LEMMA MarkedFacts ==
  ASSUME MemHeapAssumption, NEW nx, NEW pv, NEW us, IsRing(nx, pv, us),
         NEW i \in DOMAIN us \ {Tailer}, NEW vs, vs = [us EXCEPT ![i] = TRUE]
  PROVE  /\ IsRing(nx, pv, vs) /\ DOMAIN vs = DOMAIN us /\ vs[i]
         /\ \A j \in DOMAIN us \ {i} : vs[j] = us[j]
         /\ FreeOnes(vs) = FreeOnes(us) \ {i}
  <1>1. us \in [DOMAIN us -> BOOLEAN] /\ us[Tailer] /\ Tailer \in DOMAIN us
    BY DEF IsRing
  <1>2. /\ DOMAIN vs = DOMAIN us /\ vs[i] /\ vs \in [DOMAIN us -> BOOLEAN]
        /\ \A j \in DOMAIN us \ {i} : vs[j] = us[j]
    BY <1>1
  <1>3. vs[Tailer]
    BY <1>1, <1>2
  <1>4. IsRing(nx, pv, vs)
    BY <1>2, <1>3 DEF IsRing
  <1>5. FreeOnes(vs) = FreeOnes(us) \ {i}
    BY <1>2 DEF FreeOnes
  <1>. QED
    BY <1>2, <1>4, <1>5

IsUnmarked(us, i, vs) ==
  /\ DOMAIN vs = DOMAIN us /\ ~vs[i] /\ \A j \in DOMAIN us \ {i} : vs[j] = us[j]
  /\ FreeOnes(vs) = FreeOnes(us) \cup {i}

LEMMA UnmarkedFacts ==
  ASSUME MemHeapAssumption, NEW nx, NEW pv, NEW us, IsRing(nx, pv, us),
         NEW i \in DOMAIN us \ {Tailer}, NEW vs, vs = [us EXCEPT ![i] = FALSE]
  PROVE  IsRing(nx, pv, vs) /\ IsUnmarked(us, i, vs)
  <1>1. us \in [DOMAIN us -> BOOLEAN] /\ us[Tailer] /\ Tailer \in DOMAIN us
    BY DEF IsRing
  <1>2. /\ DOMAIN vs = DOMAIN us /\ ~vs[i] /\ vs \in [DOMAIN us -> BOOLEAN]
        /\ \A j \in DOMAIN us \ {i} : vs[j] = us[j]
    BY <1>1
  <1>3. vs[Tailer]
    BY <1>1, <1>2
  <1>4. IsRing(nx, pv, vs)
    BY <1>2, <1>3 DEF IsRing
  <1>5. FreeOnes(vs) = FreeOnes(us) \cup {i}
    BY <1>2 DEF FreeOnes
  <1>. QED
    BY <1>2, <1>4, <1>5 DEF IsUnmarked

-----------------------------------------------------------------------------
\* What there is room for.

\* A unit of memory is in one item: whether there is room at it is told by that item.
LEMMA RoomOf ==
  ASSUME MemHeapAssumption, NEW nx, NEW pv, NEW us, IsRing(nx, pv, us),
         NEW i \in DOMAIN us \ {Tailer}, NEW x \in Nat, i <= x, x < nx[i]
  PROVE  IsRoom(nx, us, x) <=> ~us[i] /\ i + Header <= x
  <1>1. /\ i \in Nat /\ nx[i] \in Nat /\ Header \in Nat /\ us[Tailer]
        /\ \A j \in DOMAIN us : j <= i \/ j >= nx[i]
    BY EndFacts, ItemFacts
  <1>2. ASSUME IsRoom(nx, us, x) PROVE ~us[i] /\ i + Header <= x
    <2>1. PICK j \in DOMAIN us : ~us[j] /\ j + Header <= x /\ x < nx[j]
      BY <1>2 DEF IsRoom
    <2>2. j # Tailer
      BY <1>1, <2>1
    <2>3. j \in Nat /\ nx[j] \in Nat /\ (i <= j \/ i >= nx[j])
      BY <2>2, ItemFacts
    <2>4. j <= i \/ j >= nx[i]
      BY <1>1
    <2>5. j = i
      BY <1>1, <2>1, <2>3, <2>4
    <2>. QED
      BY <2>1, <2>5
  <1>3. ASSUME ~us[i], i + Header <= x PROVE IsRoom(nx, us, x)
    BY <1>3 DEF IsRoom
  <1>. QED
    BY <1>2, <1>3

LEMMA RoomsFacts ==
  ASSUME MemHeapAssumption, NEW nx, NEW pv, NEW us, IsRing(nx, pv, us)
  PROVE  /\ IsFiniteSet(Rooms(nx, us)) /\ Cardinality(Rooms(nx, us)) \in 0 .. PoolSize
         /\ \A x : x \in Rooms(nx, us) <=> x \in Nat /\ IsRoom(nx, us, x)
  <1>1. PoolSize \in Nat /\ Tailer \in Nat /\ Tailer < PoolSize /\ us[Tailer]
    BY MemHeapConstants, EndFacts
  <1>2. ASSUME NEW x \in Nat, IsRoom(nx, us, x) PROVE x \in 0 .. PoolSize - 1
    <2>1. PICK j \in DOMAIN us : ~us[j] /\ x < nx[j]
      BY <1>2 DEF IsRoom
    <2>2. nx[j] \in DOMAIN us \ {0} /\ nx[j] \in Nat
      BY <1>1, <2>1, ItemFacts
    <2>3. nx[j] <= Tailer
      BY <1>1, <2>2, EndFacts
    <2>. QED
      BY <1>1, <2>1, <2>2, <2>3
  <1>3. Rooms(nx, us) \subseteq 0 .. PoolSize - 1
    BY <1>1, <1>2 DEF Rooms
  <1>4. IsFiniteSet(0 .. PoolSize - 1) /\ Cardinality(0 .. PoolSize - 1) = PoolSize
    BY <1>1, FS_Interval
  <1>5. IsFiniteSet(Rooms(nx, us)) /\ Cardinality(Rooms(nx, us)) \in 0 .. PoolSize
    BY <1>1, <1>3, <1>4, FS_Subset, FS_CardinalityType
  <1>6. \A x : x \in Rooms(nx, us) <=> x \in Nat /\ IsRoom(nx, us, x)
    <2>1. \A x \in Nat : IsRoom(nx, us, x) => x \in 0 .. PoolSize
      BY <1>1, <1>2
    <2>2. \A x \in 0 .. PoolSize : x \in Nat
      BY <1>1
    <2>. QED
      BY <2>1, <2>2 DEF Rooms
  <1>. QED
    BY <1>5, <1>6

LEMMA Counted ==
  ASSUME NEW S, NEW T, IsFiniteSet(T), NEW lo \in Nat, NEW hi \in Nat, lo <= hi,
         \A x : x \in S <=> x \in T \/ x \in lo .. hi - 1, \A x \in T : x \notin lo .. hi - 1
  PROVE  Cardinality(S) = Cardinality(T) + (hi - lo)
  <1>1. IsFiniteSet(lo .. hi - 1) /\ Cardinality(lo .. hi - 1) = hi - lo
    <2>1. lo \in Int /\ hi - 1 \in Int
      OBVIOUS
    <2>2. /\ IsFiniteSet(lo .. hi - 1)
          /\ Cardinality(lo .. hi - 1) = IF lo > hi - 1 THEN 0 ELSE (hi - 1) - lo + 1
      BY <2>1, FS_Interval
    <2>. QED
      BY <2>2
  <1>2. S = T \cup (lo .. hi - 1) /\ T \cap (lo .. hi - 1) = {}
    OBVIOUS
  <1>3. Cardinality(T \cap (lo .. hi - 1)) = 0
    BY <1>2, FS_EmptySet
  <1>4. Cardinality(T) \in Nat
    BY FS_CardinalityType
  <1>5. Cardinality(T \cup (lo .. hi - 1))
          = Cardinality(T) + Cardinality(lo .. hi - 1) - Cardinality(T \cap (lo .. hi - 1))
    BY <1>1, FS_Union
  <1>. QED
    BY <1>1, <1>2, <1>3, <1>4, <1>5

\* Rooms that are those of another state and lo to hi.
AddRooms(nx, us, ny, vs, lo, hi) ==
  /\ \A x \in Nat : IsRoom(ny, vs, x) <=> IsRoom(nx, us, x) \/ x \in lo .. hi - 1
  /\ \A x \in lo .. hi - 1 : ~IsRoom(nx, us, x)

LEMMA MoreRooms ==
  ASSUME MemHeapAssumption, NEW nx, NEW pv, NEW us, IsRing(nx, pv, us),
         NEW ny, NEW pw, NEW vs, IsRing(ny, pw, vs),
         NEW lo \in Nat, NEW hi \in Nat, lo <= hi,
         AddRooms(nx, us, ny, vs, lo, hi)
  PROVE  Cardinality(Rooms(ny, vs)) = Cardinality(Rooms(nx, us)) + (hi - lo)
  <1>. DEFINE S == Rooms(ny, vs)
              T == Rooms(nx, us)
  <1>1. /\ IsFiniteSet(T) /\ \A x : x \in T <=> x \in Nat /\ IsRoom(nx, us, x)
        /\ \A x : x \in S <=> x \in Nat /\ IsRoom(ny, vs, x)
    BY RoomsFacts
  <1>2. \A x \in lo .. hi - 1 : x \in Nat
    OBVIOUS
  <1>. HIDE DEF S, T
  <1>3. \A x : x \in S <=> x \in T \/ x \in lo .. hi - 1
    BY <1>1, <1>2 DEF AddRooms
  <1>4. \A x \in T : x \notin lo .. hi - 1
    BY <1>1 DEF AddRooms
  <1>5. Cardinality(S) = Cardinality(T) + (hi - lo)
    BY <1>1, <1>3, <1>4, Counted
  <1>. QED
    BY <1>5 DEF S, T

\* Where x is in none of the items I of the one state and J of the other, and the others
\* are the same.
Elsewhere(nx, us, ny, vs, I, J, x) ==
  /\ \A j \in DOMAIN us \ I : j \in DOMAIN vs \ J /\ vs[j] = us[j] /\ ny[j] = nx[j]
  /\ \A j \in DOMAIN vs \ J : j \in DOMAIN us \ I
  /\ \A j \in DOMAIN us \cap I : ~(j + Header <= x /\ x < nx[j])
  /\ \A j \in DOMAIN vs \cap J : ~(j + Header <= x /\ x < ny[j])

LEMMA RoomElsewhere ==
  ASSUME NEW nx, NEW us, NEW ny, NEW vs, NEW I, NEW J, NEW x, Elsewhere(nx, us, ny, vs, I, J, x)
  PROVE  IsRoom(ny, vs, x) <=> IsRoom(nx, us, x)
  <1>1. ASSUME IsRoom(nx, us, x) PROVE IsRoom(ny, vs, x)
    <2>1. PICK j \in DOMAIN us : ~us[j] /\ j + Header <= x /\ x < nx[j]
      BY <1>1 DEF IsRoom
    <2>2. j \in DOMAIN us \ I
      BY <2>1 DEF Elsewhere
    <2>. QED
      BY <2>1, <2>2 DEF IsRoom, Elsewhere
  <1>2. ASSUME IsRoom(ny, vs, x) PROVE IsRoom(nx, us, x)
    <2>1. PICK j \in DOMAIN vs : ~vs[j] /\ j + Header <= x /\ x < ny[j]
      BY <1>2 DEF IsRoom
    <2>2. j \in DOMAIN vs \ J /\ j \in DOMAIN us \ I
      BY <2>1 DEF Elsewhere
    <2>. QED
      BY <2>1, <2>2 DEF IsRoom, Elsewhere
  <1>. QED
    BY <1>1, <1>2

LEMMA SplitRooms ==
  ASSUME MemHeapAssumption, NEW c, IsRing(c.next, c.prev, c.used),
         NEW i \in DOMAIN c.used \ {Tailer}, NEW at \in Nat,
         i + Header + MiniAlloc <= at, at + Header + MiniAlloc <= c.next[i]
  PROVE  LET k == Split(c, i, at)
             before == Cardinality(Rooms(c.next, c.used))
             after == Cardinality(Rooms(k.next, k.used))
         IN /\ c.used[i] => after = before + (c.next[i] - (at + Header))
            /\ ~c.used[i] => before = after + Header
  <1>. DEFINE k == Split(c, i, at)
              D == DOMAIN c.used
              n == c.next[i]
  <1>a. CanSplit(c, i, at)
    BY DEF CanSplit
  <1>b. IsSplit(c, i, at, k)
    BY <1>a, SplitFacts
  <1>. HIDE DEF k
  <1>1. /\ at \notin D /\ i < at /\ at < n /\ DOMAIN k.used = D \cup {at}
        /\ k.next[i] = at /\ k.next[at] = n /\ ~k.used[at]
        /\ \A j \in D : k.used[j] = c.used[j]
        /\ \A j \in D \ {i} : k.next[j] = c.next[j]
        /\ IsRing(k.next, k.prev, k.used)
    BY <1>b DEF IsSplit
  <1>2. /\ Header \in Nat \ {0} /\ MiniAlloc \in Nat /\ Tailer \in D
        /\ i \in Nat /\ n \in Nat /\ at + Header <= n
    <2>1. Header \in Nat \ {0} /\ MiniAlloc \in Nat /\ Tailer \in D /\ i \in Nat /\ n \in Nat
      BY EndFacts, ItemFacts
    <2>. HIDE DEF n, D
    <2>. QED
      BY <2>1 DEF n
  <1>3. i \in DOMAIN k.used \ {Tailer} /\ at \in DOMAIN k.used \ {Tailer}
    BY <1>1, <1>2
  <1>4. ASSUME NEW x \in Nat, ~(i <= x /\ x < n)
        PROVE  IsRoom(k.next, k.used, x) <=> IsRoom(c.next, c.used, x)
    <2>1. /\ \A j \in D \ {i} : /\ j \in DOMAIN k.used \ {i, at}
                                /\ k.used[j] = c.used[j] /\ k.next[j] = c.next[j]
          /\ \A j \in DOMAIN k.used \ {i, at} : j \in D \ {i}
      BY <1>1
    <2>2. /\ \A j \in D \cap {i} : ~(j + Header <= x /\ x < c.next[j])
          /\ \A j \in DOMAIN k.used \cap {i, at} : ~(j + Header <= x /\ x < k.next[j])
      BY <1>1, <1>2, <1>4
    <2>3. Elsewhere(c.next, c.used, k.next, k.used, {i}, {i, at}, x)
      BY <2>1, <2>2 DEF Elsewhere
    <2>. QED
      BY <2>3, RoomElsewhere
  <1>5. ASSUME NEW x \in Nat, i <= x, x < n
        PROVE  IsRoom(c.next, c.used, x) <=> ~c.used[i] /\ i + Header <= x
    BY <1>5, RoomOf
  <1>6. ASSUME NEW x \in Nat, i <= x, x < at
        PROVE  IsRoom(k.next, k.used, x) <=> ~c.used[i] /\ i + Header <= x
    BY <1>6, <1>1, <1>3, RoomOf
  <1>7. ASSUME NEW x \in Nat, at <= x, x < n
        PROVE  IsRoom(k.next, k.used, x) <=> at + Header <= x
    BY <1>7, <1>1, <1>3, RoomOf
  <1>. HIDE DEF n, D
  <1>8. ASSUME c.used[i]
        PROVE  Cardinality(Rooms(k.next, k.used))
                 = Cardinality(Rooms(c.next, c.used)) + (n - (at + Header))
    <2>1. ASSUME NEW x \in Nat
          PROVE  IsRoom(k.next, k.used, x) <=>
                   IsRoom(c.next, c.used, x) \/ x \in at + Header .. n - 1
      <3>1. CASE ~(i <= x /\ x < n)
        BY <3>1, <1>1, <1>2, <1>4
      <3>2. CASE i <= x /\ x < at
        BY <3>2, <1>1, <1>2, <1>5, <1>6, <1>8
      <3>3. CASE at <= x /\ x < n
        BY <3>3, <1>1, <1>2, <1>5, <1>7, <1>8
      <3>. QED
        BY <3>1, <3>2, <3>3, <1>1, <1>2
    <2>2. \A x \in at + Header .. n - 1 : ~IsRoom(c.next, c.used, x)
      BY <1>1, <1>2, <1>5, <1>8
    <2>3. at + Header \in Nat /\ n \in Nat /\ at + Header <= n
      BY <1>2
    <2>4. AddRooms(c.next, c.used, k.next, k.used, at + Header, n)
      BY <2>1, <2>2 DEF AddRooms
    <2>. QED
      BY <2>3, <2>4, <1>1, MoreRooms
  <1>9. ASSUME ~c.used[i]
        PROVE  Cardinality(Rooms(c.next, c.used)) = Cardinality(Rooms(k.next, k.used)) + Header
    <2>1. ASSUME NEW x \in Nat
          PROVE  IsRoom(c.next, c.used, x) <=>
                   IsRoom(k.next, k.used, x) \/ x \in at .. (at + Header) - 1
      <3>1. CASE ~(i <= x /\ x < n)
        BY <3>1, <1>1, <1>2, <1>4
      <3>2. CASE i <= x /\ x < at
        BY <3>2, <1>1, <1>2, <1>5, <1>6, <1>9
      <3>3. CASE at <= x /\ x < n
        <4>1. i + Header <= x
          <5>1. i + Header <= at
            BY <1>2
          <5>. QED
            BY <5>1, <3>3, <1>2
        <4>. QED
          BY <4>1, <3>3, <1>1, <1>2, <1>5, <1>7, <1>9
      <3>. QED
        BY <3>1, <3>2, <3>3, <1>1, <1>2
    <2>2. \A x \in at .. (at + Header) - 1 : ~IsRoom(k.next, k.used, x)
      BY <1>1, <1>2, <1>7
    <2>3. at + Header \in Nat /\ at <= at + Header /\ (at + Header) - at = Header
      BY <1>2
    <2>5. AddRooms(k.next, k.used, c.next, c.used, at, at + Header)
      BY <2>1, <2>2 DEF AddRooms
    <2>4. Cardinality(Rooms(c.next, c.used))
            = Cardinality(Rooms(k.next, k.used)) + ((at + Header) - at)
      BY <2>3, <2>5, <1>1, MoreRooms
    <2>. QED
      BY <2>3, <2>4
  <1>. QED
    BY <1>8, <1>9 DEF k, n

LEMMA JoinedRooms ==
  ASSUME MemHeapAssumption, NEW c, IsRing(c.next, c.prev, c.used),
         NEW i \in DOMAIN c.used \ {Tailer}, c.next[i] # Tailer
  PROVE  LET k == Joined(c, i)
             n == c.next[i]
             before == Cardinality(Rooms(c.next, c.used))
             after == Cardinality(Rooms(k.next, k.used))
         IN /\ ~c.used[i] /\ ~c.used[n] => after = before + Header
            /\ ~c.used[i] /\ c.used[n] => after = before + (c.next[n] - n)
            /\ c.used[i] /\ ~c.used[n] => before = after + (c.next[n] - (n + Header))
  <1>. DEFINE k == Joined(c, i)
              D == DOMAIN c.used
              n == c.next[i]
              m == c.next[n]
  <1>1. /\ n \in D \ {0, i, Tailer} /\ i < n /\ m \in D \ {i, n} /\ n < m
        /\ DOMAIN k.used = D \ {n} /\ k.next[i] = m
        /\ \A j \in D \ {n} : k.used[j] = c.used[j]
        /\ \A j \in D \ {i, n} : k.next[j] = c.next[j]
        /\ IsRing(k.next, k.prev, k.used)
    <2>1. IsJoined(c, i, k)
      BY JoinedFacts
    <2>. HIDE DEF k
    <2>. QED
      BY <2>1 DEF IsJoined
  <1>. HIDE DEF k
  <1>2. /\ Header \in Nat \ {0} /\ MiniAlloc \in Nat /\ Tailer \in D
        /\ i \in Nat /\ n \in Nat /\ i + Header <= n
    <2>1. /\ Header \in Nat \ {0} /\ MiniAlloc \in Nat /\ Tailer \in D /\ i \in Nat /\ n \in Nat
          /\ n >= i + Header + MiniAlloc
      BY EndFacts, ItemFacts
    <2>. HIDE DEF n, D
    <2>. QED
      BY <2>1
  <1>3. m \in Nat /\ n + Header <= m
    <2>1. m \in Nat /\ m >= n + Header + MiniAlloc
      <3>. HIDE DEF n
      <3>. QED
        BY <1>1, ItemFacts
    <2>. HIDE DEF n, m
    <2>. QED
      BY <2>1, <1>2
  <1>4. i \in DOMAIN k.used \ {Tailer} /\ n \in DOMAIN c.used \ {Tailer}
    BY <1>1
  <1>5. ASSUME NEW x \in Nat, ~(i <= x /\ x < m)
        PROVE  IsRoom(k.next, k.used, x) <=> IsRoom(c.next, c.used, x)
    <2>1. /\ \A j \in D \ {i, n} : /\ j \in DOMAIN k.used \ {i}
                                   /\ k.used[j] = c.used[j] /\ k.next[j] = c.next[j]
          /\ \A j \in DOMAIN k.used \ {i} : j \in D \ {i, n}
      BY <1>1
    <2>. HIDE DEF m
    <2>2. /\ \A j \in D \cap {i, n} : ~(j + Header <= x /\ x < c.next[j])
          /\ \A j \in DOMAIN k.used \cap {i} : ~(j + Header <= x /\ x < k.next[j])
      BY <1>1, <1>2, <1>3, <1>5 DEF m
    <2>3. Elsewhere(c.next, c.used, k.next, k.used, {i, n}, {i}, x)
      BY <2>1, <2>2 DEF Elsewhere
    <2>. QED
      BY <2>3, RoomElsewhere
  <1>6. ASSUME NEW x \in Nat, i <= x, x < n
        PROVE  IsRoom(c.next, c.used, x) <=> ~c.used[i] /\ i + Header <= x
    BY <1>6, RoomOf
  <1>7. ASSUME NEW x \in Nat, n <= x, x < m
        PROVE  IsRoom(c.next, c.used, x) <=> ~c.used[n] /\ n + Header <= x
    <2>. HIDE DEF n
    <2>. QED
      BY <1>7, <1>4, RoomOf
  <1>8. ASSUME NEW x \in Nat, i <= x, x < m
        PROVE  IsRoom(k.next, k.used, x) <=> ~c.used[i] /\ i + Header <= x
    BY <1>8, <1>1, <1>4, RoomOf
  <1>. HIDE DEF n, m, D
  <1>9. ASSUME ~c.used[i], ~c.used[n]
        PROVE  Cardinality(Rooms(k.next, k.used)) = Cardinality(Rooms(c.next, c.used)) + Header
    <2>1. ASSUME NEW x \in Nat
          PROVE  IsRoom(k.next, k.used, x) <=>
                   IsRoom(c.next, c.used, x) \/ x \in n .. (n + Header) - 1
      <3>1. CASE ~(i <= x /\ x < m)
        BY <3>1, <1>1, <1>2, <1>3, <1>5
      <3>2. CASE i <= x /\ x < n
        BY <3>2, <1>1, <1>2, <1>3, <1>6, <1>8, <1>9
      <3>3. CASE n <= x /\ x < m
        BY <3>3, <1>1, <1>2, <1>3, <1>7, <1>8, <1>9
      <3>. QED
        BY <3>1, <3>2, <3>3, <1>1, <1>2
    <2>2. \A x \in n .. (n + Header) - 1 : ~IsRoom(c.next, c.used, x)
      BY <1>1, <1>2, <1>3, <1>7
    <2>3. n + Header \in Nat /\ n <= n + Header /\ (n + Header) - n = Header
      BY <1>2
    <2>5. AddRooms(c.next, c.used, k.next, k.used, n, n + Header)
      BY <2>1, <2>2 DEF AddRooms
    <2>4. Cardinality(Rooms(k.next, k.used))
            = Cardinality(Rooms(c.next, c.used)) + ((n + Header) - n)
      BY <2>3, <2>5, <1>1, <1>2, MoreRooms
    <2>. QED
      BY <2>3, <2>4
  <1>10. ASSUME ~c.used[i], c.used[n]
         PROVE  Cardinality(Rooms(k.next, k.used)) = Cardinality(Rooms(c.next, c.used)) + (m - n)
    <2>1. ASSUME NEW x \in Nat
          PROVE  IsRoom(k.next, k.used, x) <=>
                   IsRoom(c.next, c.used, x) \/ x \in n .. m - 1
      <3>1. CASE ~(i <= x /\ x < m)
        BY <3>1, <1>1, <1>2, <1>3, <1>5
      <3>2. CASE i <= x /\ x < n
        BY <3>2, <1>1, <1>2, <1>3, <1>6, <1>8, <1>10
      <3>3. CASE n <= x /\ x < m
        BY <3>3, <1>1, <1>2, <1>3, <1>7, <1>8, <1>10
      <3>. QED
        BY <3>1, <3>2, <3>3, <1>1, <1>2
    <2>2. \A x \in n .. m - 1 : ~IsRoom(c.next, c.used, x)
      BY <1>2, <1>3, <1>7, <1>10
    <2>3. n <= m
      BY <1>2, <1>3
    <2>4. AddRooms(c.next, c.used, k.next, k.used, n, m)
      BY <2>1, <2>2 DEF AddRooms
    <2>. QED
      BY <2>3, <2>4, <1>1, <1>2, <1>3, MoreRooms
  <1>11. ASSUME c.used[i], ~c.used[n]
         PROVE  Cardinality(Rooms(c.next, c.used))
                  = Cardinality(Rooms(k.next, k.used)) + (m - (n + Header))
    <2>1. ASSUME NEW x \in Nat
          PROVE  IsRoom(c.next, c.used, x) <=>
                   IsRoom(k.next, k.used, x) \/ x \in n + Header .. m - 1
      <3>1. CASE ~(i <= x /\ x < m)
        BY <3>1, <1>1, <1>2, <1>3, <1>5
      <3>2. CASE i <= x /\ x < n
        BY <3>2, <1>1, <1>2, <1>3, <1>6, <1>8, <1>11
      <3>3. CASE n <= x /\ x < m
        BY <3>3, <1>1, <1>2, <1>3, <1>7, <1>8, <1>11
      <3>. QED
        BY <3>1, <3>2, <3>3, <1>1, <1>2
    <2>2. \A x \in n + Header .. m - 1 : ~IsRoom(k.next, k.used, x)
      BY <1>1, <1>2, <1>3, <1>8, <1>11
    <2>3. n + Header \in Nat
      BY <1>2
    <2>4. AddRooms(k.next, k.used, c.next, c.used, n + Header, m)
      BY <2>1, <2>2 DEF AddRooms
    <2>. QED
      BY <2>3, <2>4, <1>1, <1>3, MoreRooms
  <1>. QED
    BY <1>9, <1>10, <1>11 DEF k, n, m

\* An item that was free, and then is in use.
LEMMA MarkedRooms ==
  ASSUME MemHeapAssumption, NEW nx, NEW pv, NEW us, IsRing(nx, pv, us),
         NEW i \in DOMAIN us \ {Tailer}, ~us[i],
         NEW vs, IsRing(nx, pv, vs), DOMAIN vs = DOMAIN us, vs[i],
         \A j \in DOMAIN us \ {i} : vs[j] = us[j]
  PROVE  Cardinality(Rooms(nx, us)) = Cardinality(Rooms(nx, vs)) + (nx[i] - (i + Header))
  <1>. DEFINE n == nx[i]
  <1>1. Header \in Nat /\ MiniAlloc \in Nat /\ i \in Nat /\ n \in Nat /\ n >= i + Header + MiniAlloc
    BY EndFacts, ItemFacts
  <1>2. ASSUME NEW x \in Nat, ~(i <= x /\ x < n)
        PROVE  IsRoom(nx, us, x) <=> IsRoom(nx, vs, x)
    <2>1. \A j \in DOMAIN us \cap {i} : ~(j + Header <= x /\ x < nx[j])
      BY <1>1, <1>2
    <2>2. Elsewhere(nx, us, nx, vs, {i}, {i}, x)
      BY <2>1 DEF Elsewhere
    <2>. QED
      BY <2>2, RoomElsewhere
  <1>3. ASSUME NEW x \in Nat, i <= x, x < n
        PROVE  (IsRoom(nx, us, x) <=> i + Header <= x) /\ ~IsRoom(nx, vs, x)
    BY <1>3, RoomOf
  <1>. HIDE DEF n
  <1>4. ASSUME NEW x \in Nat
        PROVE  IsRoom(nx, us, x) <=> IsRoom(nx, vs, x) \/ x \in i + Header .. n - 1
    <2>1. CASE i <= x /\ x < n
      BY <2>1, <1>1, <1>3
    <2>2. CASE ~(i <= x /\ x < n)
      BY <2>2, <1>1, <1>2
    <2>. QED
      BY <2>1, <2>2
  <1>5. \A x \in i + Header .. n - 1 : ~IsRoom(nx, vs, x)
    BY <1>1, <1>3
  <1>6. i + Header \in Nat /\ i + Header <= n
    BY <1>1
  <1>7. AddRooms(nx, vs, nx, us, i + Header, n)
    BY <1>4, <1>5 DEF AddRooms
  <1>8. Cardinality(Rooms(nx, us)) = Cardinality(Rooms(nx, vs)) + (n - (i + Header))
    BY <1>1, <1>6, <1>7, MoreRooms
  <1>. QED
    BY <1>8 DEF n

-----------------------------------------------------------------------------
\* The steps.

NoneTouch(c) == \A j \in DOMAIN c.used : c.used[j] \/ c.used[c.next[j]]

LEMMA ItemsKept ==
  ASSUME NEW k, ItemsInv(k), Becomes(k),
         available' = Cardinality(Rooms(k.next, k.used)),
         PoolSize - available' <= maxUsed', maxUsed' \in 0 .. PoolSize
  PROVE  MemHeapInv'
  <1>1. next' = k.next /\ prev' = k.prev /\ used' = k.used /\ freeItems' = k.freeItems
    BY DEF Becomes
  <1>2. ItemsInv(Items)'
    <2>1. /\ IsRing(next', prev', used') /\ Lists(freeItems', FreeOnes(used'))
          /\ \A i \in DOMAIN used' : used'[i] \/ used'[next'[i]]
      BY <1>1 DEF ItemsInv
    <2>. QED
      BY <2>1 DEF ItemsInv, Items, IsRing, Lists, FreeOnes, Tailer
  <1>3. available' = Cardinality(Rooms(next, used))'
    BY <1>1 DEF Rooms, IsRoom
  <1>. QED
    BY <1>2, <1>3 DEF MemHeapInv

LEMMA ItemsNow ==
  ASSUME MemHeapAssumption, MemHeapInv
  PROVE  /\ IsRing(next, prev, used) /\ Lists(freeItems, FreeOnes(used))
         /\ NoneTouch(Items)
         /\ Items.next = next /\ Items.prev = prev /\ Items.used = used
         /\ Items.freeItems = freeItems
         /\ Items = [next |-> next, prev |-> prev, used |-> used, freeItems |-> freeItems]
         /\ available = Cardinality(Rooms(next, used)) /\ available \in 0 .. PoolSize
         /\ PoolSize \in Nat /\ maxUsed \in 0 .. PoolSize /\ PoolSize - available <= maxUsed
  <1>1. /\ Items.next = next /\ Items.prev = prev /\ Items.used = used
        /\ Items.freeItems = freeItems
    BY DEF Items
  <1>2. IsRing(next, prev, used) /\ Lists(freeItems, FreeOnes(used)) /\ NoneTouch(Items)
    BY <1>1 DEF MemHeapInv, ItemsInv, NoneTouch
  <1>3. available = Cardinality(Rooms(next, used)) /\ available \in 0 .. PoolSize
    BY <1>2, RoomsFacts DEF MemHeapInv
  <1>. QED
    BY <1>1, <1>2, <1>3, MemHeapConstants DEF MemHeapInv, Items

LEMMA AllocKeeps ==
  ASSUME MemHeapAssumption, MemHeapInv, NEW wanted \in Wanted, Alloc(wanted)
  PROVE  MemHeapInv'
  <1>. DEFINE size == IF wanted < MiniAlloc THEN MiniAlloc ELSE wanted
  <1>1. /\ size \in Nat /\ size >= MiniAlloc /\ Header \in Nat \ {0} /\ MiniAlloc \in Nat \ {0}
        /\ PoolSize \in Nat
    BY MemHeapConstants
  <1>. HIDE DEF size
  <1>2. /\ IsRing(next, prev, used) /\ Lists(freeItems, FreeOnes(used))
        /\ NoneTouch(Items)
        /\ Items.next = next /\ Items.prev = prev /\ Items.used = used
        /\ Items.freeItems = freeItems
        /\ Items = [next |-> next, prev |-> prev, used |-> used, freeItems |-> freeItems]
        /\ available = Cardinality(Rooms(next, used)) /\ available \in 0 .. PoolSize
        /\ PoolSize \in Nat /\ maxUsed \in 0 .. PoolSize /\ PoolSize - available <= maxUsed
    BY ItemsNow
  <1>. HIDE DEF Items
  <1>3. PICK h \in DOMAIN freeItems :
          LET i      == freeItems[h]
              room   == Size(Items, i)
              splits == room >= size + Header + MiniAlloc
              c      == IF splits THEN Split(Items, i, i + size + Header) ELSE Items
          IN /\ room >= size
             /\ Becomes([c EXCEPT !.used[i] = TRUE, !.freeItems = Unlinked(@, i)])
             /\ available' = available - (IF splits THEN size + Header ELSE room)
             /\ maxUsed' = MostUsed(available')
    BY DEF Alloc, size
  <1>. DEFINE i      == freeItems[h]
              room   == Size(Items, i)
              splits == room >= size + Header + MiniAlloc
              c      == IF splits THEN Split(Items, i, i + size + Header) ELSE Items
              k      == [c EXCEPT !.used[i] = TRUE, !.freeItems = Unlinked(@, i)]
  <1>4. /\ room >= size /\ Becomes(k)
        /\ available' = available - (IF splits THEN size + Header ELSE room)
        /\ maxUsed' = MostUsed(available')
    BY <1>3
  <1>5. i \in DOMAIN used \ {Tailer} /\ ~used[i]
    <2>1. freeItems \in Seq(FreeOnes(used))
      BY <1>2 DEF Lists
    <2>2. freeItems[h] \in FreeOnes(used)
      BY <2>1, <1>3, ElementOfSeq, LenProperties
    <2>3. used[Tailer]
      BY <1>2, EndFacts
    <2>. QED
      BY <2>2, <2>3 DEF FreeOnes
  <1>6. /\ i \in Nat /\ next[i] \in DOMAIN used \ {0} /\ next[i] \in Nat
        /\ next[i] >= i + Header + MiniAlloc /\ next[i] > i /\ room = next[i] - i - Header
        /\ used[next[i]]
    <2>1. /\ i \in Nat /\ next[i] \in DOMAIN used \ {0} /\ next[i] \in Nat
          /\ next[i] >= i + Header + MiniAlloc /\ next[i] > i
      <3>. HIDE DEF i
      <3>. QED
        BY <1>2, <1>5, ItemFacts
    <2>2. room = next[i] - i - Header
      BY <1>2 DEF Size
    <2>3. used[next[i]]
      BY <1>2, <1>5 DEF NoneTouch
    <2>. QED
      BY <2>1, <2>2, <2>3
  <1>. HIDE DEF i, room
  <1>7. /\ IsRing(c.next, c.prev, c.used) /\ Lists(c.freeItems, FreeOnes(c.used))
        /\ i \in DOMAIN c.used /\ ~c.used[i]
        /\ \A j \in DOMAIN c.used : c.used[j] \/ c.used[c.next[j]] \/ c.next[j] = i \/ j = i
        /\ Cardinality(Rooms(next, used))
             = Cardinality(Rooms(c.next, c.used)) + (IF splits THEN Header ELSE 0)
        /\ c.next[i] - (i + Header) = IF splits THEN size ELSE room
        /\ k.next = c.next /\ k.prev = c.prev /\ k.used = [c.used EXCEPT ![i] = TRUE]
        /\ k.freeItems = Unlinked(c.freeItems, i)
    <2>1. CASE splits
      <3>. DEFINE at == i + size + Header
      <3>1. c = Split(Items, i, at)
        BY <2>1
      <3>2. at \in Nat /\ i + Header + MiniAlloc <= at /\ at + Header + MiniAlloc <= next[i]
        BY <2>1, <1>1, <1>6
      <3>. HIDE DEF at
      <3>3. CanSplit(Items, i, at)
        BY <3>2, <1>2, <1>5 DEF CanSplit
      <3>4. IsSplit(Items, i, at, Split(Items, i, at))
        BY <3>3, SplitFacts
      <3>5. Cardinality(Rooms(next, used))
              = Cardinality(Rooms(Split(Items, i, at).next, Split(Items, i, at).used)) + Header
        BY <3>2, <1>2, <1>5, SplitRooms
      <3>6. /\ k.next = c.next /\ k.prev = c.prev /\ k.used = [c.used EXCEPT ![i] = TRUE]
            /\ k.freeItems = Unlinked(c.freeItems, i)
        <4>1. k = [Split(Items, i, at) EXCEPT !.used[i] = TRUE, !.freeItems = Unlinked(@, i)]
          BY <3>1
        <4>. HIDE DEF k, c
        <4>. QED
          BY <4>1, <3>1 DEF Split
      <3>. HIDE DEF c, k
      <3>7. /\ at \notin DOMAIN used /\ DOMAIN c.used = DOMAIN used \cup {at}
            /\ c.next[i] = at /\ c.next[at] = next[i] /\ ~c.used[at]
            /\ \A j \in DOMAIN used : c.used[j] = used[j]
            /\ \A j \in DOMAIN used \ {i} : c.next[j] = next[j]
            /\ IsRing(c.next, c.prev, c.used) /\ c.freeItems = <<at>> \o freeItems
            /\ FreeOnes(c.used) = FreeOnes(used) \cup {at}
        BY <3>1, <3>4, <1>2 DEF IsSplit
      <3>8. Lists(c.freeItems, FreeOnes(c.used))
        <4>1. at \notin FreeOnes(used)
          BY <3>7 DEF FreeOnes
        <4>. QED
          BY <4>1, <3>7, <1>2, PutFirst
      <3>9. \A j \in DOMAIN c.used : c.used[j] \/ c.used[c.next[j]] \/ c.next[j] = i \/ j = i
        <4>1. ASSUME NEW j \in DOMAIN used \ {i}
              PROVE  c.used[j] \/ c.used[c.next[j]]
          <5>1. used[j] \/ used[next[j]]
            BY <1>2 DEF NoneTouch
          <5>2. next[j] \in DOMAIN used
            BY <1>2, RingFacts
          <5>. QED
            BY <5>1, <5>2, <3>7
        <4>2. c.used[c.next[at]]
          BY <3>7, <1>6
        <4>. QED
          BY <4>1, <4>2, <3>7
      <3>10. c.next[i] - (i + Header) = size
        BY <3>7, <1>1, <1>6 DEF at
      <3>. QED
        BY <2>1, <3>1, <3>5, <3>6, <3>7, <3>8, <3>9, <3>10, <1>5
    <2>2. CASE ~splits
      <3>1. c = Items
        BY <2>2
      <3>2. k = [Items EXCEPT !.used[i] = TRUE, !.freeItems = Unlinked(@, i)]
        BY <3>1
      <3>. HIDE DEF c, k
      <3>3. /\ k.next = c.next /\ k.prev = c.prev /\ k.used = [c.used EXCEPT ![i] = TRUE]
            /\ k.freeItems = Unlinked(c.freeItems, i)
        BY <3>1, <3>2 DEF Items
      <3>4. c.next = next /\ c.prev = prev /\ c.used = used /\ c.freeItems = freeItems
        BY <3>1, <1>2
      <3>5. next[i] - (i + Header) = room
        BY <1>1, <1>6
      <3>6. Cardinality(Rooms(next, used)) \in Nat
        BY <1>2
      <3>7. \A j \in DOMAIN used : used[j] \/ used[next[j]]
        BY <1>2 DEF NoneTouch
      <3>. QED
        BY <2>2, <3>3, <3>4, <3>5, <3>6, <3>7, <1>2, <1>5
    <2>. QED
      BY <2>1, <2>2
  <1>. HIDE DEF c, k
  <1>8. i \in DOMAIN c.used \ {Tailer}
    BY <1>5, <1>7
  <1>9. /\ IsRing(k.next, k.prev, k.used) /\ DOMAIN k.used = DOMAIN c.used /\ k.used[i]
        /\ \A j \in DOMAIN c.used \ {i} : k.used[j] = c.used[j]
        /\ FreeOnes(k.used) = FreeOnes(c.used) \ {i}
    <2>1. k.used = [c.used EXCEPT ![i] = TRUE] /\ IsRing(c.next, c.prev, c.used)
      BY <1>7
    <2>2. /\ IsRing(c.next, c.prev, k.used) /\ DOMAIN k.used = DOMAIN c.used /\ k.used[i]
          /\ \A j \in DOMAIN c.used \ {i} : k.used[j] = c.used[j]
          /\ FreeOnes(k.used) = FreeOnes(c.used) \ {i}
      BY <2>1, <1>8, MarkedFacts
    <2>. QED
      BY <2>2, <1>7
  <1>10. Cardinality(Rooms(c.next, c.used))
           = Cardinality(Rooms(k.next, k.used)) + (c.next[i] - (i + Header))
    <2>1. IsRing(c.next, c.prev, k.used)
      BY <1>7, <1>9
    <2>2. Cardinality(Rooms(c.next, c.used))
           = Cardinality(Rooms(c.next, k.used)) + (c.next[i] - (i + Header))
      BY <2>1, <1>7, <1>8, <1>9, MarkedRooms
    <2>. QED
      BY <2>2, <1>7
  <1>11. Lists(k.freeItems, FreeOnes(k.used))
    <2>1. Lists(Unlinked(c.freeItems, i), FreeOnes(c.used) \ {i})
      BY <1>7, TakenOut
    <2>. QED
      BY <2>1, <1>7, <1>9
  <1>12. \A j \in DOMAIN k.used : k.used[j] \/ k.used[k.next[j]]
    <2>1. \A j \in DOMAIN c.used : c.next[j] \in DOMAIN c.used
      BY <1>7, RingFacts
    <2>. QED
      BY <2>1, <1>7, <1>9
  <1>13. ItemsInv(k)
    BY <1>9, <1>11, <1>12 DEF ItemsInv
  <1>14. /\ available' = Cardinality(Rooms(k.next, k.used)) /\ available' \in 0 .. PoolSize
    <2>1. Cardinality(Rooms(k.next, k.used)) \in 0 .. PoolSize
      BY <1>9, RoomsFacts
    <2>2. room \in Int
      BY <1>1, <1>6
    <2>3. available' = Cardinality(Rooms(k.next, k.used))
      <3>1. CASE splits
        BY <3>1, <2>1, <2>2, <1>1, <1>2, <1>4, <1>7, <1>10
      <3>2. CASE ~splits
        BY <3>2, <2>1, <2>2, <1>1, <1>2, <1>4, <1>7, <1>10
      <3>. QED
        BY <3>1, <3>2
    <2>. QED
      BY <2>1, <2>3
  <1>15. PoolSize - available' <= maxUsed' /\ maxUsed' \in 0 .. PoolSize
    BY <1>2, <1>4, <1>14 DEF MostUsed
  <1>. QED
    BY <1>4, <1>13, <1>14, <1>15, ItemsKept

LEMMA GrowKeeps ==
  ASSUME MemHeapAssumption, MemHeapInv, NEW i, NEW newsize \in Wanted, newsize >= MiniAlloc,
         Grow(i, newsize)
  PROVE  MemHeapInv'
  <1>. DEFINE n  == next[i]
              m  == next[n]
              c  == Joined(Items, i)
              at == i + Header + newsize
              k  == Split(c, i, at)
  <1>1. newsize \in Nat /\ Header \in Nat \ {0} /\ MiniAlloc \in Nat \ {0} /\ PoolSize \in Nat
    BY MemHeapConstants
  <1>2. /\ IsRing(next, prev, used) /\ Lists(freeItems, FreeOnes(used))
        /\ NoneTouch(Items)
        /\ Items.next = next /\ Items.prev = prev /\ Items.used = used
        /\ Items.freeItems = freeItems
        /\ available = Cardinality(Rooms(next, used)) /\ available \in 0 .. PoolSize
        /\ PoolSize \in Nat /\ maxUsed \in 0 .. PoolSize /\ PoolSize - available <= maxUsed
    BY ItemsNow
  <1>. HIDE DEF Items
  <1>3. /\ i \in DOMAIN used \ {Tailer} /\ used[i] /\ ~used[n]
        /\ newsize > Size(Items, i)
        /\ Size(Items, n) + Size(Items, i) > newsize + MiniAlloc
        /\ Becomes(k)
        /\ available' = available - (newsize - Size(Items, i))
        /\ maxUsed' = MostUsed(available')
    BY DEF Grow
  <1>4. n # Tailer
    BY <1>2, <1>3, EndFacts
  <1>5. /\ n \in DOMAIN used \ {0, i, Tailer} /\ i < n
        /\ m \in DOMAIN used \ {i, n} /\ n < m
        /\ DOMAIN c.used = DOMAIN used \ {n} /\ c.next[i] = m
        /\ \A j \in DOMAIN used \ {n} : c.used[j] = used[j]
        /\ \A j \in DOMAIN used \ {i, n} : c.next[j] = next[j] /\ next[j] # n
        /\ IsRing(c.next, c.prev, c.used) /\ c.freeItems = Unlinked(freeItems, n)
        /\ FreeOnes(c.used) = FreeOnes(used) \ {n}
    <2>1. IsRing(Items.next, Items.prev, Items.used) /\ i \in DOMAIN Items.used \ {Tailer}
          /\ Items.next[i] # Tailer
      BY <1>2, <1>3, <1>4
    <2>2. IsJoined(Items, i, c)
      BY <2>1, JoinedFacts
    <2>. HIDE DEF c
    <2>. QED
      BY <2>2, <1>2 DEF IsJoined
  <1>6. Cardinality(Rooms(next, used)) = Cardinality(Rooms(c.next, c.used)) + (m - (n + Header))
    <2>1. IsRing(Items.next, Items.prev, Items.used) /\ i \in DOMAIN Items.used \ {Tailer}
          /\ Items.next[i] # Tailer
      BY <1>2, <1>3, <1>4
    <2>2. Items.used[i] /\ ~Items.used[Items.next[i]]
      BY <1>2, <1>3
    <2>. HIDE DEF c
    <2>. QED
      BY <2>1, <2>2, <1>2, JoinedRooms DEF c
  <1>7. i \in Nat /\ n \in Nat /\ m \in Nat
    BY <1>2, <1>3, <1>5, RingFacts
  <1>8. Size(Items, i) = n - i - Header /\ Size(Items, n) = m - n - Header
    BY <1>2 DEF Size
  <1>. HIDE DEF n, m, c
  <1>9. /\ at \in Nat /\ i + Header + MiniAlloc <= at /\ at + Header + MiniAlloc <= c.next[i]
        /\ at \in Int /\ at = i + Header + newsize
    BY <1>1, <1>3, <1>5, <1>7, <1>8
  <1>10. i \in DOMAIN c.used \ {Tailer} /\ c.used[i] /\ n # i
    BY <1>3, <1>5
  <1>. HIDE DEF at
  <1>11. CanSplit(c, i, at)
    BY <1>5, <1>9, <1>10 DEF CanSplit
  <1>12. IsSplit(c, i, at, k)
    BY <1>11, SplitFacts
  <1>13. Cardinality(Rooms(k.next, k.used))
           = Cardinality(Rooms(c.next, c.used)) + (m - (at + Header))
    BY <1>5, <1>9, <1>10, SplitRooms
  <1>. HIDE DEF k
  <1>14. /\ at \notin DOMAIN c.used /\ DOMAIN k.used = DOMAIN c.used \cup {at}
         /\ k.next[i] = at /\ k.next[at] = m /\ ~k.used[at]
         /\ \A j \in DOMAIN c.used : k.used[j] = c.used[j]
         /\ \A j \in DOMAIN c.used \ {i} : k.next[j] = c.next[j]
         /\ IsRing(k.next, k.prev, k.used) /\ k.freeItems = <<at>> \o c.freeItems
         /\ FreeOnes(k.used) = FreeOnes(c.used) \cup {at}
    BY <1>5, <1>12 DEF IsSplit
  <1>15. Lists(k.freeItems, FreeOnes(k.used))
    <2>1. Lists(Unlinked(freeItems, n), FreeOnes(used) \ {n})
      BY <1>2, TakenOut
    <2>2. Lists(c.freeItems, FreeOnes(c.used))
      BY <2>1, <1>5
    <2>3. at \notin FreeOnes(c.used)
      BY <1>14 DEF FreeOnes
    <2>4. Lists(<<at>> \o c.freeItems, FreeOnes(c.used) \cup {at})
      BY <2>2, <2>3, PutFirst
    <2>. QED
      BY <2>4, <1>14
  <1>16. \A j \in DOMAIN k.used : k.used[j] \/ k.used[k.next[j]]
    <2>1. k.used[i]
      BY <1>10, <1>14
    <2>2. k.used[k.next[at]]
      <3>1. used[m]
        BY <1>2, <1>3, <1>5 DEF NoneTouch, m
      <3>. QED
        BY <3>1, <1>5, <1>14
    <2>3. ASSUME NEW j \in DOMAIN c.used \ {i}
          PROVE  k.used[j] \/ k.used[k.next[j]]
      <3>1. used[j] \/ used[next[j]]
        BY <1>2, <1>5 DEF NoneTouch
      <3>2. next[j] \in DOMAIN used
        BY <1>2, <1>5, RingFacts
      <3>. QED
        BY <3>1, <3>2, <1>5, <1>14
    <2>. QED
      BY <2>1, <2>2, <2>3, <1>14
  <1>17. ItemsInv(k)
    BY <1>14, <1>15, <1>16 DEF ItemsInv
  <1>18. /\ available' = Cardinality(Rooms(k.next, k.used)) /\ available' \in 0 .. PoolSize
    <2>1. Cardinality(Rooms(k.next, k.used)) \in 0 .. PoolSize
      BY <1>14, RoomsFacts
    <2>2. Cardinality(Rooms(c.next, c.used)) \in 0 .. PoolSize
      BY <1>5, RoomsFacts
    <2>. QED
      BY <2>1, <2>2, <1>1, <1>2, <1>3, <1>6, <1>7, <1>8, <1>9, <1>13
  <1>19. PoolSize - available' <= maxUsed' /\ maxUsed' \in 0 .. PoolSize
    BY <1>2, <1>3, <1>18 DEF MostUsed
  <1>. QED
    BY <1>3, <1>17, <1>18, <1>19, ItemsKept

\* A state of the items in which only the item j may touch a free one.
OnlyTouches(c, j) ==
  /\ IsRing(c.next, c.prev, c.used) /\ Lists(c.freeItems, FreeOnes(c.used))
  /\ j \in DOMAIN c.used \ {Tailer} /\ ~c.used[j]
  /\ \A l \in DOMAIN c.used \ {j} : c.used[l] \/ c.used[c.next[l]]

LEMMA JoinLast ==
  ASSUME MemHeapAssumption, NEW c, NEW j, OnlyTouches(c, j), ~c.used[c.next[j]]
  PROVE  LET k == Joined(c, j) IN
         /\ ItemsInv(k) /\ k.next[j] = c.next[c.next[j]]
         /\ Cardinality(Rooms(k.next, k.used)) = Cardinality(Rooms(c.next, c.used)) + Header
  <1>. DEFINE n == c.next[j]
              m == c.next[n]
              k == Joined(c, j)
  <1>1. /\ IsRing(c.next, c.prev, c.used) /\ Lists(c.freeItems, FreeOnes(c.used))
        /\ j \in DOMAIN c.used \ {Tailer} /\ ~c.used[j]
        /\ \A l \in DOMAIN c.used \ {j} : c.used[l] \/ c.used[c.next[l]]
    BY DEF OnlyTouches
  <1>2. n # Tailer
    BY <1>1, EndFacts
  <1>3. Cardinality(Rooms(k.next, k.used)) = Cardinality(Rooms(c.next, c.used)) + Header
    BY <1>1, <1>2, JoinedRooms
  <1>4. /\ n \in DOMAIN c.used \ {0, j, Tailer}
        /\ m \in DOMAIN c.used \ {j, n}
        /\ DOMAIN k.used = DOMAIN c.used \ {n} /\ k.next[j] = m
        /\ \A l \in DOMAIN c.used \ {n} : k.used[l] = c.used[l]
        /\ \A l \in DOMAIN c.used \ {j, n} : k.next[l] = c.next[l] /\ c.next[l] # n
        /\ IsRing(k.next, k.prev, k.used) /\ k.freeItems = Unlinked(c.freeItems, n)
        /\ FreeOnes(k.used) = FreeOnes(c.used) \ {n}
    <2>1. IsJoined(c, j, k)
      BY <1>1, <1>2, JoinedFacts
    <2>. HIDE DEF k
    <2>. QED
      BY <2>1 DEF IsJoined
  <1>. HIDE DEF k
  <1>5. Lists(k.freeItems, FreeOnes(k.used))
    <2>1. Lists(Unlinked(c.freeItems, n), FreeOnes(c.used) \ {n})
      BY <1>1, TakenOut
    <2>. QED
      BY <2>1, <1>4
  <1>6. \A l \in DOMAIN k.used : k.used[l] \/ k.used[k.next[l]]
    <2>1. k.used[k.next[j]]
      BY <1>1, <1>4
    <2>2. ASSUME NEW l \in DOMAIN c.used \ {j, n}
          PROVE  k.used[l] \/ k.used[k.next[l]]
      <3>1. c.used[l] \/ c.used[c.next[l]]
        BY <1>1
      <3>2. c.next[l] \in DOMAIN c.used
        BY <1>1, RingFacts
      <3>. QED
        BY <3>1, <3>2, <1>4
    <2>. QED
      BY <2>1, <2>2, <1>4
  <1>7. ItemsInv(k)
    BY <1>4, <1>5, <1>6 DEF ItemsInv
  <1>. QED
    BY <1>3, <1>4, <1>7 DEF k

LEMMA JoinNone ==
  ASSUME NEW c, NEW j, OnlyTouches(c, j), c.used[c.next[j]]
  PROVE  ItemsInv(c)
  BY DEF OnlyTouches, ItemsInv

LEMMA ShrinkKeeps ==
  ASSUME MemHeapAssumption, MemHeapInv, NEW i, NEW newsize \in Wanted, newsize >= MiniAlloc,
         Shrink(i, newsize)
  PROVE  MemHeapInv'
  <1>. DEFINE n  == next[i]
              at == i + newsize + Header
              c  == Split(Items, i, at)
              d  == IF used[n] THEN c ELSE Joined(c, at)
  <1>1. newsize \in Nat /\ Header \in Nat \ {0} /\ MiniAlloc \in Nat \ {0} /\ PoolSize \in Nat
    BY MemHeapConstants
  <1>2. /\ IsRing(next, prev, used) /\ Lists(freeItems, FreeOnes(used))
        /\ NoneTouch(Items)
        /\ Items.next = next /\ Items.prev = prev /\ Items.used = used
        /\ Items.freeItems = freeItems
        /\ available = Cardinality(Rooms(next, used)) /\ available \in 0 .. PoolSize
        /\ PoolSize \in Nat /\ maxUsed \in 0 .. PoolSize /\ PoolSize - available <= maxUsed
    BY ItemsNow
  <1>. HIDE DEF Items
  <1>3. /\ i \in DOMAIN used \ {Tailer} /\ used[i]
        /\ newsize + Header + MiniAlloc < Size(Items, i)
        /\ Becomes(d)
        /\ available' = available + Size(d, at) - (IF used[n] THEN 0 ELSE Size(Items, n))
        /\ maxUsed' = maxUsed
    BY DEF Shrink
  <1>4. i \in Nat /\ n \in Nat /\ n \in DOMAIN used /\ next[n] \in Nat
    <2>1. i \in Nat /\ n \in Nat /\ n \in DOMAIN used
      BY <1>2, <1>3, RingFacts
    <2>. HIDE DEF n
    <2>. QED
      BY <2>1, <1>2, RingFacts
  <1>5. Size(Items, i) = n - i - Header /\ Size(Items, n) = next[n] - n - Header
    BY <1>2 DEF Size
  <1>6. /\ at \in Nat /\ i + Header + MiniAlloc <= at /\ at + Header + MiniAlloc <= n
        /\ at + Header <= n
    BY <1>1, <1>3, <1>4, <1>5
  <1>. HIDE DEF at
  <1>7. IsSplit(Items, i, at, c)
    <2>1. CanSplit(Items, i, at)
      BY <1>2, <1>3, <1>6 DEF CanSplit
    <2>. QED
      BY <2>1, SplitFacts
  <1>8. Cardinality(Rooms(c.next, c.used)) = Cardinality(Rooms(next, used)) + (n - (at + Header))
    BY <1>2, <1>3, <1>6, SplitRooms
  <1>. HIDE DEF c
  <1>9. /\ at \notin DOMAIN used /\ DOMAIN c.used = DOMAIN used \cup {at}
        /\ c.next[i] = at /\ c.next[at] = n /\ ~c.used[at]
        /\ \A j \in DOMAIN used : c.used[j] = used[j]
        /\ \A j \in DOMAIN used \ {i} : c.next[j] = next[j]
        /\ IsRing(c.next, c.prev, c.used) /\ c.freeItems = <<at>> \o freeItems
        /\ FreeOnes(c.used) = FreeOnes(used) \cup {at}
    BY <1>2, <1>7 DEF IsSplit
  <1>. HIDE DEF n
  <1>10. OnlyTouches(c, at)
    <2>1. Lists(c.freeItems, FreeOnes(c.used))
      <3>1. at \notin FreeOnes(used)
        BY <1>9 DEF FreeOnes
      <3>2. Lists(<<at>> \o freeItems, FreeOnes(used) \cup {at})
        BY <3>1, <1>2, PutFirst
      <3>. QED
        BY <3>2, <1>9
    <2>2. ASSUME NEW l \in DOMAIN used \ {i} PROVE c.used[l] \/ c.used[c.next[l]]
      <3>1. used[l] \/ used[next[l]]
        BY <1>2 DEF NoneTouch
      <3>2. next[l] \in DOMAIN used
        BY <1>2, RingFacts
      <3>. QED
        BY <3>1, <3>2, <1>9
    <2>3. c.used[i] /\ at # Tailer
      BY <1>2, <1>3, <1>9, EndFacts
    <2>. QED
      BY <2>1, <2>2, <2>3, <1>9 DEF OnlyTouches
  <1>11. n # i
    BY <1>1, <1>4, <1>6
  <1>12. /\ ItemsInv(d)
         /\ Cardinality(Rooms(d.next, d.used))
              = Cardinality(Rooms(c.next, c.used)) + (IF used[n] THEN 0 ELSE Header)
         /\ d.next[at] = IF used[n] THEN n ELSE next[n]
    <2>1. CASE used[n]
      <3>1. ItemsInv(c)
        BY <2>1, <1>4, <1>9, <1>10, JoinNone
      <3>2. Cardinality(Rooms(c.next, c.used)) \in 0 .. PoolSize
        BY <1>9, RoomsFacts
      <3>3. d = c
        BY <2>1
      <3>. HIDE DEF d
      <3>. QED
        BY <2>1, <3>1, <3>2, <3>3, <1>1, <1>9
    <2>2. CASE ~used[n]
      <3>1. d = Joined(c, at)
        BY <2>2
      <3>2. ~c.used[c.next[at]]
        BY <2>2, <1>4, <1>9
      <3>3. LET k == Joined(c, at) IN
            /\ ItemsInv(k) /\ k.next[at] = c.next[c.next[at]]
            /\ Cardinality(Rooms(k.next, k.used)) = Cardinality(Rooms(c.next, c.used)) + Header
        BY <3>2, <1>10, JoinLast
      <3>. HIDE DEF d
      <3>4. c.next[c.next[at]] = next[n]
        BY <1>4, <1>9, <1>11
      <3>. QED
        BY <2>2, <3>1, <3>3, <3>4
    <2>. QED
      BY <2>1, <2>2
  <1>. HIDE DEF d
  <1>13. /\ available' = Cardinality(Rooms(d.next, d.used)) /\ available' \in 0 .. PoolSize
         /\ available <= available'
    <2>1. Cardinality(Rooms(d.next, d.used)) \in 0 .. PoolSize
      BY <1>12, RoomsFacts DEF ItemsInv
    <2>2. Cardinality(Rooms(c.next, c.used)) \in 0 .. PoolSize
      BY <1>9, RoomsFacts
    <2>3. Size(d, at) = (IF used[n] THEN n ELSE next[n]) - at - Header
      BY <1>12 DEF Size
    <2>4. CASE used[n]
      BY <2>1, <2>2, <2>3, <2>4, <1>1, <1>2, <1>3, <1>4, <1>5, <1>6, <1>8, <1>12
    <2>5. CASE ~used[n]
      BY <2>1, <2>2, <2>3, <2>5, <1>1, <1>2, <1>3, <1>4, <1>5, <1>6, <1>8, <1>12
    <2>. QED
      BY <2>4, <2>5
  <1>14. PoolSize - available' <= maxUsed' /\ maxUsed' \in 0 .. PoolSize
    BY <1>2, <1>3, <1>13
  <1>. QED
    BY <1>3, <1>12, <1>13, <1>14, ItemsKept

LEMMA FreeKeeps ==
  ASSUME MemHeapAssumption, MemHeapInv, NEW i, Free(i)
  PROVE  MemHeapInv'
  <1>. DEFINE p      == prev[i]
              n      == next[i]
              before == ~used[p]
              c      == IF before THEN Joined(Items, p)
                        ELSE [Items EXCEPT !.used[i] = FALSE, !.freeItems = <<i>> \o @]
              j      == IF before THEN p ELSE i
              k      == IF ~used[n] THEN Joined(c, j) ELSE c
  <1>1. Header \in Nat \ {0} /\ MiniAlloc \in Nat \ {0} /\ PoolSize \in Nat
    BY MemHeapConstants
  <1>2. /\ IsRing(next, prev, used) /\ Lists(freeItems, FreeOnes(used))
        /\ NoneTouch(Items)
        /\ Items.next = next /\ Items.prev = prev /\ Items.used = used
        /\ Items.freeItems = freeItems
        /\ Items = [next |-> next, prev |-> prev, used |-> used, freeItems |-> freeItems]
        /\ available = Cardinality(Rooms(next, used)) /\ available \in 0 .. PoolSize
        /\ PoolSize \in Nat /\ maxUsed \in 0 .. PoolSize /\ PoolSize - available <= maxUsed
    BY ItemsNow
  <1>. HIDE DEF Items
  <1>3. /\ i \in DOMAIN used \ {Tailer} /\ used[i]
        /\ Becomes(k)
        /\ available' = available + Size(Items, i) + (IF before THEN Header ELSE 0)
                          + (IF ~used[n] THEN Header ELSE 0)
        /\ maxUsed' = maxUsed
    BY DEF Free
  <1>4. Size(Items, i) = n - i - Header
    BY <1>2 DEF Size
  <1>5. /\ i \in Nat /\ n \in Nat /\ n \in DOMAIN used \ {0, i} /\ i + Header <= n /\ i < n
        /\ p \in DOMAIN used
        /\ used[Tailer] /\ prev[0] = Tailer /\ Tailer \in DOMAIN used
    <2>1. /\ i \in Nat /\ n \in Nat /\ n \in DOMAIN used \ {0} /\ i < n
          /\ n >= i + Header + MiniAlloc
          /\ used[Tailer] /\ prev[0] = Tailer /\ p \in DOMAIN used /\ Tailer \in DOMAIN used
      BY <1>2, <1>3, RingFacts
    <2>. HIDE DEF n, p
    <2>. QED
      BY <2>1, <1>1
  <1>6. before => i # 0 /\ p # Tailer /\ next[p] = i /\ p # i /\ p \in Nat
    <2>1. before => i # 0 /\ p # Tailer
      BY <1>5
    <2>2. i # 0 => next[p] = i /\ p < i
      BY <1>2, <1>3, RingFacts
    <2>3. p \in Nat
      BY <1>2, <1>5, RingFacts
    <2>. QED
      BY <2>1, <2>2, <2>3, <1>5
  <1>7. /\ OnlyTouches(c, j) /\ c.next[j] = n
        /\ c.used[n] = used[n]
        /\ Cardinality(Rooms(c.next, c.used))
             = Cardinality(Rooms(next, used)) + Size(Items, i) + (IF before THEN Header ELSE 0)
    <2>1. CASE before
      <3>1. c = Joined(Items, p) /\ j = p
        BY <2>1
      <3>. HIDE DEF c, j, n, p, k
      <3>2. /\ IsRing(Items.next, Items.prev, Items.used) /\ p \in DOMAIN Items.used \ {Tailer}
            /\ Items.next[p] # Tailer
        BY <2>1, <1>2, <1>3, <1>5, <1>6
      <3>3. /\ DOMAIN c.used = DOMAIN used \ {i} /\ c.next[p] = n
            /\ \A l \in DOMAIN used \ {i} : c.used[l] = used[l]
            /\ \A l \in DOMAIN used \ {p, i} : c.next[l] = next[l] /\ next[l] # i
            /\ IsRing(c.next, c.prev, c.used) /\ c.freeItems = Unlinked(freeItems, i)
            /\ FreeOnes(c.used) = FreeOnes(used) \ {i}
        <4>1. IsJoined(Items, p, c)
          BY <3>1, <3>2, JoinedFacts
        <4>. QED
          BY <2>1, <4>1, <1>2, <1>6 DEF IsJoined, n
      <3>4. Cardinality(Rooms(c.next, c.used)) = Cardinality(Rooms(next, used)) + (n - i)
        <4>1. ~Items.used[p] /\ Items.used[Items.next[p]]
          BY <2>1, <1>2, <1>3, <1>6
        <4>. QED
          BY <2>1, <3>1, <3>2, <4>1, <1>2, <1>6, JoinedRooms DEF n
      <3>5. Lists(c.freeItems, FreeOnes(c.used))
        <4>1. Lists(Unlinked(freeItems, i), FreeOnes(used) \ {i})
          BY <1>2, TakenOut
        <4>. QED
          BY <4>1, <3>3
      <3>6. ASSUME NEW l \in DOMAIN used \ {p, i} PROVE c.used[l] \/ c.used[c.next[l]]
        <4>1. used[l] \/ used[next[l]]
          BY <1>2 DEF NoneTouch
        <4>2. next[l] \in DOMAIN used
          BY <1>2, RingFacts
        <4>. QED
          BY <4>1, <4>2, <3>3
      <3>7. p \in DOMAIN c.used \ {Tailer} /\ ~c.used[p]
        BY <2>1, <3>3, <1>5, <1>6
      <3>8. OnlyTouches(c, j)
        BY <3>1, <3>3, <3>5, <3>6, <3>7 DEF OnlyTouches
      <3>9. Cardinality(Rooms(c.next, c.used))
              = Cardinality(Rooms(next, used)) + Size(Items, i) + Header
        BY <3>4, <1>1, <1>2, <1>4, <1>5
      <3>. QED
        BY <2>1, <3>1, <3>3, <3>8, <3>9, <1>5
    <2>2. CASE ~before
      <3>1. c = [Items EXCEPT !.used[i] = FALSE, !.freeItems = <<i>> \o @] /\ j = i
        BY <2>2
      <3>. HIDE DEF c, j, k
      <3>2. c.next = next /\ c.prev = prev /\ c.used = [used EXCEPT ![i] = FALSE]
            /\ c.freeItems = <<i>> \o freeItems
        BY <3>1, <1>2
      <3>3. /\ IsRing(next, prev, c.used) /\ DOMAIN c.used = DOMAIN used /\ ~c.used[i]
            /\ \A l \in DOMAIN used \ {i} : c.used[l] = used[l]
            /\ FreeOnes(c.used) = FreeOnes(used) \cup {i}
        <4>. DEFINE vs == c.used
        <4>1. vs = [used EXCEPT ![i] = FALSE] /\ IsRing(next, prev, used)
              /\ i \in DOMAIN used \ {Tailer}
          BY <3>2, <1>2, <1>3
        <4>. HIDE DEF vs, n, p, before
        <4>2. IsRing(next, prev, vs) /\ IsUnmarked(used, i, vs)
          BY <4>1, UnmarkedFacts
        <4>. QED
          BY <4>2 DEF vs, IsUnmarked
      <3>4. Cardinality(Rooms(next, c.used))
              = Cardinality(Rooms(next, used)) + (next[i] - (i + Header))
        <4>1. i \in DOMAIN c.used \ {Tailer} /\ DOMAIN used = DOMAIN c.used
              /\ \A l \in DOMAIN c.used \ {i} : used[l] = c.used[l]
          BY <3>3, <1>3
        <4>. QED
          BY <4>1, <3>3, <1>2, <1>3, MarkedRooms
      <3>5. Lists(c.freeItems, FreeOnes(c.used))
        <4>1. i \notin FreeOnes(used)
          BY <1>3 DEF FreeOnes
        <4>2. Lists(<<i>> \o freeItems, FreeOnes(used) \cup {i})
          BY <4>1, <1>2, PutFirst
        <4>. QED
          BY <4>2, <3>2, <3>3
      <3>6. ASSUME NEW l \in DOMAIN used \ {i} PROVE c.used[l] \/ c.used[next[l]]
        <4>1. used[l] \/ used[next[l]]
          BY <1>2 DEF NoneTouch
        <4>2. next[l] \in DOMAIN used
          BY <1>2, RingFacts
        <4>3. next[l] = i => used[l]
          <5>. SUFFICES ASSUME next[l] = i PROVE used[l]
            OBVIOUS
          <5>1. l # Tailer => prev[next[l]] = l
            BY <1>2, RingFacts
          <5>. QED
            BY <5>1, <2>2, <1>5
        <4>. QED
          BY <4>1, <4>2, <4>3, <3>3
      <3>7. OnlyTouches(c, j)
        BY <3>1, <3>2, <3>3, <3>5, <3>6, <1>3 DEF OnlyTouches
      <3>8. Cardinality(Rooms(next, c.used))
              = Cardinality(Rooms(next, used)) + Size(Items, i) + 0
        BY <3>4, <1>1, <1>2, <1>4, <1>5
      <3>. QED
        BY <2>2, <3>1, <3>2, <3>3, <3>7, <3>8, <1>5
    <2>. QED
      BY <2>1, <2>2
  <1>. HIDE DEF c, j
  <1>8. /\ ItemsInv(k)
        /\ Cardinality(Rooms(k.next, k.used))
             = Cardinality(Rooms(c.next, c.used)) + (IF ~used[n] THEN Header ELSE 0)
    <2>1. CASE used[n]
      <3>1. ItemsInv(c) /\ IsRing(c.next, c.prev, c.used)
        BY <2>1, <1>7, JoinNone DEF OnlyTouches
      <3>2. Cardinality(Rooms(c.next, c.used)) \in 0 .. PoolSize
        BY <3>1, RoomsFacts
      <3>3. k = c
        BY <2>1
      <3>. HIDE DEF k
      <3>. QED
        BY <2>1, <3>1, <3>2, <3>3, <1>1
    <2>2. CASE ~used[n]
      <3>1. k = Joined(c, j)
        BY <2>2
      <3>2. ~c.used[c.next[j]]
        BY <2>2, <1>7
      <3>3. LET d == Joined(c, j) IN
            /\ ItemsInv(d) /\ d.next[j] = c.next[c.next[j]]
            /\ Cardinality(Rooms(d.next, d.used)) = Cardinality(Rooms(c.next, c.used)) + Header
        BY <3>2, <1>7, JoinLast
      <3>. HIDE DEF k
      <3>. QED
        BY <2>2, <3>1, <3>3
    <2>. QED
      BY <2>1, <2>2
  <1>. HIDE DEF k, n, p
  <1>9. /\ available' = Cardinality(Rooms(k.next, k.used)) /\ available' \in 0 .. PoolSize
        /\ available <= available'
    <2>1. Cardinality(Rooms(k.next, k.used)) \in 0 .. PoolSize
      BY <1>8, RoomsFacts DEF ItemsInv
    <2>2. Cardinality(Rooms(c.next, c.used)) \in 0 .. PoolSize
      BY <1>7, RoomsFacts DEF OnlyTouches
    <2>. QED
      BY <2>1, <2>2, <1>1, <1>2, <1>3, <1>4, <1>5, <1>7, <1>8
  <1>10. PoolSize - available' <= maxUsed' /\ maxUsed' \in 0 .. PoolSize
    BY <1>2, <1>3, <1>9
  <1>. QED
    BY <1>3, <1>8, <1>9, <1>10, ItemsKept

LEMMA MemHeapStarts ==
  ASSUME MemHeapAssumption, MemHeapInit
  PROVE  MemHeapInv
  <1>1. /\ PoolSize \in Nat \ {0} /\ Header \in Nat \ {0} /\ MiniAlloc \in Nat \ {0}
        /\ Tailer \in Nat \ {0} /\ Tailer = PoolSize - Header
        /\ Tailer >= Header + MiniAlloc /\ Tailer < PoolSize
    BY MemHeapConstants
  <1>2. /\ next = [i \in {0, Tailer} |-> Tailer - i] /\ prev = next
        /\ used = [i \in {0, Tailer} |-> i = Tailer] /\ freeItems = <<0>>
        /\ available = PoolSize - 2 * Header /\ maxUsed = 2 * Header
    BY DEF MemHeapInit
  <1>. DEFINE D == {0, Tailer}
  <1>3. /\ DOMAIN used = D /\ used \in [D -> BOOLEAN] /\ used[Tailer] /\ ~used[0]
        /\ next \in [D -> 0 .. Tailer] /\ next[0] = Tailer /\ next[Tailer] = 0
        /\ prev \in [D -> 0 .. Tailer] /\ prev[0] = Tailer /\ prev[Tailer] = 0
    <2>1. \A i \in D : Tailer - i \in 0 .. Tailer
      BY <1>1
    <2>2. /\ DOMAIN used = D /\ used \in [D -> BOOLEAN] /\ next \in [D -> 0 .. Tailer]
          /\ \A i \in D : used[i] = (i = Tailer) /\ next[i] = Tailer - i
      BY <1>2, <2>1, Zenon
    <2>3. Tailer - Tailer = 0 /\ Tailer - 0 = Tailer /\ Tailer # 0
      BY <1>1
    <2>. QED
      BY <2>2, <2>3, <1>2
  <1>4. IsRing(next, prev, used)
    BY <1>1, <1>3 DEF IsRing
  <1>5. FreeOnes(used) = {0}
    BY <1>3 DEF FreeOnes
  <1>6. Lists(freeItems, FreeOnes(used))
    <2>1. /\ <<0>> \in Seq({0}) /\ Len(<<0>>) = 1 /\ <<0>>[1] = 0
      OBVIOUS
    <2>2. Lists(<<0>>, {0})
      BY <2>1 DEF Lists
    <2>. QED
      BY <2>2, <1>2, <1>5
  <1>7. ItemsInv(Items)
    <2>1. \A i \in DOMAIN used : used[i] \/ used[next[i]]
      BY <1>3
    <2>. QED
      BY <2>1, <1>4, <1>6 DEF ItemsInv, Items
  <1>8. available = Cardinality(Rooms(next, used))
    <2>1. 0 \in DOMAIN used \ {Tailer}
      BY <1>1, <1>3
    <2>2. ASSUME NEW x \in 0 .. PoolSize
          PROVE  IsRoom(next, used, x) <=> x \in Header .. Tailer - 1
      BY <1>1, <1>3 DEF IsRoom
    <2>3. Rooms(next, used) = Header .. Tailer - 1
      BY <2>2, <1>1 DEF Rooms
    <2>4. Cardinality(Header .. Tailer - 1) = (Tailer - 1) - Header + 1
      <3>1. Header \in Int /\ Tailer - 1 \in Int /\ ~(Header > Tailer - 1)
        BY <1>1
      <3>. QED
        BY <3>1, FS_Interval
    <2>. QED
      BY <2>3, <2>4, <1>1, <1>2
  <1>9. PoolSize - available <= maxUsed /\ maxUsed \in 0 .. PoolSize
    <2>1. 2 * Header + MiniAlloc <= PoolSize
      BY DEF MemHeapAssumption
    <2>. QED
      BY <2>1, <1>1, <1>2
  <1>. QED
    BY <1>7, <1>8, <1>9 DEF MemHeapInv

LEMMA MemHeapStep ==
  ASSUME MemHeapAssumption, MemHeapInv, [MemHeapNext]_memHeapVars
  PROVE  MemHeapInv'
  <1>1. CASE UNCHANGED memHeapVars
    BY <1>1 DEF memHeapVars, MemHeapInv, ItemsInv, Items, IsRing, Lists, FreeOnes, Rooms,
                IsRoom, Tailer
  <1>2. ASSUME NEW wanted \in Wanted, Alloc(wanted) PROVE MemHeapInv'
    BY <1>2, AllocKeeps
  <1>3. ASSUME NEW i \in DOMAIN used, Free(i) PROVE MemHeapInv'
    BY <1>3, FreeKeeps
  <1>4. ASSUME NEW i \in DOMAIN used, NEW newsize \in Wanted, newsize >= MiniAlloc,
               Grow(i, newsize)
        PROVE  MemHeapInv'
    BY <1>4, GrowKeeps
  <1>5. ASSUME NEW i \in DOMAIN used, NEW newsize \in Wanted, newsize >= MiniAlloc,
               Shrink(i, newsize)
        PROVE  MemHeapInv'
    BY <1>5, ShrinkKeeps
  <1>. QED
    BY <1>1, <1>2, <1>3, <1>4, <1>5 DEF MemHeapNext

LEMMA MemHeapImplied ==
  ASSUME MemHeapAssumption, MemHeapInv
  PROVE  MemHeapTypeOK /\ MemHeapRight
  <1>1. /\ IsRing(next, prev, used) /\ Lists(freeItems, FreeOnes(used))
        /\ NoneTouch(Items)
        /\ Items.next = next /\ Items.prev = prev /\ Items.used = used
        /\ available = Cardinality(Rooms(next, used)) /\ available \in 0 .. PoolSize
        /\ PoolSize \in Nat /\ maxUsed \in 0 .. PoolSize /\ PoolSize - available <= maxUsed
    BY ItemsNow
  <1>2. freeItems \in Seq(FreeOnes(used)) /\ FreeOnes(used) \subseteq DOMAIN used
    BY <1>1 DEF Lists, FreeOnes
  <1>3. MemHeapTypeOK
    <2>1. freeItems \in Seq(DOMAIN used)
      BY <1>2, SeqMonotonic
    <2>. QED
      BY <2>1, <1>1 DEF MemHeapTypeOK, IsRing
  <1>4. Ring
    <2>1. /\ {0, Tailer} \subseteq DOMAIN used /\ used[Tailer] /\ next[Tailer] = 0
          /\ prev[0] = Tailer
      BY <1>1 DEF IsRing
    <2>2. ASSUME NEW i \in DOMAIN used
          PROVE  /\ next[i] \in DOMAIN used /\ prev[next[i]] = i
                 /\ i = Tailer \/ (/\ next[i] >= i + Header + MiniAlloc
                                   /\ \A j \in DOMAIN used : j <= i \/ j >= next[i])
      BY <2>1, <1>1, RingFacts
    <2>. QED
      BY <2>1, <2>2 DEF Ring
  <1>5. FreeListed
    <2>1. ASSUME NEW i \in DOMAIN used
          PROVE  Cardinality({h \in DOMAIN freeItems : freeItems[h] = i}) = IF used[i] THEN 0 ELSE 1
      <3>. DEFINE S == {h \in DOMAIN freeItems : freeItems[h] = i}
      <3>1. DOMAIN freeItems = 1 .. Len(freeItems)
            /\ \A h \in 1 .. Len(freeItems) : freeItems[h] \in FreeOnes(used)
        BY <1>2, LenProperties, ElementOfSeq
      <3>2. CASE used[i]
        <4>1. S = {}
          BY <3>1, <3>2 DEF FreeOnes
        <4>. QED
          BY <3>2, <4>1, FS_EmptySet
      <3>3. CASE ~used[i]
        <4>1. i \in FreeOnes(used)
          BY <3>3 DEF FreeOnes
        <4>2. PICK h \in 1 .. Len(freeItems) : freeItems[h] = i
          BY <4>1, <1>1 DEF Lists
        <4>3. S = {h}
          BY <4>2, <3>1, <1>1 DEF Lists
        <4>. QED
          BY <3>3, <4>3, FS_Singleton
      <3>. QED
        BY <3>2, <3>3
    <2>2. \A i \in DOMAIN used : used[i] \/ used[next[i]]
      BY <1>1 DEF NoneTouch
    <2>. QED
      BY <2>1, <2>2 DEF FreeListed
  <1>6. Accounted
    BY <1>1 DEF Accounted, Rooms, IsRoom
  <1>. QED
    BY <1>3, <1>4, <1>5, <1>6 DEF MemHeapRight

\* In every state of a memory heap of RT-Thread the items are a ring in the order of their
\* addresses that fills the pool, the free ones are in the free list once and never touch,
\* and available_size is what they have room for (rt_memheap_alloc, rt_memheap_realloc,
\* rt_memheap_free): MemHeapRight, for every pool, header and smallest item.
THEOREM MemHeapCorrect ==
  ASSUME MemHeapAssumption
  PROVE  MemHeapSpec => [](MemHeapTypeOK /\ MemHeapRight)
  <1>1. MemHeapInit => MemHeapInv
    BY MemHeapStarts
  <1>2. MemHeapInv /\ [MemHeapNext]_memHeapVars => MemHeapInv'
    BY MemHeapStep
  <1>3. MemHeapInv => MemHeapTypeOK /\ MemHeapRight
    BY MemHeapImplied
  <1>. QED
    BY <1>1, <1>2, <1>3, PTL DEF MemHeapSpec
===============================================================================
