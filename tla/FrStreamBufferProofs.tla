------------------------- MODULE FrStreamBufferProofs -------------------------
(***************************************************************************)
(* Theorems about task notifications, for any number of tasks and bits,    *)
(* any messages and any width of the notification value; about the stream  *)
(* and message buffers whose two sides sleep on them, for any length,      *)
(* trigger level and block times, any data and any room for it, whether    *)
(* the writer, the reader or neither is an interrupt handler; and about    *)
(* the system heap of RT-Thread, for any size of the heap and of a header. *)
(***************************************************************************)
EXTENDS FrStreamBuffer, RttMem, SequenceTheorems, FiniteSetTheorems, WellFoundedInduction,
        TLAPS
-----------------------------------------------------------------------------
\* Task notifications.

\* What a task can have been notified of and not been told.
Tellable == [count |-> 0 .. CountMod, bits |-> SUBSET Bits, mail |-> Letters \cup {"zero"}]

\* The invariant behind both properties: the two kinds of wait belong to protocols of
\* their own, and a task whose flag is not "received" was told of everything, except
\* where notifications count and the flag is not looked at.
WaitsApart == \A t \in Tasks : /\ pc[t] = "take" => protocol = "count"
                               /\ pc[t] = "wait" => protocol # "count"
ToldUnlessFlagged ==
  protocol # "count" => \A t \in Tasks : ucNotifyState[t] # "received" => untold[t] = Zero[protocol]
NotifyInv ==
  /\ NotifyTypeOK /\ untold \in [Tasks -> Tellable[protocol]]
  /\ WaitsApart /\ ToldUnlessFlagged /\ NothingUntoldLost /\ NotifiedWake

\* The values of each protocol.
LEMMA ProtocolValues ==
  ASSUME NotifyTypeOK
  PROVE  /\ protocol \in {"count", "bits", "mail"}
         /\ protocol = "count" => /\ Zero[protocol] = 0 /\ Contents[protocol] = 0 .. CountMod - 1
                                  /\ Tellable[protocol] = 0 .. CountMod
         /\ protocol = "bits" => /\ Zero[protocol] = {} /\ Contents[protocol] = SUBSET Bits
                                 /\ Tellable[protocol] = SUBSET Bits
         /\ protocol = "mail" => /\ Zero[protocol] = "zero"
                                 /\ Contents[protocol] = Letters \cup {"zero"}
                                 /\ Tellable[protocol] = Letters \cup {"zero"}
  BY DEF NotifyTypeOK, Protocols, Zero, Contents, Tellable

\* Counting modulo the width of the value.
LEMMA CountFacts ==
  ASSUME CountMod \in Nat \ {0}, NEW n \in 0 .. CountMod
  PROVE  /\ n % CountMod \in 0 .. CountMod - 1
         /\ n < CountMod => n % CountMod = n /\ n + 1 \in 0 .. CountMod
         /\ n = CountMod => n % CountMod = 0
  OBVIOUS

LEMMA NotifyInvInit ==
  ASSUME CountMod \in Nat \ {0}, NotifyInit
  PROVE  NotifyInv
  <1>1. NotifyTypeOK
    BY DEF NotifyInit, NotifyTypeOK, Protocols, Zero, Contents, Waits
  <1>2. untold \in [Tasks -> Tellable[protocol]]
    BY DEF NotifyInit, Protocols, Zero, Tellable
  <1>3. WaitsApart /\ ToldUnlessFlagged /\ NotifiedWake
    BY DEF NotifyInit, WaitsApart, ToldUnlessFlagged, NotifiedWake
  <1>4. 0 % CountMod = 0
    BY CountFacts
  <1>5. NothingUntoldLost
    BY <1>1, <1>4, ProtocolValues DEF NotifyInit, NothingUntoldLost
  <1>. QED
    BY <1>1, <1>2, <1>3, <1>5 DEF NotifyInv

LEMMA TakeKeeps ==
  ASSUME CountMod \in Nat \ {0}, NotifyInv, protocol' = protocol,
         NEW t \in Tasks, NEW clear \in BOOLEAN, NEW wait \in Waits, Take(t, clear, wait)
  PROVE  NotifyInv'
  <1>. USE DEF NotifyInv, Take, Goto, WaitForNotification
  <1>1. NotifyTypeOK' /\ untold' \in [Tasks -> Tellable[protocol]]'
    BY DEF NotifyTypeOK
  <1>2. WaitsApart' /\ ToldUnlessFlagged' /\ NothingUntoldLost'
    BY DEF WaitsApart, ToldUnlessFlagged, NothingUntoldLost, NotifyTypeOK
  <1>3. NotifiedWake'
    <2>1. protocol = "count" /\ Zero[protocol] = 0
      BY ProtocolValues
    <2>2. \A u \in Tasks : untold[u] \in 0 .. CountMod
      BY <2>1, ProtocolValues
    <2>3. ulNotifiedValue[t] = 0 => untold[t] \in {0, CountMod}
      BY <2>1, <2>2, CountFacts DEF NothingUntoldLost
    <2>. QED
      BY <2>1, <2>3 DEF NotifiedWake, NotifyTypeOK
  <1>. QED
    BY <1>1, <1>2, <1>3

LEMMA TakeEndKeeps ==
  ASSUME CountMod \in Nat \ {0}, NotifyInv, protocol' = protocol,
         NEW t \in Tasks, TakeEnd(t)
  PROVE  NotifyInv'
  <1>1. protocol = "count" /\ Zero[protocol] = 0 /\ Zero[protocol]' = 0
    BY ProtocolValues DEF NotifyInv, WaitsApart, TakeEnd
  <1>2. /\ ulNotifiedValue[t] \in 0 .. CountMod - 1 /\ untold[t] \in 0 .. CountMod
        /\ ulNotifiedValue[t] = untold[t] % CountMod
    BY <1>1, ProtocolValues DEF NotifyInv, NotifyTypeOK, NothingUntoldLost
  <1>3. /\ Left(ulNotifiedValue[t], op[t].clear) \in 0 .. CountMod - 1
        /\ untold[t] - Returned(t) \in 0 .. CountMod
        /\ Left(ulNotifiedValue[t], op[t].clear) = (untold[t] - Returned(t)) % CountMod
    <2>1. CASE untold[t] = CountMod
      <3>1. ulNotifiedValue[t] = 0
        BY <1>2, <2>1, CountFacts
      <3>2. Left(ulNotifiedValue[t], op[t].clear) = 0 /\ Returned(t) = 0
        BY <3>1 DEF Left, Returned
      <3>. QED
        BY <1>2, <2>1, <3>1, <3>2
    <2>2. CASE untold[t] # CountMod
      <3>1. ulNotifiedValue[t] = untold[t]
        BY <1>2, <2>2, CountFacts
      <3>2. Left(ulNotifiedValue[t], op[t].clear) = untold[t] - Returned(t)
        BY <1>2, <3>1 DEF Left, Returned
      <3>3. untold[t] - Returned(t) \in 0 .. CountMod /\ untold[t] - Returned(t) < CountMod
        BY <1>2, <2>2, <3>1 DEF Returned
      <3>. QED
        BY <3>2, <3>3, CountFacts
    <2>. QED
      BY <2>1, <2>2
  <1>4. /\ ulNotifiedValue' = [ulNotifiedValue EXCEPT ![t] = Left(ulNotifiedValue[t], op[t].clear)]
        /\ untold' = [untold EXCEPT ![t] = untold[t] - Returned(t)]
    BY DEF TakeEnd
  <1>5. NotifyTypeOK'
    BY <1>1, <1>3, <1>4, ProtocolValues DEF NotifyInv, NotifyTypeOK, TakeEnd, Goto, NotWaiting
  <1>6. untold' \in [Tasks -> Tellable[protocol]]'
    BY <1>1, <1>3, <1>4, ProtocolValues DEF NotifyInv
  <1>7. WaitsApart' /\ ToldUnlessFlagged'
    BY <1>1 DEF NotifyInv, NotifyTypeOK, WaitsApart, ToldUnlessFlagged, TakeEnd, Goto
  <1>8. NothingUntoldLost'
    BY <1>1, <1>3, <1>4 DEF NotifyInv, NotifyTypeOK, NothingUntoldLost
  <1>9. NotifiedWake'
    BY <1>1, <1>4 DEF NotifyInv, NotifyTypeOK, NotifiedWake, TakeEnd, NotWaiting
  <1>. QED
    BY <1>5, <1>6, <1>7, <1>8, <1>9 DEF NotifyInv

LEMMA GiveKeeps ==
  ASSUME CountMod \in Nat \ {0}, NotifyInv, protocol' = protocol,
         NEW t \in Tasks, Give(t)
  PROVE  NotifyInv'
  <1>1. protocol = "count" /\ Zero[protocol] = 0 /\ Zero[protocol]' = 0
    BY ProtocolValues DEF NotifyInv, Give
  <1>2. untold[t] \in 0 .. CountMod /\ untold[t] < CountMod
    BY <1>1, ProtocolValues DEF NotifyInv, Give
  <1>3. ulNotifiedValue[t] = untold[t]
    BY <1>1, <1>2, CountFacts DEF NotifyInv, NothingUntoldLost
  <1>4. untold[t] + 1 \in 0 .. CountMod /\ (untold[t] + 1) % CountMod \in 0 .. CountMod - 1
    BY <1>2, CountFacts
  <1>5. /\ ulNotifiedValue' = [ulNotifiedValue EXCEPT ![t] = (untold[t] + 1) % CountMod]
        /\ untold' = [untold EXCEPT ![t] = untold[t] + 1]
        /\ ucNotifyState' = [ucNotifyState EXCEPT ![t] = "received"]
        /\ blocked' = [blocked EXCEPT ![t] = IF ucNotifyState[t] = "waiting" THEN FALSE
                                                                            ELSE blocked[t]]
        /\ pc' = pc /\ op' = op
    BY <1>3 DEF Give, Notified
  <1>6. NotifyTypeOK'
    BY ZenonT(60), <1>1, <1>4, <1>5, ProtocolValues DEF NotifyInv, NotifyTypeOK
  <1>7. untold' \in [Tasks -> Tellable[protocol]]'
    BY <1>1, <1>4, <1>5, ProtocolValues DEF NotifyInv
  <1>8. WaitsApart' /\ ToldUnlessFlagged'
    BY <1>1, <1>5 DEF NotifyInv, WaitsApart, ToldUnlessFlagged
  <1>9. NothingUntoldLost'
    BY <1>1, <1>5 DEF NotifyInv, NotifyTypeOK, NothingUntoldLost
  <1>10. NotifiedWake'
    BY <1>1, <1>5 DEF NotifyInv, NotifyTypeOK, NotifiedWake
  <1>. QED
    BY <1>6, <1>7, <1>8, <1>9, <1>10 DEF NotifyInv

LEMMA NotifyWaitKeeps ==
  ASSUME NotifyInv, protocol' = protocol, NEW t \in Tasks,
         NEW entry \in SUBSET Bits, NEW wait \in Waits, NotifyWait(t, entry, wait)
  PROVE  NotifyInv'
  <1>1. protocol \in {"bits", "mail"} /\ Zero[protocol]' = Zero[protocol]
    BY DEF NotifyWait
  <1>2. /\ ulNotifiedValue' \in [Tasks -> Contents[protocol]]
        /\ \A u \in Tasks : \/ ulNotifiedValue'[u] = ulNotifiedValue[u]
                            \/ ucNotifyState[u] # "received" /\ protocol = "bits"
    BY <1>1, ProtocolValues DEF NotifyInv, NotifyTypeOK, NotifyWait, ClearsOnEntry
  <1>3. /\ ucNotifyState' \in [Tasks -> {"not_waiting", "waiting", "received"}]
        /\ blocked' \in [Tasks -> BOOLEAN]
        /\ \A u \in Tasks : /\ ucNotifyState'[u] = "received" <=> ucNotifyState[u] = "received"
                            /\ blocked'[u] =>
                                 \/ ucNotifyState'[u] = "waiting" /\ ucNotifyState[u] # "received"
                                 \/ blocked[u] /\ ucNotifyState'[u] = ucNotifyState[u]
    BY DEF NotifyInv, NotifyTypeOK, NotifyWait, WaitForNotification
  <1>4. NotifyTypeOK'
    BY <1>2, <1>3 DEF NotifyInv, NotifyTypeOK, NotifyWait, Goto
  <1>5. untold' \in [Tasks -> Tellable[protocol]]' /\ untold' = untold
    BY DEF NotifyInv, NotifyWait
  <1>6. WaitsApart'
    BY <1>1 DEF NotifyInv, NotifyTypeOK, WaitsApart, NotifyWait, Goto
  <1>7. ToldUnlessFlagged'
    BY <1>1, <1>3, <1>5 DEF NotifyInv, ToldUnlessFlagged
  <1>8. NothingUntoldLost'
    <2>1. CASE protocol = "bits"
      <3>1. \A u \in Tasks : ulNotifiedValue'[u] = ulNotifiedValue[u] \/ untold[u] = {}
        BY <1>2, <2>1, ProtocolValues DEF NotifyInv, ToldUnlessFlagged
      <3>. QED
        BY <1>5, <2>1, <3>1 DEF NotifyInv, NothingUntoldLost
    <2>2. CASE protocol = "mail"
      BY <1>2, <1>5, <2>2 DEF NotifyInv, NothingUntoldLost
    <2>. QED
      BY <1>1, <2>1, <2>2
  <1>9. NotifiedWake'
    BY <1>1, <1>3, <1>5 DEF NotifyInv, ToldUnlessFlagged, NotifiedWake
  <1>. QED
    BY <1>4, <1>5, <1>6, <1>7, <1>8, <1>9 DEF NotifyInv

LEMMA NotifyWaitEndKeeps ==
  ASSUME NotifyInv, protocol' = protocol, NEW t \in Tasks, NEW exit \in SUBSET Bits,
         NotifyWaitEnd(t, exit)
  PROVE  NotifyInv'
  <1>1. protocol \in {"bits", "mail"} /\ Zero[protocol]' = Zero[protocol]
    BY ProtocolValues DEF NotifyInv, WaitsApart, NotifyWaitEnd
  <1>2. /\ untold' \in [Tasks -> Tellable[protocol]] /\ untold'[t] = Zero[protocol]
        /\ \A u \in Tasks \ {t} : untold'[u] = untold[u]
    BY <1>1, ProtocolValues DEF NotifyInv, ToldUnlessFlagged, NotifyWaitEnd
  <1>3. /\ ulNotifiedValue' \in [Tasks -> Contents[protocol]]
        /\ \A u \in Tasks \ {t} : ulNotifiedValue'[u] = ulNotifiedValue[u]
    <2>1. ulNotifiedValue \in [Tasks -> Contents[protocol]]
      BY DEF NotifyInv, NotifyTypeOK
    <2>2. CASE ulNotifiedValue' = ulNotifiedValue
      BY <2>1, <2>2
    <2>3. CASE protocol = "bits" /\ ulNotifiedValue' = [ulNotifiedValue EXCEPT ![t] = @ \ exit]
      <3>1. Contents[protocol] = SUBSET Bits
        BY <2>3, ProtocolValues DEF NotifyInv
      <3>. QED
        BY <2>1, <2>3, <3>1
    <2>. QED
      BY <2>2, <2>3 DEF NotifyWaitEnd
  <1>4. /\ ucNotifyState' = [ucNotifyState EXCEPT ![t] = "not_waiting"]
        /\ blocked' = blocked /\ ~blocked[t] /\ op' = op /\ pc' = [pc EXCEPT ![t] = "idle"]
    BY DEF NotifyWaitEnd, NotWaiting, Goto
  <1>5. NotifyTypeOK'
    BY <1>3, <1>4 DEF NotifyInv, NotifyTypeOK
  <1>6. WaitsApart' /\ ToldUnlessFlagged'
    BY <1>1, <1>2, <1>4 DEF NotifyInv, NotifyTypeOK, WaitsApart, ToldUnlessFlagged
  <1>7. NothingUntoldLost'
    BY <1>1, <1>2, <1>3, ProtocolValues DEF NotifyInv, NothingUntoldLost
  <1>8. NotifiedWake'
    BY <1>1, <1>2, <1>4 DEF NotifyInv, NotifyTypeOK, NotifiedWake
  <1>9. untold' \in [Tasks -> Tellable[protocol]]'
    BY <1>2
  <1>. QED
    BY <1>5, <1>6, <1>7, <1>8, <1>9 DEF NotifyInv

\* A notification with contents leaves its task flagged and awake.
LEMMA NotifiedKeeps ==
  ASSUME NotifyInv, protocol' = protocol, NEW t \in Tasks, Notified(t),
         protocol \in {"bits", "mail"}, pc' = pc, op' = op,
         ulNotifiedValue' \in [Tasks -> Contents[protocol]],
         untold' \in [Tasks -> Tellable[protocol]],
         \A u \in Tasks \ {t} : ulNotifiedValue'[u] = ulNotifiedValue[u] /\ untold'[u] = untold[u],
         NothingUntoldLost'
  PROVE  NotifyInv'
  <1>1. Zero[protocol]' = Zero[protocol]
    OBVIOUS
  <1>2. /\ ucNotifyState' = [ucNotifyState EXCEPT ![t] = "received"]
        /\ blocked' = [blocked EXCEPT ![t] = IF ucNotifyState[t] = "waiting" THEN FALSE
                                                                            ELSE blocked[t]]
    BY DEF Notified
  <1>3. NotifyTypeOK'
    BY <1>2 DEF NotifyInv, NotifyTypeOK
  <1>4. WaitsApart' /\ ToldUnlessFlagged'
    BY <1>1, <1>2 DEF NotifyInv, NotifyTypeOK, WaitsApart, ToldUnlessFlagged
  <1>5. NotifiedWake'
    BY <1>1, <1>2 DEF NotifyInv, NotifyTypeOK, NotifiedWake
  <1>6. untold' \in [Tasks -> Tellable[protocol]]'
    OBVIOUS
  <1>. QED
    BY <1>3, <1>4, <1>5, <1>6 DEF NotifyInv

LEMMA SetBitsKeeps ==
  ASSUME NotifyInv, protocol' = protocol, NEW t \in Tasks, NEW bits \in SUBSET Bits,
         SetBits(t, bits)
  PROVE  NotifyInv'
  <1>1. protocol = "bits" /\ Notified(t) /\ pc' = pc /\ op' = op
    BY DEF SetBits
  <1>2. /\ ulNotifiedValue' = [ulNotifiedValue EXCEPT ![t] = ulNotifiedValue[t] \cup bits]
        /\ untold' = [untold EXCEPT ![t] = untold[t] \cup bits]
    BY DEF SetBits
  <1>3. /\ ulNotifiedValue \in [Tasks -> SUBSET Bits] /\ untold \in [Tasks -> SUBSET Bits]
        /\ Contents[protocol] = SUBSET Bits /\ Tellable[protocol] = SUBSET Bits
    BY <1>1, ProtocolValues DEF NotifyInv, NotifyTypeOK
  <1>4. /\ ulNotifiedValue' \in [Tasks -> SUBSET Bits] /\ untold' \in [Tasks -> SUBSET Bits]
        /\ \A u \in Tasks \ {t} : ulNotifiedValue'[u] = ulNotifiedValue[u] /\ untold'[u] = untold[u]
    BY <1>2, <1>3
  <1>5. NothingUntoldLost'
    BY <1>1, <1>2, <1>3 DEF NotifyInv, NothingUntoldLost
  <1>. QED
    BY <1>1, <1>3, <1>4, <1>5, NotifiedKeeps

LEMMA PostKeeps ==
  ASSUME NotifyInv, protocol' = protocol, NEW t \in Tasks, NEW x \in Letters,
         NEW overwrite \in BOOLEAN, Post(t, x, overwrite)
  PROVE  NotifyInv'
  <1>1. protocol = "mail" /\ Notified(t) /\ pc' = pc /\ op' = op
    BY DEF Post
  <1>2. \/ /\ ulNotifiedValue' = [ulNotifiedValue EXCEPT ![t] = x]
           /\ untold' = [untold EXCEPT ![t] = x]
        \/ ulNotifiedValue' = ulNotifiedValue /\ untold' = untold
    BY DEF Post
  <1>3. /\ ulNotifiedValue \in [Tasks -> Letters \cup {"zero"}]
        /\ untold \in [Tasks -> Letters \cup {"zero"}]
        /\ Contents[protocol] = Letters \cup {"zero"} /\ Tellable[protocol] = Letters \cup {"zero"}
    BY <1>1, ProtocolValues DEF NotifyInv, NotifyTypeOK
  <1>4. /\ ulNotifiedValue' \in [Tasks -> Letters \cup {"zero"}]
        /\ untold' \in [Tasks -> Letters \cup {"zero"}]
        /\ \A u \in Tasks \ {t} : ulNotifiedValue'[u] = ulNotifiedValue[u] /\ untold'[u] = untold[u]
    BY <1>2, <1>3
  <1>5. NothingUntoldLost'
    BY <1>1, <1>2, <1>3 DEF NotifyInv, NothingUntoldLost
  <1>. QED
    BY <1>1, <1>3, <1>4, <1>5, NotifiedKeeps

LEMMA StateClearKeeps ==
  ASSUME NotifyInv, protocol' = protocol, NEW t \in Tasks, StateClear(t)
  PROVE  NotifyInv'
  <1>1. /\ protocol \in {"bits", "mail"} /\ Zero[protocol]' = Zero[protocol]
        /\ ucNotifyState' = [ucNotifyState EXCEPT ![t] =
                               IF ucNotifyState[t] = "received" THEN "not_waiting"
                                                                ELSE ucNotifyState[t]]
        /\ untold' = [untold EXCEPT ![t] = Zero[protocol]]
        /\ UNCHANGED <<blocked, ulNotifiedValue, pc, op>>
    BY DEF StateClear, StateCleared
  <1>2. untold' \in [Tasks -> Tellable[protocol]]'
    BY <1>1, ProtocolValues DEF NotifyInv
  <1>3. NotifyTypeOK' /\ WaitsApart' /\ ToldUnlessFlagged'
    BY <1>1 DEF NotifyInv, NotifyTypeOK, WaitsApart, ToldUnlessFlagged
  <1>4. NothingUntoldLost'
    BY <1>1, ProtocolValues DEF NotifyInv, NothingUntoldLost
  <1>5. NotifiedWake'
    BY <1>1 DEF NotifyInv, NotifyTypeOK, NotifiedWake
  <1>. QED
    BY <1>2, <1>3, <1>4, <1>5 DEF NotifyInv

LEMMA ValueClearKeeps ==
  ASSUME NotifyInv, protocol' = protocol, NEW t \in Tasks, NEW bits \in SUBSET Bits,
         ValueClear(t, bits)
  PROVE  NotifyInv'
  <1>1. /\ protocol = "bits" /\ Zero[protocol] = {} /\ Zero[protocol]' = {}
        /\ ulNotifiedValue' = [ulNotifiedValue EXCEPT ![t] = ulNotifiedValue[t] \ bits]
        /\ untold' = [untold EXCEPT ![t] = untold[t] \ bits]
        /\ UNCHANGED <<ucNotifyState, blocked, pc, op>>
    BY ProtocolValues DEF NotifyInv, ValueClear
  <1>2. /\ ulNotifiedValue \in [Tasks -> SUBSET Bits] /\ untold \in [Tasks -> SUBSET Bits]
        /\ Contents[protocol] = SUBSET Bits /\ Tellable[protocol] = SUBSET Bits
    BY <1>1, ProtocolValues DEF NotifyInv, NotifyTypeOK
  <1>3. NotifyTypeOK' /\ untold' \in [Tasks -> Tellable[protocol]]' /\ WaitsApart'
    BY <1>1, <1>2 DEF NotifyInv, NotifyTypeOK, WaitsApart
  <1>4. ToldUnlessFlagged' /\ NothingUntoldLost'
    BY <1>1, <1>2 DEF NotifyInv, ToldUnlessFlagged, NothingUntoldLost
  <1>5. NotifiedWake'
    <2>1. \A u \in Tasks : blocked[u] => untold[u] = {}
      BY <1>1 DEF NotifyInv, ToldUnlessFlagged, NotifiedWake
    <2>. QED
      BY <1>1, <1>2, <2>1 DEF NotifyInv, NotifiedWake
  <1>. QED
    BY <1>3, <1>4, <1>5 DEF NotifyInv

LEMMA TimeOutKeeps ==
  ASSUME NotifyInv, protocol' = protocol, NEW t \in Tasks, TimeOut(t)
  PROVE  NotifyInv'
  <1>1. /\ blocked' = [blocked EXCEPT ![t] = FALSE]
        /\ UNCHANGED <<ucNotifyState, ulNotifiedValue, pc, op, untold>>
    BY DEF TimeOut
  <1>2. NotifyTypeOK' /\ untold' \in [Tasks -> Tellable[protocol]]' /\ WaitsApart'
    BY <1>1 DEF NotifyInv, NotifyTypeOK, WaitsApart
  <1>3. ToldUnlessFlagged' /\ NothingUntoldLost' /\ NotifiedWake'
    BY <1>1 DEF NotifyInv, NotifyTypeOK, ToldUnlessFlagged, NothingUntoldLost, NotifiedWake
  <1>. QED
    BY <1>2, <1>3 DEF NotifyInv

LEMMA NotifyInvStep ==
  ASSUME CountMod \in Nat \ {0}, NotifyInv,
         [NotifyNext]_<<protocol, notifyVars, pc, op, untold>>
  PROVE  NotifyInv'
  <1>1. CASE UNCHANGED <<protocol, notifyVars, pc, op, untold>>
    BY <1>1 DEF notifyVars, NotifyInv, NotifyTypeOK, WaitsApart, ToldUnlessFlagged,
                NothingUntoldLost, NotifiedWake
  <1>2. CASE NotifyNext
    <2>1. PICK t \in Tasks :
            \/ TakeEnd(t) \/ Give(t) \/ StateClear(t) \/ TimeOut(t)
            \/ \E wait \in Waits : \/ \E clear \in BOOLEAN : Take(t, clear, wait)
                                   \/ \E entry \in SUBSET Bits : NotifyWait(t, entry, wait)
            \/ \E bits \in SUBSET Bits : \/ NotifyWaitEnd(t, bits) \/ SetBits(t, bits)
                                         \/ ValueClear(t, bits)
            \/ \E x \in Letters, overwrite \in BOOLEAN : Post(t, x, overwrite)
      BY <1>2 DEF NotifyNext
    <2>2. protocol' = protocol
      BY <1>2 DEF NotifyNext
    <2>. QED
      BY <2>1, <2>2, TakeKeeps, TakeEndKeeps, GiveKeeps, NotifyWaitKeeps, NotifyWaitEndKeeps,
         SetBitsKeeps, PostKeeps, StateClearKeeps, ValueClearKeeps, TimeOutKeeps
  <1>. QED
    BY <1>1, <1>2

\* No notification is lost or slept through, whatever falls between the two critical
\* sections of a wait and its time-out (tasks.c ulTaskNotifyTake, xTaskNotifyWait,
\* xTaskNotify).
THEOREM NotificationsCorrect ==
  ASSUME CountMod \in Nat \ {0}
  PROVE  NotifySpec => []NotificationsArrive
  <1>1. NotifyInit => NotifyInv
    BY NotifyInvInit
  <1>2. NotifyInv /\ [NotifyNext]_<<protocol, notifyVars, pc, op, untold>> => NotifyInv'
    BY NotifyInvStep
  <1>3. NotifyInv => NotificationsArrive
    BY DEF NotifyInv, NotificationsArrive
  <1>. QED
    BY <1>1, <1>2, <1>3, PTL DEF NotifySpec

\* The flag, the word and the calls keep their values.
THEOREM NotifyTypesCorrect ==
  ASSUME CountMod \in Nat \ {0}
  PROVE  NotifySpec => []NotifyTypeOK
  <1>1. NotifyInit => NotifyInv
    BY NotifyInvInit
  <1>2. NotifyInv /\ [NotifyNext]_<<protocol, notifyVars, pc, op, untold>> => NotifyInv'
    BY NotifyInvStep
  <1>3. NotifyInv => NotifyTypeOK
    BY DEF NotifyInv
  <1>. QED
    BY <1>1, <1>2, <1>3, PTL DEF NotifySpec
-----------------------------------------------------------------------------
\* Stream and message buffers.

\* Two tasks share a buffer; a byte is a number, and the length of a message takes the
\* place of one.  xStreamBufferGenericCreate() makes the trigger level 1 at least, and
\* one byte of the ring is never used.
StreamAssumption ==
  /\ Writer \in Tasks /\ Reader \in Tasks /\ Writer # Reader /\ NoTask \notin Tasks
  /\ Header = 1
  /\ Sent \subseteq Seq(Nat) /\ Rooms \subseteq Nat
  /\ \A u \in Uses : /\ u.length \in Nat /\ u.length > 1
                     /\ u.trigger \in Nat /\ u.trigger > 0
                     /\ u.message \in BOOLEAN

\* What a side is in a call for, and what is in the ring.
Calls == [data : Sent \cup Rooms \cup {<<>>}, wait : Waits, expired : BOOLEAN]
DataRight ==
  /\ op \in [Tasks -> Calls]
  /\ pc[Writer] # "idle" => op[Writer].data \in Sent
  /\ pc[Reader] # "idle" => op[Reader].data \in Rooms
  /\ \A t \in {Writer, Reader} : use.isr = t => pc[t] = "idle"
  /\ pucBuffer \in [Slots -> Nat]
  /\ received \in Seq(Nat)

\* The byte at offset i from the beginning of what is in the buffer.
ByteAt(i) == pucBuffer[Wrapped(xTail + i)]

\* ends: offsets at which a message ends, and the next begins.
Divides(ends) ==
  /\ ends \subseteq 0 .. BytesInBuffer /\ 0 \in ends /\ BytesInBuffer \in ends
  /\ \A i \in ends : i # BytesInBuffer => ByteAt(i) > 0 /\ i + 1 + ByteAt(i) \in ends
WholeMessages == use.message => \E ends \in SUBSET (0 .. BytesInBuffer) : Divides(ends)

\* What a side found remains true while the other side goes on: there is at least that
\* much, and a reader that found a message found the whole of it.
FoundRight ==
  /\ pc[Writer] \in {"wait", "asleep", "awake", "check", "write"} =>
       told[Writer] <= SpacesAvailable
  /\ pc[Reader] = "read" => /\ told[Reader] <= BytesInBuffer
                            /\ use.message /\ told[Reader] > 0 => told[Reader] > ByteAt(0)

\* Who sleeps waits to be notified, and who sleeps or is about to has left its handle.
HandlesLeft ==
  /\ \A t \in Tasks : blocked[t] => pc[t] = "asleep" /\ ucNotifyState[t] = "waiting"
  /\ FallsAsleep(Writer) => xTaskWaitingToSend = Writer
  /\ FallsAsleep(Reader) => xTaskWaitingToReceive = Reader

StreamInv ==
  StreamTypeOK /\ DataRight /\ WholeMessages /\ FoundRight /\ HandlesLeft /\ SleepersWoken
-----------------------------------------------------------------------------
\* The ring.

RingTypeOK == /\ use \in Uses /\ xHead \in Slots /\ xTail \in Slots
              /\ pucBuffer \in [Slots -> Nat]

LEMMA UseFacts ==
  ASSUME StreamAssumption, use \in Uses
  PROVE  /\ xLength \in Nat /\ xLength > 1
         /\ use.trigger \in Nat /\ use.trigger > 0
         /\ use.message \in BOOLEAN
         /\ Header = 1
         /\ HeaderLength = IF use.message THEN 1 ELSE 0
  BY DEF StreamAssumption, xLength, HeaderLength

\* The bytes in the buffer and the free ones fill all of the ring but one, and the
\* bytes end where the next is written.
LEMMA RingFacts ==
  ASSUME StreamAssumption, RingTypeOK
  PROVE  /\ BytesInBuffer \in 0 .. xLength - 1
         /\ SpacesAvailable = xLength - 1 - BytesInBuffer
         /\ SpacesAvailable \in 0 .. xLength - 1
         /\ \A i \in Nat : i < 2 * xLength => Wrapped(i) \in Slots
         /\ xHead = Wrapped(xTail + BytesInBuffer)
  <1>1. xLength \in Nat /\ xLength > 1
    BY UseFacts DEF RingTypeOK
  <1>. QED
    BY <1>1 DEF RingTypeOK, Slots, BytesInBuffer, SpacesAvailable, Wrapped

\* What stays when the ring does.
LEMMA RingUnchanged ==
  ASSUME use' = use, UNCHANGED ringVars
  PROVE  /\ xLength' = xLength /\ Slots' = Slots
         /\ BytesInBuffer' = BytesInBuffer /\ SpacesAvailable' = SpacesAvailable
         /\ ByteAt(0)' = ByteAt(0) /\ Contained' = Contained
         /\ WholeMessages' = WholeMessages
  BY DEF ringVars, xLength, Slots, BytesInBuffer, SpacesAvailable, ByteAt, Contained, BytesFrom,
         WholeMessages, Divides, Wrapped

\* xHead goes on by k.
LEMMA Appended ==
  ASSUME StreamAssumption, RingTypeOK, use' = use, NEW k \in 0 .. SpacesAvailable,
         xHead' = Wrapped(xHead + k), xTail' = xTail
  PROVE  /\ xLength' = xLength /\ Slots' = Slots /\ xHead' \in Slots
         /\ BytesInBuffer' = BytesInBuffer + k
         /\ SpacesAvailable' = SpacesAvailable - k
  <1>1. xLength \in Nat /\ xLength > 1 /\ xLength' = xLength
    BY UseFacts DEF RingTypeOK, xLength
  <1>2. BytesInBuffer \in 0 .. xLength - 1 /\ SpacesAvailable = xLength - 1 - BytesInBuffer
    BY RingFacts
  <1>. QED
    BY <1>1, <1>2 DEF RingTypeOK, Slots, BytesInBuffer, SpacesAvailable, Wrapped

\* xTail goes on by k.
LEMMA Removed ==
  ASSUME StreamAssumption, RingTypeOK, use' = use, NEW k \in 0 .. BytesInBuffer,
         xTail' = Wrapped(xTail + k), xHead' = xHead
  PROVE  /\ xLength' = xLength /\ Slots' = Slots /\ xTail' \in Slots
         /\ BytesInBuffer' = BytesInBuffer - k
         /\ SpacesAvailable' = SpacesAvailable + k
  <1>1. xLength \in Nat /\ xLength > 1 /\ xLength' = xLength
    BY UseFacts DEF RingTypeOK, xLength
  <1>2. BytesInBuffer \in 0 .. xLength - 1 /\ SpacesAvailable = xLength - 1 - BytesInBuffer
    BY RingFacts
  <1>. QED
    BY <1>1, <1>2 DEF RingTypeOK, Slots, BytesInBuffer, SpacesAvailable, Wrapped

\* prvWriteBytesToBuffer() keeps what is in the buffer and puts the bytes behind it.
LEMMA WrittenBytes ==
  ASSUME StreamAssumption, RingTypeOK, use' = use, NEW bytes \in Seq(Nat),
         Len(bytes) <= SpacesAvailable, WriteBytes(bytes), NEW b, b = BytesInBuffer
  PROVE  /\ pucBuffer' \in [Slots -> Nat]
         /\ \A i \in 0 .. b - 1 : ByteAt(i)' = ByteAt(i)
         /\ \A i \in 1 .. Len(bytes) : ByteAt(b + (i - 1))' = bytes[i]
  <1>1. xLength \in Nat /\ xLength > 1 /\ xLength' = xLength /\ Slots' = Slots
    BY UseFacts DEF RingTypeOK, xLength, Slots
  <1>2. b \in 0 .. xLength - 1 /\ Len(bytes) \in 0 .. xLength - 1 - b
    BY RingFacts
  <1>3. xHead \in 0 .. xLength - 1 /\ xTail \in 0 .. xLength - 1
    BY DEF RingTypeOK, Slots
  <1>w. \A i \in Int : Wrapped(i) = IF i >= xLength THEN i - xLength ELSE i
    BY DEF Wrapped
  <1>wn. \A i \in Int : Wrapped(i)' = IF i >= xLength THEN i - xLength ELSE i
    BY <1>1 DEF Wrapped
  <1>h. xHead = IF xTail + b >= xLength THEN xTail + b - xLength ELSE xTail + b
    BY <1>1, <1>2, <1>3, RingFacts, <1>w
  <1>. DEFINE Place(i) == Wrapped(xHead + i - 1)
              Hit(s) == \E i \in 1 .. Len(bytes) : s = Place(i)
              Which(s) == CHOOSE i \in 1 .. Len(bytes) : s = Place(i)
  <1>4. pucBuffer' = [s \in Slots |-> IF Hit(s) THEN bytes[Which(s)] ELSE pucBuffer[s]]
    BY DEF WriteBytes
  <1>5. \A i, j \in 1 .. Len(bytes) : Place(i) = Place(j) => i = j
    BY <1>1, <1>2, <1>3, <1>w
  <1>6. \A s \in Slots : Hit(s) => Which(s) \in 1 .. Len(bytes) /\ s = Place(Which(s))
    OBVIOUS
  <1>7. pucBuffer' \in [Slots -> Nat]
    <2>1. \A i \in 1 .. Len(bytes) : bytes[i] \in Nat
      OBVIOUS
    <2>2. \A s \in Slots : pucBuffer[s] \in Nat
      BY DEF RingTypeOK
    <2>. HIDE DEF Hit, Which
    <2>. QED
      BY <1>4, <1>6, <2>1, <2>2
  <1>8. ASSUME NEW i \in 0 .. b - 1
        PROVE  ByteAt(i)' = ByteAt(i)
    <2>1. i \in Int /\ xTail + i \in Int
      BY <1>2, <1>3
    <2>2. Wrapped(xTail + i) \in Slots
      BY <1>1, <1>2, <1>3, <1>w DEF Slots
    <2>3. ~Hit(Wrapped(xTail + i))
      BY <1>1, <1>2, <1>3, <1>w, <1>h
    <2>4. pucBuffer'[Wrapped(xTail + i)] = pucBuffer[Wrapped(xTail + i)]
      <3>. HIDE DEF Hit, Which
      <3>. QED
        BY <1>4, <2>2, <2>3
    <2>5. ByteAt(i)' = pucBuffer'[Wrapped(xTail + i)]
      BY <1>1 DEF ByteAt, Wrapped, WriteBytes
    <2>. QED
      BY <2>4, <2>5 DEF ByteAt
  <1>9. ASSUME NEW i \in 1 .. Len(bytes)
        PROVE  ByteAt(b + (i - 1))' = bytes[i]
    <2>1. Place(i) \in Slots
      BY <1>1, <1>2, <1>3, <1>w DEF Slots
    <2>2. Hit(Place(i)) /\ Which(Place(i)) = i
      BY <1>5, <1>6, <2>1
    <2>3. pucBuffer'[Place(i)] = bytes[i]
      <3>. HIDE DEF Hit, Which, Place
      <3>. QED
        BY <1>4, <2>1, <2>2
    <2>4. Place(i) = Wrapped(xTail + (b + (i - 1)))
      BY <1>1, <1>2, <1>3, <1>w, <1>h
    <2>5. ByteAt(b + (i - 1))' = pucBuffer'[Wrapped(xTail + (b + (i - 1)))]
      BY <1>1 DEF ByteAt, Wrapped, WriteBytes
    <2>. QED
      BY <2>3, <2>4, <2>5
  <1>. QED
    BY <1>7, <1>8, <1>9-----------------------------------------------------------------------------
\* What is in the buffer.

LEMMA ContainedFacts ==
  ASSUME StreamAssumption, RingTypeOK
  PROVE  /\ Contained \in Seq(Nat) /\ Len(Contained) = BytesInBuffer
         /\ \A i \in 1 .. BytesInBuffer : Contained[i] = ByteAt(i - 1)
         /\ \A i \in 0 .. xLength - 1 : ByteAt(i) \in Nat
  <1>1. xLength \in Nat /\ xLength > 1 /\ BytesInBuffer \in 0 .. xLength - 1
    BY UseFacts, RingFacts DEF RingTypeOK
  <1>2. ASSUME NEW i \in 0 .. xLength - 1
        PROVE  ByteAt(i) \in Nat
    <2>1. xTail + i \in Nat /\ xTail + i < 2 * xLength
      BY <1>1 DEF RingTypeOK, Slots
    <2>2. Wrapped(xTail + i) \in Slots
      BY <2>1, RingFacts
    <2>. QED
      BY <2>2 DEF ByteAt, RingTypeOK
  <1>3. \A i \in 1 .. BytesInBuffer : xTail + i - 1 = xTail + (i - 1)
    BY <1>1 DEF RingTypeOK, Slots
  <1>4. Contained = [i \in 1 .. BytesInBuffer |-> ByteAt(i - 1)]
    BY <1>3 DEF Contained, BytesFrom, ByteAt
  <1>5. \A i \in 1 .. BytesInBuffer : ByteAt(i - 1) \in Nat
    BY <1>1, <1>2
  <1>. HIDE DEF Contained
  <1>. QED
    BY <1>1, <1>2, <1>4, <1>5

LEMMA ContainedFactsNext ==
  ASSUME StreamAssumption, RingTypeOK'
  PROVE  /\ Contained' \in Seq(Nat) /\ Len(Contained') = BytesInBuffer'
         /\ \A i \in 1 .. BytesInBuffer' : Contained'[i] = ByteAt(i - 1)'
         /\ \A i \in 0 .. xLength' - 1 : ByteAt(i)' \in Nat
  <1>0. PICK L : L = use'.length
    OBVIOUS
  <1>1. L \in Nat /\ L > 1
    BY <1>0 DEF StreamAssumption, RingTypeOK
  <1>2. /\ xHead' \in 0 .. L - 1 /\ xTail' \in 0 .. L - 1 /\ pucBuffer' \in [0 .. L - 1 -> Nat]
    BY <1>0 DEF RingTypeOK, Slots, xLength
  <1>t. PICK tail : tail = xTail'
    OBVIOUS
  <1>b. PICK b : b = BytesInBuffer'
    OBVIOUS
  <1>3. b \in 0 .. L - 1
    BY <1>0, <1>1, <1>2, <1>b DEF BytesInBuffer, Wrapped, xLength
  <1>4. ASSUME NEW i \in 0 .. L - 1
        PROVE  ByteAt(i)' \in Nat
    <2>1. tail \in 0 .. L - 1 /\ ByteAt(i)' = pucBuffer'[Wrapped(tail + i)']
      BY <1>2, <1>t DEF ByteAt, Wrapped, xLength
    <2>2. CASE tail + i >= L
      <3>1. Wrapped(tail + i)' = tail + i - L /\ tail + i - L \in 0 .. L - 1
        BY <1>0, <1>1, <2>1, <2>2 DEF Wrapped, xLength
      <3>. QED
        BY <1>2, <2>1, <3>1 DEF Wrapped, xLength
    <2>3. CASE ~(tail + i >= L)
      <3>1. Wrapped(tail + i)' = tail + i /\ tail + i \in 0 .. L - 1
        BY <1>0, <1>1, <2>1, <2>3 DEF Wrapped, xLength
      <3>. QED
        BY <1>2, <2>1, <3>1 DEF Wrapped, xLength
    <2>. QED
      BY <2>2, <2>3
  <1>5. \A i \in 1 .. b : xTail' + i - 1 = xTail' + (i - 1)
    BY <1>1, <1>2, <1>3
  <1>6. Contained' = [i \in 1 .. b |-> ByteAt(i - 1)']
    BY <1>b, <1>5 DEF Contained, BytesFrom, ByteAt
  <1>7. \A i \in 1 .. b : i - 1 \in 0 .. L - 1
    BY <1>1, <1>3
  <1>8. \A i \in 1 .. b : ByteAt(i - 1)' \in Nat
    BY <1>4, <1>7
  <1>9. \A i \in 0 .. xLength' - 1 : ByteAt(i)' \in Nat
    BY <1>0, <1>4 DEF xLength
  <1>. QED
    BY <1>b, <1>3, <1>6, <1>8, <1>9

\* A message that is in the buffer is there as a whole, and is not empty.
LEMMA FirstMessage ==
  ASSUME StreamAssumption, RingTypeOK, WholeMessages, use.message, BytesInBuffer > 0
  PROVE  ByteAt(0) > 0 /\ BytesInBuffer > ByteAt(0)
  <1>1. PICK ends \in SUBSET (0 .. BytesInBuffer) : Divides(ends)
    BY DEF WholeMessages
  <1>2. BytesInBuffer \in Nat /\ ByteAt(0) \in Nat
    BY RingFacts, ContainedFacts, UseFacts DEF RingTypeOK
  <1>3. ByteAt(0) > 0 /\ 0 + 1 + ByteAt(0) \in ends
    BY <1>1, <1>2 DEF Divides
  <1>. QED
    BY <1>2, <1>3

\* prvWriteMessageToBuffer().
LEMMA Written ==
  ASSUME StreamAssumption, RingTypeOK, WholeMessages, use' = use, NEW data \in Seq(Nat),
         NEW space \in 0 .. SpacesAvailable, Write(data, space)
  PROVE  /\ RingTypeOK' /\ WholeMessages'
         /\ BytesInBuffer' >= BytesInBuffer /\ SpacesAvailable' <= SpacesAvailable
         /\ BytesInBuffer > 0 => ByteAt(0)' = ByteAt(0)
         /\ Fitting(data, space) = <<>> => UNCHANGED ringVars
         /\ Fitting(data, space) # <<>> =>
              \E n \in 1 .. Len(data) : /\ use.message => n = Len(data)
                                        /\ Contained' = Contained \o Framed(SubSeq(data, 1, n))
  <1>1. /\ BytesInBuffer \in Nat /\ SpacesAvailable \in Nat /\ use.message \in BOOLEAN
        /\ BytesInBuffer \in 0 .. xLength - 1 /\ xLength \in Nat /\ Header = 1
    BY UseFacts, RingFacts DEF RingTypeOK
  <1>2. CASE Fitting(data, space) = <<>>
    <2>1. UNCHANGED ringVars
      BY <1>2 DEF Write
    <2>2. RingTypeOK'
      BY <2>1, RingUnchanged DEF RingTypeOK, ringVars
    <2>. QED
      BY <1>1, <1>2, <2>1, <2>2, RingUnchanged
  <1>3. CASE Fitting(data, space) # <<>>
    <2>1. PICK n \in 1 .. Len(data) : /\ use.message => n = Len(data) /\ n + 1 <= space
                                      /\ n <= space
                                      /\ Fitting(data, space) = SubSeq(data, 1, n)
      <3>1. CASE use.message
        <4>1. Fitting(data, space) = data /\ Len(data) + 1 <= space /\ Len(data) # 0
          BY <1>1, <1>3, <3>1 DEF Fitting, RequiredSpace
        <4>2. data = SubSeq(data, 1, Len(data)) /\ Len(data) \in 1 .. Len(data)
          BY <4>1
        <4>3. Len(data) <= space
          BY <1>1, <4>1
        <4>. QED
          BY <3>1, <4>1, <4>2, <4>3
      <3>2. CASE ~use.message
        <4>. DEFINE n == Smaller(Len(data), space)
        <4>1. Fitting(data, space) = SubSeq(data, 1, n)
          BY <1>3, <3>2 DEF Fitting
        <4>2. n \in 0 .. Len(data) /\ n <= space
          BY <1>1 DEF Smaller
        <4>3. n # 0
          <5>1. SUFFICES ASSUME n = 0 PROVE FALSE
            OBVIOUS
          <5>2. SubSeq(data, 1, 0) = <<>>
            OBVIOUS
          <5>. QED
            BY <1>3, <4>1, <5>1, <5>2
        <4>. HIDE DEF n
        <4>. QED
          BY <3>2, <4>1, <4>2, <4>3
      <3>. QED
        BY <3>1, <3>2
    <2>. DEFINE part == SubSeq(data, 1, n)
    <2>2. part \in Seq(Nat) /\ Len(part) = n /\ n \in Nat /\ n > 0
      BY <2>1, SubSeqProperties
    <2>. HIDE DEF part
    <2>b. PICK bytes : bytes = Framed(part)
      OBVIOUS
    <2>o. PICK b : b = BytesInBuffer
      OBVIOUS
    <2>3. /\ bytes \in Seq(Nat)
          /\ use.message => Len(bytes) = n + 1 /\ bytes[1] = n
          /\ ~use.message => Len(bytes) = n
      <3>1. CASE use.message
        <4>1. bytes = <<n>> \o part
          BY <2>2, <2>b, <3>1 DEF Framed
        <4>2. <<n>> \in Seq(Nat) /\ Len(<<n>>) = 1 /\ <<n>>[1] = n
          BY <2>2
        <4>3. bytes \in Seq(Nat) /\ Len(bytes) = 1 + n /\ bytes[1] = n
          BY <2>2, <4>1, <4>2, ConcatProperties
        <4>. QED
          BY <2>2, <3>1, <4>3
      <3>2. CASE ~use.message
        BY <2>2, <2>b, <3>2 DEF Framed
      <3>. QED
        BY <3>1, <3>2
    <2>4. WriteBytes(bytes)
      BY <1>3, <2>1, <2>b DEF Write, part
    <2>. DEFINE k == Len(bytes)
    <2>5. k \in 1 .. SpacesAvailable
      BY <1>1, <2>1, <2>2, <2>3
    <2>6. xHead' = Wrapped(xHead + k) /\ xTail' = xTail
      BY <2>4 DEF WriteBytes
    <2>7. /\ xLength' = xLength /\ Slots' = Slots /\ xHead' \in Slots
          /\ BytesInBuffer' = b + k /\ SpacesAvailable' = SpacesAvailable - k
      <3>. HIDE DEF k
      <3>. QED
        BY <1>1, <2>o, <2>5, <2>6, Appended
    <2>8. /\ pucBuffer' \in [Slots -> Nat]
          /\ \A i \in 0 .. b - 1 : ByteAt(i)' = ByteAt(i)
          /\ \A i \in 1 .. k : ByteAt(b + (i - 1))' = bytes[i]
      BY SMTT(30), <1>1, <2>o, <2>3, <2>4, <2>5, WrittenBytes
    <2>9. RingTypeOK'
      BY <2>6, <2>7, <2>8 DEF RingTypeOK
    <2>10. Contained' = Contained \o bytes
      <3>1. /\ Contained \in Seq(Nat) /\ Len(Contained) = b
            /\ \A i \in 1 .. b : Contained[i] = ByteAt(i - 1)
        BY <2>o, ContainedFacts
      <3>2. /\ Contained' \in Seq(Nat) /\ Len(Contained') = b + k
            /\ \A i \in 1 .. b + k : Contained'[i] = ByteAt(i - 1)'
        BY <2>7, <2>9, ContainedFactsNext
      <3>. HIDE DEF k
      <3>3. /\ Contained \o bytes \in Seq(Nat) /\ Len(Contained \o bytes) = b + k
            /\ \A i \in 1 .. b + k : (Contained \o bytes)[i] =
                  IF i <= b THEN Contained[i] ELSE bytes[i - b]
        BY <2>3, <3>1, ConcatProperties DEF k
      <3>4. ASSUME NEW i \in 1 .. b + k
            PROVE  Contained'[i] = (Contained \o bytes)[i]
        <4>0. b \in Nat /\ k \in Nat
          BY <1>1, <2>o, <2>5
        <4>1. CASE i <= b
          <5>1. i - 1 \in 0 .. b - 1 /\ i \in 1 .. b
            BY <4>0, <4>1
          <5>. QED
            BY <2>8, <3>1, <3>2, <3>3, <4>1, <5>1
        <4>2. CASE ~(i <= b)
          <5>1. i - b \in 1 .. k /\ b + ((i - b) - 1) = i - 1
            BY <4>0, <4>2
          <5>2. ByteAt(b + ((i - b) - 1))' = bytes[i - b]
            BY <2>8, <5>1
          <5>. QED
            BY <3>2, <3>3, <4>2, <5>1, <5>2
        <4>. QED
          BY <4>1, <4>2
      <3>. QED
        BY <3>2, <3>3, <3>4, SeqEqual
    <2>11. WholeMessages'
      <3>. SUFFICES ASSUME use'.message
                    PROVE  \E ends \in SUBSET (0 .. BytesInBuffer') : Divides(ends)'
        BY DEF WholeMessages
      <3>1. use.message /\ k = n + 1 /\ bytes[1] = n
        BY <2>3
      <3>2. PICK old \in SUBSET (0 .. b) : Divides(old)
        BY <2>o, <3>1 DEF WholeMessages
      <3>. DEFINE ends == old \cup {b + k}
      <3>3. ends \in SUBSET (0 .. BytesInBuffer') /\ 0 \in ends /\ BytesInBuffer' \in ends
        <4>1. 0 \in old /\ b \in Nat /\ k \in Nat
          BY <1>1, <2>o, <2>3, <2>5, <3>2 DEF Divides
        <4>2. ends \subseteq 0 .. b + k /\ 0 \in ends /\ b + k \in ends
          <5>. HIDE DEF k
          <5>1. b \in 0 .. b + k /\ b + k \in 0 .. b + k /\ 0 .. b \subseteq 0 .. b + k
            BY <4>1
          <5>. QED
            BY <4>1, <5>1
        <4>. QED
          BY <2>7, <2>o, <4>2
      <3>4. ASSUME NEW i \in ends, i # BytesInBuffer'
            PROVE  ByteAt(i)' > 0 /\ i + 1 + ByteAt(i)' \in ends
        <4>1. i \in old /\ i \in 0 .. b
          BY <2>7, <2>o, <3>2, <3>4
        <4>2. CASE i = b
          <5>1. ByteAt(b + (1 - 1))' = n /\ b + (1 - 1) = b
            BY <1>1, <2>o, <2>5, <2>8, <3>1
          <5>. HIDE DEF k
          <5>. QED
            BY <1>1, <2>o, <2>2, <3>1, <4>2, <5>1
        <4>3. CASE i # b
          <5>1. ByteAt(i)' = ByteAt(i)
            BY <1>1, <2>o, <2>8, <4>1, <4>3
          <5>. QED
            BY <2>o, <3>2, <4>1, <4>3, <5>1 DEF Divides
        <4>. QED
          BY <4>2, <4>3
      <3>5. Divides(ends)'
        <4>. HIDE DEF ends
        <4>. QED
          BY <3>3, <3>4 DEF Divides
      <3>. QED
        BY <3>3, <3>5
    <2>12. BytesInBuffer > 0 => ByteAt(0)' = ByteAt(0)
      BY <1>1, <2>o, <2>8
    <2>13. \E m \in 1 .. Len(data) : /\ use.message => m = Len(data)
                                     /\ Contained' = Contained \o Framed(SubSeq(data, 1, m))
      BY <2>1, <2>b, <2>10 DEF part
    <2>14. BytesInBuffer' >= BytesInBuffer /\ SpacesAvailable' <= SpacesAvailable
      BY <1>1, <2>o, <2>5, <2>7
    <2>. QED
      BY <1>3, <2>9, <2>11, <2>12, <2>13, <2>14
  <1>. QED
    BY <1>2, <1>3
\* prvReadMessageFromBuffer(), of what was available a moment ago.
Length(room, available) == IF available > HeaderLength THEN Count(room, available) ELSE 0

LEMMA LengthFacts ==
  ASSUME StreamAssumption, RingTypeOK, NEW room \in Nat, NEW available \in 0 .. BytesInBuffer,
         use.message /\ available > 0 => available > ByteAt(0)
  PROVE  /\ Length(room, available) \in Nat
         /\ Length(room, available) > 0 =>
              /\ HeaderLength + Length(room, available) <= BytesInBuffer
              /\ use.message => Length(room, available) = ByteAt(0)
  <1>1. /\ BytesInBuffer \in Nat /\ Header = 1 /\ use.message \in BOOLEAN
        /\ HeaderLength = IF use.message THEN 1 ELSE 0
    BY UseFacts, RingFacts DEF RingTypeOK
  <1>2. ByteAt(0) = pucBuffer[xTail] /\ ByteAt(0) \in Nat
    BY UseFacts, ContainedFacts DEF RingTypeOK, Slots, ByteAt, Wrapped
  <1>. QED
    BY <1>1, <1>2 DEF Length, Count, NextLength, Smaller

LEMMA Taken ==
  ASSUME StreamAssumption, RingTypeOK, WholeMessages, use' = use, NEW room \in Nat,
         NEW available \in 0 .. BytesInBuffer,
         use.message /\ available > 0 => available > ByteAt(0),
         Read(room, available)
  PROVE  /\ RingTypeOK' /\ WholeMessages' /\ received' \in Seq(Nat)
         /\ BytesInBuffer' <= BytesInBuffer /\ SpacesAvailable' >= SpacesAvailable
         /\ received' = <<>> => UNCHANGED ringVars
         /\ received' # <<>> => Contained = Framed(received') \o Contained'
  <1>1. /\ BytesInBuffer \in 0 .. xLength - 1 /\ SpacesAvailable \in Nat
        /\ use.message \in BOOLEAN /\ xLength \in Nat /\ xLength > 1
        /\ HeaderLength = IF use.message THEN 1 ELSE 0
    BY UseFacts, RingFacts DEF RingTypeOK
  <1>n. PICK n : n = Length(room, available)
    OBVIOUS
  <1>h. PICK h : h = HeaderLength
    OBVIOUS
  <1>b. PICK b : b = BytesInBuffer
    OBVIOUS
  <1>2. /\ n \in Nat /\ b \in Nat /\ b <= xLength - 1
        /\ n > 0 => h + n <= b /\ (use.message => n = ByteAt(0))
    BY <1>1, <1>n, <1>h, <1>b, LengthFacts
  <1>3. /\ received' = [i \in 1 .. n |-> pucBuffer[Wrapped(Wrapped(xTail + h) + i - 1)]]
        /\ xTail' = IF n = 0 THEN xTail ELSE Wrapped(Wrapped(xTail + h) + n)
        /\ UNCHANGED <<pucBuffer, xHead>>
    BY <1>n, <1>h DEF Read, Length, BytesFrom
  <1>4. CASE n = 0
    <2>1. UNCHANGED ringVars /\ received' = <<>>
      BY <1>3, <1>4 DEF ringVars
    <2>2. RingTypeOK'
      BY <2>1, RingUnchanged DEF RingTypeOK, ringVars
    <2>. QED
      BY <1>1, <2>1, <2>2, RingUnchanged
  <1>5. CASE n > 0
    <2>. DEFINE k == h + n
    <2>1. /\ k \in 1 .. b /\ h \in {0, 1} /\ (use.message => h = 1) /\ (~use.message => h = 0)
          /\ xTail \in 0 .. xLength - 1
      BY <1>1, <1>2, <1>5, <1>h DEF RingTypeOK, Slots
    <2>2. /\ Wrapped(Wrapped(xTail + h) + n) = Wrapped(xTail + k)
          /\ \A i \in 1 .. n : Wrapped(Wrapped(xTail + h) + i - 1) = Wrapped(xTail + (h + i - 1))
      BY <1>1, <1>2, <2>1 DEF Wrapped
    <2>3. xTail' = Wrapped(xTail + k) /\ xHead' = xHead
      BY <1>3, <1>5, <2>2
    <2>4. /\ xLength' = xLength /\ Slots' = Slots /\ xTail' \in Slots
          /\ BytesInBuffer' = b - k /\ SpacesAvailable' = SpacesAvailable + k
      <3>. HIDE DEF k
      <3>. QED
        BY <1>b, <2>1, <2>3, Removed
    <2>5. RingTypeOK'
      BY <1>3, <2>4 DEF RingTypeOK
    <2>6. \A i \in 0 .. b - k : i + k \in 0 .. xLength - 1 /\ ByteAt(i)' = ByteAt(i + k)
      <3>. SUFFICES ASSUME NEW i \in 0 .. b - k
                    PROVE  i + k \in 0 .. xLength - 1 /\ ByteAt(i)' = ByteAt(i + k)
        OBVIOUS
      <3>. HIDE DEF k
      <3>1. i \in Nat /\ i + k <= b /\ k \in Nat
        BY <1>2, <2>1
      <3>2. Wrapped(Wrapped(xTail + k) + i) = Wrapped(xTail + (i + k))
        BY <1>1, <1>2, <2>1, <3>1 DEF Wrapped
      <3>3. ByteAt(i)' = pucBuffer[Wrapped(Wrapped(xTail + k) + i)]
        BY <1>3, <2>3, <2>4 DEF ByteAt, Wrapped
      <3>. QED
        BY <1>1, <1>2, <3>1, <3>2, <3>3 DEF ByteAt
    <2>7. received' \in Seq(Nat) /\ Len(received') = n /\ received' # <<>>
          /\ \A i \in 1 .. n : received'[i] = ByteAt(h + i - 1)
      <3>1. \A i \in 1 .. n : h + i - 1 \in 0 .. xLength - 1
        BY <1>1, <1>2, <2>1
      <3>2. received' = [i \in 1 .. n |-> ByteAt(h + i - 1)]
        BY <1>3, <2>2 DEF ByteAt
      <3>3. \A i \in 1 .. n : ByteAt(h + i - 1) \in Nat
        BY <3>1, ContainedFacts
      <3>4. received' \in Seq(Nat) /\ Len(received') = n
        BY <1>2, <3>2, <3>3
      <3>5. received' # <<>>
        BY <1>5, <3>4
      <3>. QED
        BY <3>2, <3>4, <3>5
    <2>8. Contained = Framed(received') \o Contained'
      <3>f. PICK front : front = Framed(received')
        OBVIOUS
      <3>1. /\ front \in Seq(Nat) /\ Len(front) = k
            /\ \A i \in 1 .. k : front[i] = ByteAt(i - 1)
        <4>1. CASE use.message
          <5>1. front = <<n>> \o received' /\ h = 1 /\ n = ByteAt(0)
            BY <1>2, <1>5, <2>1, <2>7, <3>f, <4>1 DEF Framed
          <5>2. <<n>> \in Seq(Nat) /\ Len(<<n>>) = 1 /\ <<n>>[1] = n
            BY <1>2
          <5>3. /\ front \in Seq(Nat) /\ Len(front) = 1 + n
                /\ \A i \in 1 .. 1 + n : front[i] = IF i <= 1 THEN <<n>>[i] ELSE received'[i - 1]
            BY <2>7, <5>1, <5>2, ConcatProperties
          <5>4. ASSUME NEW i \in 1 .. 1 + n
                PROVE  front[i] = ByteAt(i - 1)
            <6>1. CASE i = 1
              BY <5>1, <5>2, <5>3, <6>1
            <6>2. CASE i # 1
              <7>1. ~(i <= 1) /\ i - 1 \in 1 .. n /\ h + (i - 1) - 1 = i - 1
                BY <1>2, <5>1, <6>2
              <7>2. received'[i - 1] = ByteAt(h + (i - 1) - 1)
                BY <2>7, <7>1
              <7>. QED
                BY <5>3, <7>1, <7>2
            <6>. QED
              BY <6>1, <6>2
          <5>. QED
            BY <5>1, <5>3, <5>4
        <4>2. CASE ~use.message
          <5>1. front = received' /\ h = 0 /\ k = n
            BY <1>2, <2>1, <3>f, <4>2 DEF Framed
          <5>2. \A i \in 1 .. n : h + i - 1 = i - 1
            BY <1>2, <5>1
          <5>. QED
            BY <2>7, <5>1, <5>2
        <4>. QED
          BY <4>1, <4>2
      <3>2. /\ Contained \in Seq(Nat) /\ Len(Contained) = b
            /\ \A i \in 1 .. b : Contained[i] = ByteAt(i - 1)
        BY <1>b, ContainedFacts
      <3>r. PICK rest : rest = Contained'
        OBVIOUS
      <3>3. /\ rest \in Seq(Nat) /\ Len(rest) = b - k
            /\ \A i \in 1 .. b - k : rest[i] = ByteAt(i - 1)'
        BY <2>4, <2>5, <3>r, ContainedFactsNext
      <3>. HIDE DEF k
      <3>4. /\ front \o rest \in Seq(Nat) /\ Len(front \o rest) = Len(front) + Len(rest)
            /\ \A i \in 1 .. Len(front) + Len(rest) : (front \o rest)[i] =
                  IF i <= Len(front) THEN front[i] ELSE rest[i - Len(front)]
        BY <3>1, <3>3, ConcatProperties
      <3>5. Len(front) = k /\ Len(front) + Len(rest) = b
        BY <1>2, <2>1, <3>1, <3>3
      <3>6. ASSUME NEW i \in 1 .. b
            PROVE  Contained[i] = (front \o rest)[i]
        <4>1. CASE i <= k
          <5>1. i \in 1 .. k
            BY <2>1, <4>1
          <5>. QED
            BY <3>1, <3>2, <3>4, <3>5, <4>1, <5>1
        <4>2. CASE ~(i <= k)
          <5>1. i - k \in 1 .. b - k /\ (i - k) - 1 \in 0 .. b - k /\ ((i - k) - 1) + k = i - 1
            BY <1>2, <2>1, <4>2
          <5>2. ByteAt((i - k) - 1)' = ByteAt(((i - k) - 1) + k)
            BY <2>6, <5>1
          <5>3. rest[i - k] = ByteAt((i - k) - 1)'
            BY <3>3, <5>1
          <5>. QED
            BY <3>2, <3>4, <3>5, <4>2, <5>1, <5>2, <5>3
        <4>. QED
          BY <4>1, <4>2
      <3>. QED
        BY <3>2, <3>4, <3>5, <3>6, <3>f, <3>r, SeqEqual
    <2>9. WholeMessages'
      <3>. SUFFICES ASSUME use'.message
                    PROVE  \E ends \in SUBSET (0 .. BytesInBuffer') : Divides(ends)'
        BY DEF WholeMessages
      <3>1. use.message /\ k = 0 + 1 + ByteAt(0) /\ 0 # b
        BY <1>2, <1>5, <2>1
      <3>2. PICK old \in SUBSET (0 .. b) : Divides(old)
        BY <1>b, <3>1 DEF WholeMessages
      <3>3. /\ 0 \in old /\ b \in old /\ k \in old
            /\ \A i \in old : i # b => ByteAt(i) > 0 /\ i + 1 + ByteAt(i) \in old
        BY <1>b, <3>1, <3>2 DEF Divides
      <3>r. PICK r : r = k
        OBVIOUS
      <3>. DEFINE ends == {i \in 0 .. b - r : i + r \in old}
      <3>4. ends \in SUBSET (0 .. BytesInBuffer') /\ 0 \in ends /\ BytesInBuffer' \in ends
        BY <1>2, <2>1, <2>4, <3>3, <3>r
      <3>5. ASSUME NEW i \in ends, i # BytesInBuffer'
            PROVE  ByteAt(i)' > 0 /\ i + 1 + ByteAt(i)' \in ends
        <4>1. i \in 0 .. b - r /\ i + r \in old /\ i + r # b /\ r \in 1 .. b
          BY <1>2, <2>1, <2>4, <3>5, <3>r
        <4>2. ByteAt(i)' = ByteAt(i + r) /\ ByteAt(i + r) \in Nat
          BY <2>6, <3>r, <4>1, ContainedFacts
        <4>3. ByteAt(i + r) > 0 /\ (i + r) + 1 + ByteAt(i + r) \in old
          BY <3>3, <4>1
        <4>m. PICK m : m = ByteAt(i + r)
          OBVIOUS
        <4>4. i + 1 + m \in 0 .. b - r /\ (i + 1 + m) + r = (i + r) + 1 + m
          BY <1>2, <3>2, <4>1, <4>2, <4>3, <4>m
        <4>. QED
          BY <4>2, <4>3, <4>4, <4>m
      <3>6. Divides(ends)'
        <4>. HIDE DEF ends
        <4>. QED
          BY <3>4, <3>5 DEF Divides
      <3>. QED
        BY <3>4, <3>6
    <2>10. BytesInBuffer' <= BytesInBuffer /\ SpacesAvailable' >= SpacesAvailable
      BY <1>1, <1>b, <2>1, <2>4
    <2>. QED
      BY <2>5, <2>7, <2>8, <2>9, <2>10
  <1>. QED
    BY <1>2, <1>4, <1>5-----------------------------------------------------------------------------
\* The steps that leave the ring alone.

Idle == UNCHANGED <<use, protocol, ulNotifiedValue, untold>>

LEMMA InvRing ==
  ASSUME StreamInv
  PROVE  RingTypeOK
  BY DEF StreamInv, StreamTypeOK, DataRight, RingTypeOK

LEMMA SidesFacts ==
  ASSUME StreamAssumption, StreamInv
  PROVE  /\ Writer \in Tasks /\ Reader \in Tasks /\ Writer # Reader
         /\ Writer # NoTask /\ Reader # NoTask
         /\ pc[Writer] # "idle" => op[Writer].data \in Seq(Nat)
         /\ pc[Reader] # "idle" => op[Reader].data \in Nat
         /\ pc[Writer] # "idle" => RequiredSpace(op[Writer].data) \in Int
         /\ use.trigger \in Nat /\ use.trigger > 0
  <1>1. use \in Uses /\ xLength \in Nat /\ Header = 1 /\ use.trigger \in Nat /\ use.trigger > 0
    BY UseFacts DEF StreamInv, StreamTypeOK
  <1>2. \A data \in Seq(Nat) : RequiredSpace(data) \in Int
    BY <1>1 DEF RequiredSpace, Smaller
  <1>. QED
    BY <1>1, <1>2 DEF StreamAssumption, StreamInv, DataRight

LEMMA RingStays ==
  ASSUME StreamAssumption, StreamInv, use' = use, UNCHANGED ringVars
  PROVE  /\ use' \in Uses /\ xHead' \in Slots' /\ xTail' \in Slots'
         /\ pucBuffer' \in [Slots' -> Nat] /\ WholeMessages'
         /\ xLength' = xLength
         /\ BytesInBuffer' = BytesInBuffer /\ SpacesAvailable' = SpacesAvailable
         /\ BytesInBuffer \in 0 .. xLength - 1 /\ SpacesAvailable \in 0 .. xLength - 1
         /\ BytesInBuffer + SpacesAvailable = xLength - 1
         /\ xLength \in Nat /\ xLength > 1
         /\ ByteAt(0)' = ByteAt(0)
  <1>1. RingTypeOK /\ xLength \in Nat
    BY InvRing, UseFacts DEF RingTypeOK
  <1>. QED
    BY <1>1, RingUnchanged, RingFacts, UseFacts DEF StreamInv, RingTypeOK, ringVars

LEMMA SendKeeps ==
  ASSUME StreamAssumption, StreamInv, Idle, NEW data \in Sent, NEW wait \in Waits, Send(data, wait)
  PROVE  StreamInv'
  <1>. USE DEF Send, Step, Goto, StateCleared, WaitForNotification, NotWaiting, Notified,
               handleVars, flagVars
  <1>0. use' = use /\ UNCHANGED ringVars
    BY DEF Idle
  <1>1. StreamTypeOK'
    BY <1>0, RingStays, SidesFacts DEF StreamInv, StreamTypeOK, Labels
  <1>2. DataRight'
    BY <1>0, RingStays, SidesFacts DEF StreamInv, StreamTypeOK, DataRight, Calls
  <1>3. FoundRight'
    BY <1>0, RingStays, SidesFacts DEF StreamInv, StreamTypeOK, FoundRight
  <1>4. HandlesLeft'
    BY <1>0, RingStays, SidesFacts DEF StreamInv, StreamTypeOK, HandlesLeft, FallsAsleep
  <1>5. SleepersWoken'
    BY <1>0, RingStays, SidesFacts
       DEF StreamInv, StreamTypeOK, HandlesLeft, SleepersWoken, FallsAsleep
  <1>. QED
    BY <1>0, <1>1, <1>2, <1>3, <1>4, <1>5, RingStays DEF StreamInv

LEMMA LookForSpaceKeeps ==
  ASSUME StreamAssumption, StreamInv, Idle, LookForSpace
  PROVE  StreamInv'
  <1>. USE DEF LookForSpace, Step, Goto, StateCleared, WaitForNotification, NotWaiting, Notified,
               handleVars, flagVars
  <1>0. use' = use /\ UNCHANGED ringVars
    BY DEF Idle
  <1>1. StreamTypeOK'
    BY <1>0, RingStays, SidesFacts DEF StreamInv, StreamTypeOK, Labels
  <1>2. DataRight'
    BY SMTT(30), <1>0, RingStays, SidesFacts DEF StreamInv, StreamTypeOK, DataRight, Calls
  <1>3. FoundRight'
    BY <1>0, RingStays, SidesFacts DEF StreamInv, StreamTypeOK, FoundRight
  <1>4. HandlesLeft'
    BY <1>0, RingStays, SidesFacts DEF StreamInv, StreamTypeOK, HandlesLeft, FallsAsleep
  <1>r. RequiredSpace(op[Writer].data)' = RequiredSpace(op[Writer].data)
    BY <1>0, SidesFacts DEF RequiredSpace, Smaller, xLength, StreamInv, DataRight
  <1>5. SleepersWoken'
    BY SMTT(30), <1>0, <1>r, RingStays, SidesFacts
       DEF StreamInv, StreamTypeOK, HandlesLeft, SleepersWoken, FallsAsleep
  <1>. QED
    BY <1>0, <1>1, <1>2, <1>3, <1>4, <1>5, RingStays DEF StreamInv

LEMMA SleepKeeps ==
  ASSUME StreamAssumption, StreamInv, Idle, NEW t \in Tasks, Sleep(t)
  PROVE  StreamInv'
  <1>. USE DEF Sleep, Step, Goto, StateCleared, WaitForNotification, NotWaiting, Notified,
               handleVars, flagVars
  <1>0. use' = use /\ UNCHANGED ringVars
    BY DEF Idle
  <1>1. StreamTypeOK'
    BY <1>0, RingStays, SidesFacts DEF StreamInv, StreamTypeOK, Labels
  <1>2. DataRight'
    BY <1>0, RingStays, SidesFacts DEF StreamInv, StreamTypeOK, DataRight, Calls
  <1>3. FoundRight'
    BY <1>0, RingStays, SidesFacts DEF StreamInv, StreamTypeOK, FoundRight
  <1>4. HandlesLeft'
    BY <1>0, RingStays, SidesFacts DEF StreamInv, StreamTypeOK, HandlesLeft, FallsAsleep
  <1>r. RequiredSpace(op[Writer].data)' = RequiredSpace(op[Writer].data)
    BY <1>0, SidesFacts DEF RequiredSpace, Smaller, xLength, StreamInv, DataRight
  <1>5. SleepersWoken'
    BY <1>0, <1>r, RingStays, SidesFacts
       DEF StreamInv, StreamTypeOK, HandlesLeft, SleepersWoken, FallsAsleep
  <1>. QED
    BY <1>0, <1>1, <1>2, <1>3, <1>4, <1>5, RingStays DEF StreamInv

LEMMA AwakeKeeps ==
  ASSUME StreamAssumption, StreamInv, Idle, NEW t \in Tasks, Awake(t)
  PROVE  StreamInv'
  <1>. USE DEF Awake, Step, Goto, StateCleared, WaitForNotification, NotWaiting, Notified,
               handleVars, flagVars
  <1>0. use' = use /\ UNCHANGED ringVars
    BY DEF Idle
  <1>1. StreamTypeOK'
    BY <1>0, RingStays, SidesFacts DEF StreamInv, StreamTypeOK, Labels
  <1>2. DataRight'
    BY <1>0, RingStays, SidesFacts DEF StreamInv, StreamTypeOK, DataRight, Calls
  <1>3. FoundRight'
    BY <1>0, RingStays, SidesFacts DEF StreamInv, StreamTypeOK, FoundRight
  <1>4. HandlesLeft'
    BY <1>0, RingStays, SidesFacts DEF StreamInv, StreamTypeOK, HandlesLeft, FallsAsleep
  <1>r. RequiredSpace(op[Writer].data)' = RequiredSpace(op[Writer].data)
    BY <1>0, SidesFacts DEF RequiredSpace, Smaller, xLength, StreamInv, DataRight
  <1>5. SleepersWoken'
    BY <1>0, <1>r, RingStays, SidesFacts
       DEF StreamInv, StreamTypeOK, HandlesLeft, SleepersWoken, FallsAsleep
  <1>. QED
    BY <1>0, <1>1, <1>2, <1>3, <1>4, <1>5, RingStays DEF StreamInv

LEMMA WriterAwakeKeeps ==
  ASSUME StreamAssumption, StreamInv, Idle, WriterAwake
  PROVE  StreamInv'
  <1>. USE DEF WriterAwake, Step, Goto, StateCleared, WaitForNotification, NotWaiting, Notified,
               handleVars, flagVars
  <1>0. use' = use /\ UNCHANGED ringVars
    BY DEF Idle
  <1>1. StreamTypeOK'
    BY <1>0, RingStays, SidesFacts DEF StreamInv, StreamTypeOK, Labels
  <1>2. DataRight'
    BY <1>0, RingStays, SidesFacts DEF StreamInv, StreamTypeOK, DataRight, Calls
  <1>3. FoundRight'
    BY <1>0, RingStays, SidesFacts DEF StreamInv, StreamTypeOK, FoundRight
  <1>4. HandlesLeft'
    BY <1>0, RingStays, SidesFacts DEF StreamInv, StreamTypeOK, HandlesLeft, FallsAsleep
  <1>r. RequiredSpace(op[Writer].data)' = RequiredSpace(op[Writer].data)
    BY <1>0, SidesFacts DEF RequiredSpace, Smaller, xLength, StreamInv, DataRight
  <1>5. SleepersWoken'
    BY <1>0, <1>r, RingStays, SidesFacts
       DEF StreamInv, StreamTypeOK, HandlesLeft, SleepersWoken, FallsAsleep
  <1>. QED
    BY <1>0, <1>1, <1>2, <1>3, <1>4, <1>5, RingStays DEF StreamInv

LEMMA CheckForTimeOutKeeps ==
  ASSUME StreamAssumption, StreamInv, Idle, CheckForTimeOut
  PROVE  StreamInv'
  <1>. USE DEF CheckForTimeOut, Step, Goto, StateCleared, WaitForNotification, NotWaiting, Notified,
               handleVars, flagVars
  <1>0. use' = use /\ UNCHANGED ringVars
    BY DEF Idle
  <1>1. StreamTypeOK'
    BY <1>0, RingStays, SidesFacts DEF StreamInv, StreamTypeOK, Labels
  <1>2. DataRight'
    BY <1>0, RingStays, SidesFacts DEF StreamInv, StreamTypeOK, DataRight, Calls
  <1>3. FoundRight'
    BY <1>0, RingStays, SidesFacts DEF StreamInv, StreamTypeOK, FoundRight
  <1>4. HandlesLeft'
    BY <1>0, RingStays, SidesFacts DEF StreamInv, StreamTypeOK, HandlesLeft, FallsAsleep
  <1>r. RequiredSpace(op[Writer].data)' = RequiredSpace(op[Writer].data)
    BY <1>0, SidesFacts DEF RequiredSpace, Smaller, xLength, StreamInv, DataRight
  <1>5. SleepersWoken'
    BY <1>0, <1>r, RingStays, SidesFacts
       DEF StreamInv, StreamTypeOK, HandlesLeft, SleepersWoken, FallsAsleep
  <1>. QED
    BY <1>0, <1>1, <1>2, <1>3, <1>4, <1>5, RingStays DEF StreamInv

LEMMA RereadKeeps ==
  ASSUME StreamAssumption, StreamInv, Idle, Reread
  PROVE  StreamInv'
  <1>. USE DEF Reread, Step, Goto, StateCleared, WaitForNotification, NotWaiting, Notified,
               handleVars, flagVars
  <1>0. use' = use /\ UNCHANGED ringVars
    BY DEF Idle
  <1>1. StreamTypeOK'
    BY <1>0, RingStays, SidesFacts DEF StreamInv, StreamTypeOK, Labels
  <1>2. DataRight'
    BY <1>0, RingStays, SidesFacts DEF StreamInv, StreamTypeOK, DataRight, Calls
  <1>3. FoundRight'
    BY <1>0, RingStays, SidesFacts DEF StreamInv, StreamTypeOK, FoundRight
  <1>4. HandlesLeft'
    BY <1>0, RingStays, SidesFacts DEF StreamInv, StreamTypeOK, HandlesLeft, FallsAsleep
  <1>r. RequiredSpace(op[Writer].data)' = RequiredSpace(op[Writer].data)
    BY <1>0, SidesFacts DEF RequiredSpace, Smaller, xLength, StreamInv, DataRight
  <1>5. SleepersWoken'
    BY <1>0, <1>r, RingStays, SidesFacts
       DEF StreamInv, StreamTypeOK, HandlesLeft, SleepersWoken, FallsAsleep
  <1>. QED
    BY <1>0, <1>1, <1>2, <1>3, <1>4, <1>5, RingStays DEF StreamInv

LEMMA LookAtTriggerKeeps ==
  ASSUME StreamAssumption, StreamInv, Idle, LookAtTrigger
  PROVE  StreamInv'
  <1>. USE DEF LookAtTrigger, Step, Goto, StateCleared, WaitForNotification, NotWaiting, Notified,
               handleVars, flagVars
  <1>0. use' = use /\ UNCHANGED ringVars
    BY DEF Idle
  <1>1. StreamTypeOK'
    BY <1>0, RingStays, SidesFacts DEF StreamInv, StreamTypeOK, Labels
  <1>2. DataRight'
    BY <1>0, RingStays, SidesFacts DEF StreamInv, StreamTypeOK, DataRight, Calls
  <1>3. FoundRight'
    BY <1>0, RingStays, SidesFacts DEF StreamInv, StreamTypeOK, FoundRight
  <1>4. HandlesLeft'
    BY <1>0, RingStays, SidesFacts DEF StreamInv, StreamTypeOK, HandlesLeft, FallsAsleep
  <1>r. RequiredSpace(op[Writer].data)' = RequiredSpace(op[Writer].data)
    BY <1>0, SidesFacts DEF RequiredSpace, Smaller, xLength, StreamInv, DataRight
  <1>5. SleepersWoken'
    BY <1>0, <1>r, RingStays, SidesFacts
       DEF StreamInv, StreamTypeOK, HandlesLeft, SleepersWoken, FallsAsleep, AtTrigger
  <1>. QED
    BY <1>0, <1>1, <1>2, <1>3, <1>4, <1>5, RingStays DEF StreamInv

LEMMA WakeReaderKeeps ==
  ASSUME StreamAssumption, StreamInv, Idle, WakeReader
  PROVE  StreamInv'
  <1>. USE DEF WakeReader, SendCompleted, Step, Goto, StateCleared,
               WaitForNotification, NotWaiting, Notified,
               handleVars, flagVars
  <1>0. use' = use /\ UNCHANGED ringVars
    BY DEF Idle
  <1>1. StreamTypeOK'
    BY <1>0, RingStays, SidesFacts DEF StreamInv, StreamTypeOK, Labels
  <1>2. DataRight'
    BY <1>0, RingStays, SidesFacts DEF StreamInv, StreamTypeOK, DataRight, Calls
  <1>3. FoundRight'
    BY <1>0, RingStays, SidesFacts DEF StreamInv, StreamTypeOK, FoundRight
  <1>4. HandlesLeft'
    BY <1>0, RingStays, SidesFacts DEF StreamInv, StreamTypeOK, HandlesLeft, FallsAsleep
  <1>r. RequiredSpace(op[Writer].data)' = RequiredSpace(op[Writer].data)
    BY <1>0, SidesFacts DEF RequiredSpace, Smaller, xLength, StreamInv, DataRight
  <1>5. SleepersWoken'
    BY <1>0, <1>r, RingStays, SidesFacts
       DEF StreamInv, StreamTypeOK, HandlesLeft, SleepersWoken, FallsAsleep
  <1>. QED
    BY <1>0, <1>1, <1>2, <1>3, <1>4, <1>5, RingStays DEF StreamInv

LEMMA ReceiveKeeps ==
  ASSUME StreamAssumption, StreamInv, Idle, NEW room \in Rooms,
         NEW wait \in Waits, Receive(room, wait)
  PROVE  StreamInv'
  <1>. USE DEF Receive, Step, Goto, StateCleared, WaitForNotification, NotWaiting, Notified,
               handleVars, flagVars
  <1>0. use' = use /\ UNCHANGED ringVars
    BY DEF Idle
  <1>1. StreamTypeOK'
    BY <1>0, RingStays, SidesFacts DEF StreamInv, StreamTypeOK, Labels
  <1>2. DataRight'
    BY SMTT(30), <1>0, RingStays, SidesFacts DEF StreamInv, StreamTypeOK, DataRight, Calls
  <1>3. FoundRight'
    BY <1>0, FirstMessage, InvRing, RingStays, SidesFacts DEF StreamInv, StreamTypeOK, FoundRight
  <1>4. HandlesLeft'
    BY <1>0, RingStays, SidesFacts DEF StreamInv, StreamTypeOK, HandlesLeft, FallsAsleep
  <1>r. RequiredSpace(op[Writer].data)' = RequiredSpace(op[Writer].data)
    BY <1>0, SidesFacts DEF RequiredSpace, Smaller, xLength, StreamInv, DataRight
  <1>e. BytesInBuffer <= HeaderLength => BytesInBuffer = 0
    BY SMTT(30), <1>0, RingStays, UseFacts, FirstMessage, InvRing, ContainedFacts
       DEF StreamInv, StreamTypeOK
  <1>5. SleepersWoken'
    BY <1>0, <1>r, <1>e, RingStays, SidesFacts
       DEF StreamInv, StreamTypeOK, HandlesLeft, SleepersWoken, FallsAsleep
  <1>. QED
    BY <1>0, <1>1, <1>2, <1>3, <1>4, <1>5, RingStays DEF StreamInv

LEMMA ReaderAwakeKeeps ==
  ASSUME StreamAssumption, StreamInv, Idle, ReaderAwake
  PROVE  StreamInv'
  <1>. USE DEF ReaderAwake, Step, Goto, StateCleared, WaitForNotification, NotWaiting, Notified,
               handleVars, flagVars
  <1>0. use' = use /\ UNCHANGED ringVars
    BY DEF Idle
  <1>1. StreamTypeOK'
    BY <1>0, RingStays, SidesFacts DEF StreamInv, StreamTypeOK, Labels
  <1>2. DataRight'
    BY <1>0, RingStays, SidesFacts DEF StreamInv, StreamTypeOK, DataRight, Calls
  <1>3. FoundRight'
    BY <1>0, RingStays, SidesFacts DEF StreamInv, StreamTypeOK, FoundRight
  <1>4. HandlesLeft'
    BY <1>0, RingStays, SidesFacts DEF StreamInv, StreamTypeOK, HandlesLeft, FallsAsleep
  <1>r. RequiredSpace(op[Writer].data)' = RequiredSpace(op[Writer].data)
    BY <1>0, SidesFacts DEF RequiredSpace, Smaller, xLength, StreamInv, DataRight
  <1>5. SleepersWoken'
    BY <1>0, <1>r, RingStays, SidesFacts
       DEF StreamInv, StreamTypeOK, HandlesLeft, SleepersWoken, FallsAsleep
  <1>. QED
    BY <1>0, <1>1, <1>2, <1>3, <1>4, <1>5, RingStays DEF StreamInv

LEMMA LookForBytesKeeps ==
  ASSUME StreamAssumption, StreamInv, Idle, LookForBytes
  PROVE  StreamInv'
  <1>. USE DEF LookForBytes, Step, Goto, StateCleared, WaitForNotification, NotWaiting, Notified,
               handleVars, flagVars
  <1>0. use' = use /\ UNCHANGED ringVars
    BY DEF Idle
  <1>1. StreamTypeOK'
    BY <1>0, RingStays, SidesFacts DEF StreamInv, StreamTypeOK, Labels
  <1>2. DataRight'
    BY <1>0, RingStays, SidesFacts DEF StreamInv, StreamTypeOK, DataRight, Calls
  <1>3. FoundRight'
    BY SMTT(30), <1>0, FirstMessage, InvRing, RingStays, SidesFacts
       DEF StreamInv, StreamTypeOK, FoundRight
  <1>4. HandlesLeft'
    BY <1>0, RingStays, SidesFacts DEF StreamInv, StreamTypeOK, HandlesLeft, FallsAsleep
  <1>r. RequiredSpace(op[Writer].data)' = RequiredSpace(op[Writer].data)
    BY <1>0, SidesFacts DEF RequiredSpace, Smaller, xLength, StreamInv, DataRight
  <1>5. SleepersWoken'
    BY <1>0, <1>r, RingStays, SidesFacts
       DEF StreamInv, StreamTypeOK, HandlesLeft, SleepersWoken, FallsAsleep
  <1>. QED
    BY <1>0, <1>1, <1>2, <1>3, <1>4, <1>5, RingStays DEF StreamInv

LEMMA WakeWriterKeeps ==
  ASSUME StreamAssumption, StreamInv, Idle, WakeWriter
  PROVE  StreamInv'
  <1>. USE DEF WakeWriter, ReceiveCompleted, Step, Goto, StateCleared,
               WaitForNotification, NotWaiting, Notified,
               handleVars, flagVars
  <1>0. use' = use /\ UNCHANGED ringVars
    BY DEF Idle
  <1>1. StreamTypeOK'
    BY <1>0, RingStays, SidesFacts DEF StreamInv, StreamTypeOK, Labels
  <1>2. DataRight'
    BY <1>0, RingStays, SidesFacts DEF StreamInv, StreamTypeOK, DataRight, Calls
  <1>3. FoundRight'
    BY <1>0, RingStays, SidesFacts DEF StreamInv, StreamTypeOK, FoundRight
  <1>4. HandlesLeft'
    BY <1>0, RingStays, SidesFacts DEF StreamInv, StreamTypeOK, HandlesLeft, FallsAsleep
  <1>r. RequiredSpace(op[Writer].data)' = RequiredSpace(op[Writer].data)
    BY <1>0, SidesFacts DEF RequiredSpace, Smaller, xLength, StreamInv, DataRight
  <1>5. SleepersWoken'
    BY <1>0, <1>r, RingStays, SidesFacts
       DEF StreamInv, StreamTypeOK, HandlesLeft, SleepersWoken, FallsAsleep
  <1>. QED
    BY <1>0, <1>1, <1>2, <1>3, <1>4, <1>5, RingStays DEF StreamInv

LEMMA ExpireKeeps ==
  ASSUME StreamAssumption, StreamInv, Idle, NEW t \in Tasks, Expire(t)
  PROVE  StreamInv'
  <1>. USE DEF Expire, Step, Goto, StateCleared, WaitForNotification, NotWaiting, Notified,
               handleVars, flagVars
  <1>0. use' = use /\ UNCHANGED ringVars
    BY DEF Idle
  <1>1. StreamTypeOK'
    BY <1>0, RingStays, SidesFacts DEF StreamInv, StreamTypeOK, Labels
  <1>2. DataRight'
    BY <1>0, RingStays, SidesFacts DEF StreamInv, StreamTypeOK, DataRight, Calls
  <1>3. FoundRight'
    BY <1>0, RingStays, SidesFacts DEF StreamInv, StreamTypeOK, FoundRight
  <1>4. HandlesLeft'
    BY <1>0, RingStays, SidesFacts DEF StreamInv, StreamTypeOK, HandlesLeft, FallsAsleep
  <1>r. RequiredSpace(op[Writer].data)' = RequiredSpace(op[Writer].data)
    BY <1>0, SidesFacts DEF RequiredSpace, Smaller, xLength, StreamInv, DataRight
  <1>5. SleepersWoken'
    BY <1>0, <1>r, RingStays, SidesFacts
       DEF StreamInv, StreamTypeOK, HandlesLeft, SleepersWoken, FallsAsleep
  <1>. QED
    BY <1>0, <1>1, <1>2, <1>3, <1>4, <1>5, RingStays DEF StreamInv
-----------------------------------------------------------------------------
\* The steps that change it.

\* What follows from the ring's new state, however it came about.
LEMMA RingNext ==
  ASSUME StreamAssumption, StreamInv, Idle, RingTypeOK'
  PROVE  /\ use' = use /\ xLength' = xLength /\ use' \in Uses
         /\ xHead' \in Slots' /\ xTail' \in Slots'
         /\ xLength \in Nat /\ xLength > 1
         /\ BytesInBuffer \in 0 .. xLength - 1 /\ SpacesAvailable \in 0 .. xLength - 1
         /\ BytesInBuffer' \in 0 .. xLength - 1 /\ SpacesAvailable' \in 0 .. xLength - 1
         /\ BytesInBuffer' + SpacesAvailable' = xLength' - 1
         /\ pucBuffer' \in [Slots' -> Nat]
         /\ op' = op => RequiredSpace(op[Writer].data)' = RequiredSpace(op[Writer].data)
  <1>0. use' = use /\ xLength' = xLength /\ Slots' = Slots
    BY DEF Idle, xLength, Slots
  <1>1. xLength \in Nat /\ xLength > 1 /\ RingTypeOK
    BY UseFacts, InvRing DEF RingTypeOK
  <1>2. BytesInBuffer' \in 0 .. xLength - 1 /\ SpacesAvailable' = xLength - 1 - BytesInBuffer'
    <2>0. PICK L : L = use.length
      OBVIOUS
    <2>1. xLength = L /\ L \in Nat /\ L > 1 /\ xHead' \in 0 .. L - 1 /\ xTail' \in 0 .. L - 1
      BY <1>0, <1>1, <2>0 DEF RingTypeOK, Slots, xLength
    <2>. QED
      BY <1>0, <2>0, <2>1 DEF BytesInBuffer, SpacesAvailable, Wrapped, xLength
  <1>3. op' = op => RequiredSpace(op[Writer].data)' = RequiredSpace(op[Writer].data)
    BY <1>0 DEF RequiredSpace, Smaller
  <1>4. /\ use' \in Uses /\ xHead' \in Slots' /\ xTail' \in Slots'
        /\ pucBuffer' \in [Slots' -> Nat]
    BY DEF RingTypeOK
  <1>5. BytesInBuffer \in 0 .. xLength - 1 /\ SpacesAvailable \in 0 .. xLength - 1
    BY <1>1, RingFacts
  <1>6. /\ SpacesAvailable' \in 0 .. xLength - 1
        /\ BytesInBuffer' + SpacesAvailable' = xLength' - 1
    <2>1. PICK b : b = BytesInBuffer'
      OBVIOUS
    <2>2. PICK L : L = xLength
      OBVIOUS
    <2>3. L \in Nat /\ b \in 0 .. L - 1 /\ SpacesAvailable' = L - 1 - b
      BY <1>1, <1>2, <2>1, <2>2
    <2>4. L - 1 - b \in 0 .. L - 1 /\ b + (L - 1 - b) = L - 1
      BY <2>3
    <2>. QED
      BY <1>0, <2>1, <2>2, <2>3, <2>4
  <1>. QED
    BY <1>0, <1>1, <1>2, <1>3, <1>4, <1>5, <1>6

LEMMA WriteDataKeeps ==
  ASSUME StreamAssumption, StreamInv, Idle, WriteData
  PROVE  StreamInv'
  <1>. USE DEF WriteData, Step, Goto, Notified, handleVars, flagVars
  <1>w. /\ RingTypeOK' /\ WholeMessages'
        /\ BytesInBuffer' >= BytesInBuffer /\ SpacesAvailable' <= SpacesAvailable
        /\ BytesInBuffer > 0 => ByteAt(0)' = ByteAt(0)
        /\ Fitting(op[Writer].data, told[Writer]) = <<>> => UNCHANGED ringVars
    <2>1. told[Writer] \in 0 .. SpacesAvailable /\ op[Writer].data \in Seq(Nat)
      BY SidesFacts, InvRing, RingFacts, UseFacts
         DEF StreamInv, StreamTypeOK, FoundRight, RingTypeOK
    <2>. QED
      BY <2>1, Written, InvRing DEF StreamInv, Idle
  <1>1. StreamTypeOK'
    BY <1>w, RingNext, SidesFacts DEF StreamInv, StreamTypeOK, Labels
  <1>2. DataRight'
    BY <1>w, RingNext, SidesFacts DEF StreamInv, StreamTypeOK, DataRight, Calls
  <1>3. FoundRight'
    <2>1. pc'[Writer] \notin {"wait", "asleep", "awake", "check", "write"}
      BY SidesFacts DEF StreamInv, StreamTypeOK, DataRight
    <2>2. ASSUME pc'[Reader] = "read"
          PROVE  told'[Reader] <= BytesInBuffer' /\ told'[Reader] = told[Reader]
                 /\ (use.message /\ told[Reader] > 0 => told[Reader] > ByteAt(0)')
      <3>1. /\ pc[Reader] = "read" /\ told'[Reader] = told[Reader]
            /\ told[Reader] \in Int /\ told[Reader] <= BytesInBuffer
            /\ use.message /\ told[Reader] > 0 => told[Reader] > ByteAt(0)
        BY <2>2, SidesFacts, RingNext, <1>w DEF StreamInv, StreamTypeOK, FoundRight
      <3>2. BytesInBuffer \in Int /\ BytesInBuffer' \in Int
        BY <1>w, RingNext
      <3>. QED
        BY <1>w, <3>1, <3>2
    <2>. QED
      BY <1>w, <2>1, <2>2, RingNext DEF FoundRight
  <1>4. HandlesLeft'
    BY <1>w, RingNext, SidesFacts
       DEF StreamInv, StreamTypeOK, HandlesLeft, SleepersWoken, FallsAsleep
  <1>5. SleepersWoken'
    BY <1>w, RingNext, RingUnchanged, SidesFacts
       DEF StreamInv, StreamTypeOK, DataRight, HandlesLeft, SleepersWoken, FallsAsleep
  <1>. QED
    BY <1>w, <1>1, <1>2, <1>3, <1>4, <1>5 DEF StreamInv

LEMMA SendFromISRKeeps ==
  ASSUME StreamAssumption, StreamInv, Idle, NEW data \in Sent, SendFromISR(data)
  PROVE  StreamInv'
  <1>. USE DEF SendFromISR, SendCompleted, AtTrigger, Step, Goto, Notified, handleVars, flagVars
  <1>w. /\ RingTypeOK' /\ WholeMessages'
        /\ BytesInBuffer' >= BytesInBuffer /\ SpacesAvailable' <= SpacesAvailable
        /\ BytesInBuffer > 0 => ByteAt(0)' = ByteAt(0)
    <2>1. SpacesAvailable \in 0 .. SpacesAvailable /\ data \in Seq(Nat)
      BY InvRing, RingFacts, UseFacts DEF StreamAssumption, RingTypeOK
    <2>. QED
      BY <2>1, Written, InvRing DEF StreamInv, Idle
  <1>1. StreamTypeOK'
    BY ZenonT(60), <1>w, RingNext, SidesFacts DEF StreamInv, StreamTypeOK, Labels
  <1>2. DataRight'
    BY <1>w, RingNext, SidesFacts DEF StreamInv, StreamTypeOK, DataRight, Calls
  <1>3. FoundRight'
    <2>1. pc'[Writer] \notin {"wait", "asleep", "awake", "check", "write"}
      BY SidesFacts DEF StreamInv, StreamTypeOK, DataRight
    <2>2. ASSUME pc'[Reader] = "read"
          PROVE  told'[Reader] <= BytesInBuffer' /\ told'[Reader] = told[Reader]
                 /\ (use.message /\ told[Reader] > 0 => told[Reader] > ByteAt(0)')
      <3>1. /\ pc[Reader] = "read" /\ told'[Reader] = told[Reader]
            /\ told[Reader] \in Int /\ told[Reader] <= BytesInBuffer
            /\ use.message /\ told[Reader] > 0 => told[Reader] > ByteAt(0)
        BY <2>2, SidesFacts, RingNext, <1>w DEF StreamInv, StreamTypeOK, FoundRight
      <3>2. BytesInBuffer \in Int /\ BytesInBuffer' \in Int
        BY <1>w, RingNext
      <3>. QED
        BY <1>w, <3>1, <3>2
    <2>. QED
      BY <1>w, <2>1, <2>2, RingNext DEF FoundRight
  <1>4. HandlesLeft'
    BY ZenonT(60), <1>w, RingNext, SidesFacts
       DEF StreamInv, StreamTypeOK, HandlesLeft, SleepersWoken, FallsAsleep
  <1>5. SleepersWoken'
    BY ZenonT(60), <1>w, RingNext, RingUnchanged, SidesFacts
       DEF StreamInv, StreamTypeOK, DataRight, HandlesLeft, SleepersWoken, FallsAsleep
  <1>. QED
    BY <1>w, <1>1, <1>2, <1>3, <1>4, <1>5 DEF StreamInv

LEMMA ReadDataKeeps ==
  ASSUME StreamAssumption, StreamInv, Idle, ReadData
  PROVE  StreamInv'
  <1>. USE DEF ReadData, Step, Goto, Notified, handleVars, flagVars
  <1>w. /\ RingTypeOK' /\ WholeMessages' /\ received' \in Seq(Nat)
        /\ BytesInBuffer' <= BytesInBuffer /\ SpacesAvailable' >= SpacesAvailable
        /\ received' = <<>> => UNCHANGED ringVars
    <2>1. /\ told[Reader] \in 0 .. BytesInBuffer /\ op[Reader].data \in Nat
          /\ use.message /\ told[Reader] > 0 => told[Reader] > ByteAt(0)
      BY SidesFacts, InvRing, RingFacts, UseFacts
         DEF StreamInv, StreamTypeOK, FoundRight, RingTypeOK
    <2>. QED
      BY <2>1, Taken, InvRing DEF StreamInv, Idle
  <1>1. StreamTypeOK'
    BY <1>w, RingNext, SidesFacts DEF StreamInv, StreamTypeOK, Labels
  <1>2. DataRight'
    BY <1>w, RingNext, SidesFacts DEF StreamInv, StreamTypeOK, DataRight, Calls
  <1>3. FoundRight'
    BY <1>w, RingNext, RingUnchanged, SidesFacts DEF StreamInv, StreamTypeOK, DataRight, FoundRight
  <1>4. HandlesLeft'
    BY <1>w, RingNext, SidesFacts
       DEF StreamInv, StreamTypeOK, HandlesLeft, SleepersWoken, FallsAsleep
  <1>5. SleepersWoken'
    BY <1>w, RingNext, RingUnchanged, SidesFacts
       DEF StreamInv, StreamTypeOK, DataRight, HandlesLeft, SleepersWoken, FallsAsleep
  <1>. QED
    BY <1>w, <1>1, <1>2, <1>3, <1>4, <1>5 DEF StreamInv

LEMMA ReceiveFromISRKeeps ==
  ASSUME StreamAssumption, StreamInv, Idle, NEW room \in Rooms, ReceiveFromISR(room)
  PROVE  StreamInv'
  <1>. USE DEF ReceiveFromISR, ReceiveCompleted, Step, Goto, Notified, handleVars, flagVars
  <1>w. /\ RingTypeOK' /\ WholeMessages' /\ received' \in Seq(Nat)
        /\ BytesInBuffer' <= BytesInBuffer /\ SpacesAvailable' >= SpacesAvailable
        /\ received' = <<>> => UNCHANGED ringVars
    <2>1. /\ BytesInBuffer \in 0 .. BytesInBuffer /\ room \in Nat
          /\ use.message /\ BytesInBuffer > 0 => BytesInBuffer > ByteAt(0)
      BY InvRing, RingFacts, UseFacts, FirstMessage DEF StreamAssumption, StreamInv, RingTypeOK
    <2>. QED
      BY <2>1, Taken, InvRing DEF StreamInv, Idle
  <1>1. StreamTypeOK'
    BY ZenonT(60), <1>w, RingNext, SidesFacts DEF StreamInv, StreamTypeOK, Labels
  <1>2. DataRight'
    BY <1>w, RingNext, SidesFacts DEF StreamInv, StreamTypeOK, DataRight, Calls
  <1>3. FoundRight'
    <2>1. pc'[Reader] # "read" /\ op' = op /\ told' = told /\ pc' = pc
      BY SidesFacts DEF StreamInv, StreamTypeOK, DataRight
    <2>2. told[Writer] \in Int
      BY <1>w, RingNext, SidesFacts DEF StreamInv, StreamTypeOK
    <2>. QED
      BY <1>w, <2>1, <2>2, RingNext DEF FoundRight, StreamInv
  <1>4. HandlesLeft'
    BY ZenonT(60), <1>w, RingNext, SidesFacts
       DEF StreamInv, StreamTypeOK, HandlesLeft, SleepersWoken, FallsAsleep
  <1>5. SleepersWoken'
    <2>1. CASE received' = <<>>
      BY <1>w, <2>1, RingNext, RingUnchanged, SidesFacts
         DEF StreamInv, StreamTypeOK, HandlesLeft, SleepersWoken, FallsAsleep
    <2>2. CASE received' # <<>>
      <3>1. ~FallsAsleep(Writer)'
        BY <2>2, SidesFacts DEF StreamInv, StreamTypeOK, HandlesLeft, FallsAsleep
      <3>2. FallsAsleep(Reader)' => FallsAsleep(Reader)
        BY <2>2, SidesFacts DEF StreamInv, StreamTypeOK, HandlesLeft, FallsAsleep, SleepersWoken
      <3>3. BytesInBuffer' >= use.trigger => BytesInBuffer >= use.trigger
        BY <1>w, RingNext, SidesFacts
      <3>. QED
        BY <1>w, <2>2, <3>1, <3>2, <3>3, RingNext, SidesFacts
           DEF StreamInv, StreamTypeOK, SleepersWoken
    <2>. QED
      BY <2>1, <2>2
  <1>. QED
    BY <1>w, <1>1, <1>2, <1>3, <1>4, <1>5 DEF StreamInv

LEMMA ResetKeeps ==
  ASSUME StreamAssumption, StreamInv, Idle, Reset
  PROVE  StreamInv'
  <1>. USE DEF Reset, Step, Goto, Notified, handleVars, flagVars
  <1>w. RingTypeOK' /\ WholeMessages'
    <2>0. use' = use /\ xLength' = xLength /\ Slots' = Slots /\ xLength \in Nat /\ xLength > 1
      BY UseFacts, InvRing DEF Idle, xLength, Slots, RingTypeOK
    <2>1. RingTypeOK'
      BY <2>0, InvRing DEF RingTypeOK, Slots
    <2>2. BytesInBuffer' = 0
      BY <2>0 DEF BytesInBuffer, Wrapped
    <2>3. {0} \in SUBSET (0 .. 0) /\ Divides({0})'
      BY <2>2 DEF Divides
    <2>4. WholeMessages'
      BY <2>2, <2>3 DEF WholeMessages
    <2>. QED
      BY <2>1, <2>4
  <1>1. StreamTypeOK'
    BY <1>w, RingNext, SidesFacts DEF StreamInv, StreamTypeOK, Labels
  <1>2. DataRight'
    BY <1>w, RingNext, SidesFacts DEF StreamInv, StreamTypeOK, DataRight, Calls
  <1>3. FoundRight'
    BY <1>w, RingNext, RingUnchanged, SidesFacts DEF StreamInv, StreamTypeOK, DataRight, FoundRight
  <1>4. HandlesLeft'
    BY <1>w, RingNext, SidesFacts
       DEF StreamInv, StreamTypeOK, HandlesLeft, SleepersWoken, FallsAsleep
  <1>5. SleepersWoken'
    BY <1>w, RingNext, RingUnchanged, SidesFacts
       DEF StreamInv, StreamTypeOK, DataRight, HandlesLeft, SleepersWoken, FallsAsleep
  <1>. QED
    BY <1>w, <1>1, <1>2, <1>3, <1>4, <1>5 DEF StreamInv
-----------------------------------------------------------------------------
\* All together.

LEMMA StreamInvInit ==
  ASSUME StreamAssumption, StreamInit
  PROVE  StreamInv
  <1>1. /\ Writer \in Tasks /\ Reader \in Tasks /\ Writer # Reader /\ NoTask \notin Tasks
        /\ xLength \in Nat /\ xLength > 1 /\ use \in Uses /\ xHead = 0 /\ xTail = 0
    BY UseFacts DEF StreamInit, StreamAssumption
  <1>2. BytesInBuffer = 0 /\ SpacesAvailable = xLength - 1
    BY <1>1 DEF BytesInBuffer, SpacesAvailable, Wrapped
  <1>3. StreamTypeOK
    BY <1>1, <1>2 DEF StreamInit, StreamTypeOK, Slots, Labels
  <1>4. DataRight
    BY <1>1 DEF StreamInit, DataRight, Calls, Waits
  <1>5. {0} \in SUBSET (0 .. 0) /\ Divides({0})
    BY <1>2 DEF Divides
  <1>6. WholeMessages
    BY <1>2, <1>5 DEF WholeMessages
  <1>7. FoundRight /\ HandlesLeft /\ SleepersWoken
    BY <1>1 DEF StreamInit, FoundRight, HandlesLeft, SleepersWoken, FallsAsleep
  <1>. QED
    BY <1>3, <1>4, <1>6, <1>7 DEF StreamInv

LEMMA StreamInvStep ==
  ASSUME StreamAssumption, StreamInv, [StreamNext]_streamVars
  PROVE  StreamInv'
  <1>1. CASE StreamNext
    <2>. Idle
      BY <1>1 DEF StreamNext, Idle
    <2>. QED
      BY <1>1, LookForSpaceKeeps, WriterAwakeKeeps, CheckForTimeOutKeeps, RereadKeeps,
         WriteDataKeeps, LookAtTriggerKeeps, WakeReaderKeeps, ReaderAwakeKeeps, LookForBytesKeeps,
         ReadDataKeeps, WakeWriterKeeps, ResetKeeps, SleepKeeps, AwakeKeeps, ExpireKeeps, SendKeeps,
         ReceiveKeeps, SendFromISRKeeps, ReceiveFromISRKeeps
      DEF StreamNext
  <1>2. CASE UNCHANGED streamVars
    <2>1. use' = use /\ UNCHANGED ringVars
      BY <1>2 DEF streamVars
    <2>2. RequiredSpace(op[Writer].data)' = RequiredSpace(op[Writer].data)
      BY <1>2 DEF streamVars, RequiredSpace, Smaller, xLength
    <2>3. StreamTypeOK' /\ DataRight'
      BY <1>2, <2>1, RingStays DEF streamVars, notifyVars, StreamInv, StreamTypeOK, DataRight
    <2>4. FoundRight' /\ HandlesLeft' /\ SleepersWoken'
      BY <1>2, <2>1, <2>2, RingStays
         DEF streamVars, notifyVars, handleVars, StreamInv, FoundRight, HandlesLeft, SleepersWoken,
             FallsAsleep
    <2>. QED
      BY <2>1, <2>3, <2>4, RingStays DEF StreamInv
  <1>. QED
    BY <1>1, <1>2

\* The two sides of a buffer do not sleep through what they wait for, whatever falls
\* between the steps of a send and a receive: a reader wakes when as many bytes as the
\* trigger level are there, a writer when there is the space it needs; and the handle
\* a side leaves is its own, while it waits (stream_buffer.c xStreamBufferSend,
\* xStreamBufferReceive, sbSEND_COMPLETED, sbRECEIVE_COMPLETED).
THEOREM SleepersCorrect ==
  ASSUME StreamAssumption
  PROVE  StreamSpec => []SleepersWoken
  <1>1. StreamInit => StreamInv
    BY StreamInvInit
  <1>2. StreamInv /\ [StreamNext]_streamVars => StreamInv'
    BY StreamInvStep
  <1>3. StreamInv => SleepersWoken
    BY DEF StreamInv
  <1>. QED
    BY <1>1, <1>2, <1>3, PTL DEF StreamSpec

\* The ring, the calls and the notification states keep their types, and one byte of
\* the ring stays unused.
THEOREM StreamTypesCorrect ==
  ASSUME StreamAssumption
  PROVE  StreamSpec => []StreamTypeOK
  <1>1. StreamInit => StreamInv
    BY StreamInvInit
  <1>2. StreamInv /\ [StreamNext]_streamVars => StreamInv'
    BY StreamInvStep
  <1>3. StreamInv => StreamTypeOK
    BY DEF StreamInv
  <1>. QED
    BY <1>1, <1>2, <1>3, PTL DEF StreamSpec

\* A message buffer holds whole messages: each length is followed by that many bytes,
\* whatever the two sides do meanwhile (prvWriteMessageToBuffer,
\* prvReadMessageFromBuffer).
THEOREM MessagesWhole ==
  ASSUME StreamAssumption
  PROVE  StreamSpec => []WholeMessages
  <1>1. StreamInit => StreamInv
    BY StreamInvInit
  <1>2. StreamInv /\ [StreamNext]_streamVars => StreamInv'
    BY StreamInvStep
  <1>3. StreamInv => WholeMessages
    BY DEF StreamInv
  <1>. QED
    BY <1>1, <1>2, <1>3, PTL DEF StreamSpec
-----------------------------------------------------------------------------
\* The order of the bytes.

LEMMA QuietStep ==
  ASSUME Idle, UNCHANGED <<ringVars, received>>
  PROVE  UNCHANGED <<Contained, received>>
  BY RingUnchanged DEF Idle

LEMMA BytesStepOfNext ==
  ASSUME StreamAssumption, StreamInv, StreamNext
  PROVE  [BytesStep]_<<Contained, received>>
  <1>. Idle /\ use' = use
    BY DEF StreamNext, Idle
  <1>0. RingTypeOK /\ WholeMessages
    BY InvRing DEF StreamInv
  <1>1. CASE WriteData
    <2>1. /\ op[Writer].data \in Sent /\ op[Writer].data \in Seq(Nat)
          /\ told[Writer] \in 0 .. SpacesAvailable /\ UNCHANGED received
      BY SMTT(30), <1>1, SidesFacts, InvRing, RingFacts, UseFacts
         DEF WriteData, Step, StreamInv, StreamTypeOK, DataRight, FoundRight, RingTypeOK
    <2>2. op[Writer].data \in Sending
      BY <2>1 DEF Sending
    <2>3. Write(op[Writer].data, told[Writer])
      BY <1>1 DEF WriteData
    <2>4. CASE Fitting(op[Writer].data, told[Writer]) = <<>>
      BY <1>0, <2>1, <2>3, <2>4, Written, QuietStep
    <2>5. CASE Fitting(op[Writer].data, told[Writer]) # <<>>
      <3>1. PICK n \in 1 .. Len(op[Writer].data) :
              /\ use.message => n = Len(op[Writer].data)
              /\ Contained' = Contained \o Framed(SubSeq(op[Writer].data, 1, n))
        BY <1>0, <2>1, <2>3, <2>5, Written
      <3>. QED
        BY <2>1, <2>2, <3>1 DEF BytesStep
    <2>. QED
      BY <2>4, <2>5
  <1>2. CASE \E data \in Sent : SendFromISR(data)
    <2>1. PICK data \in Sent : SendFromISR(data)
      BY <1>2
    <2>2. /\ data \in Seq(Nat) /\ data \in Sending /\ UNCHANGED received
          /\ SpacesAvailable \in 0 .. SpacesAvailable
          /\ Write(data, SpacesAvailable) /\ Fitting(data, SpacesAvailable) # <<>>
      BY <1>0, <2>1, RingFacts, UseFacts DEF SendFromISR, Sending, StreamAssumption, RingTypeOK
    <2>3. PICK n \in 1 .. Len(data) :
            /\ use.message => n = Len(data)
            /\ Contained' = Contained \o Framed(SubSeq(data, 1, n))
      BY <1>0, <2>2, Written
    <2>. QED
      BY <2>2, <2>3 DEF BytesStep
  <1>3. CASE ReadData
    <2>1. /\ told[Reader] \in 0 .. BytesInBuffer /\ op[Reader].data \in Nat
          /\ use.message /\ told[Reader] > 0 => told[Reader] > ByteAt(0)
      BY <1>0, <1>3, SidesFacts, RingFacts, UseFacts
         DEF ReadData, Step, StreamInv, StreamTypeOK, FoundRight, RingTypeOK
    <2>2. Read(op[Reader].data, told[Reader])
      BY <1>3 DEF ReadData
    <2>3. /\ received' = <<>> => UNCHANGED ringVars
          /\ received' # <<>> => Contained = Framed(received') \o Contained'
      BY <1>0, <2>1, <2>2, Taken
    <2>. QED
      BY <2>3, RingUnchanged DEF BytesStep
  <1>4. CASE \E room \in Rooms : ReceiveFromISR(room)
    <2>1. PICK room \in Rooms : ReceiveFromISR(room)
      BY <1>4
    <2>2. /\ BytesInBuffer \in 0 .. BytesInBuffer /\ room \in Nat
          /\ use.message /\ BytesInBuffer > 0 => BytesInBuffer > ByteAt(0)
      BY <1>0, RingFacts, UseFacts, FirstMessage DEF StreamAssumption, RingTypeOK
    <2>3. Read(room, BytesInBuffer)
      BY <2>1 DEF ReceiveFromISR
    <2>4. /\ received' = <<>> => UNCHANGED ringVars
          /\ received' # <<>> => Contained = Framed(received') \o Contained'
      BY <1>0, <2>2, <2>3, Taken
    <2>. QED
      BY <2>4, RingUnchanged DEF BytesStep
  <1>5. CASE Reset
    BY <1>5 DEF BytesStep
  <1>6. CASE \/ LookForSpace \/ WriterAwake \/ CheckForTimeOut \/ Reread \/ LookAtTrigger
             \/ WakeReader \/ ReaderAwake \/ LookForBytes \/ WakeWriter
    <2>1. UNCHANGED <<ringVars, received>>
      BY <1>6 DEF LookForSpace, WriterAwake, CheckForTimeOut, Reread, LookAtTrigger, WakeReader,
                  ReaderAwake, LookForBytes, WakeWriter
    <2>. QED
      BY <2>1, QuietStep
  <1>7. CASE \E t \in Tasks : Sleep(t) \/ Awake(t) \/ Expire(t)
    <2>1. UNCHANGED <<ringVars, received>>
      BY <1>7 DEF Sleep, Awake, Expire
    <2>. QED
      BY <2>1, QuietStep
  <1>8. CASE \E wait \in Waits : \/ \E data \in Sent : Send(data, wait)
                                 \/ \E room \in Rooms : Receive(room, wait)
    <2>1. UNCHANGED <<ringVars, received>>
      BY <1>8 DEF Send, Receive
    <2>. QED
      BY <2>1, QuietStep
  <1>. QED
    BY <1>1, <1>2, <1>3, <1>4, <1>5, <1>6, <1>7, <1>8 DEF StreamNext

\* What is received is what was sent, in order: a step puts bytes of what is being sent,
\* a message whole, behind what is in the buffer, takes what it delivers from the front,
\* or resets; and a message is delivered whole (prvWriteMessageToBuffer,
\* prvReadMessageFromBuffer).
THEOREM BytesInOrderHolds ==
  ASSUME StreamAssumption
  PROVE  StreamSpec => BytesInOrder
  <1>1. StreamInit => StreamInv
    BY StreamInvInit
  <1>2. StreamInv /\ [StreamNext]_streamVars => StreamInv'
    BY StreamInvStep
  <1>3. StreamInv /\ [StreamNext]_streamVars => [BytesStep]_<<Contained, received>>
    <2>1. UNCHANGED streamVars => UNCHANGED <<Contained, received>>
      BY RingUnchanged DEF streamVars
    <2>. QED
      BY <2>1, BytesStepOfNext
  <1>. QED
    BY <1>1, <1>2, <1>3, PTL DEF StreamSpec, BytesInOrder

-----------------------------------------------------------------------------
\* The system heap of RT-Thread.

\* Every set of numbers that is not empty has a least one.
LEMMA LeastNumber ==
  ASSUME NEW S \in SUBSET Nat, S # {}
  PROVE  \E n \in S : \A i \in S : n <= i
  <1>1. PICK n \in S : \A i \in S : ~ (<<i, n>> \in OpToRel(<, Nat))
    BY NatLessThanWellFounded, WFMin
  <1>2. \A i \in S : ~ (i < n)
    BY <1>1 DEF OpToRel
  <1>. QED
    BY <1>2

\* The heap, headers and what makes a block are not empty, and nobody asks for nothing.
MemAssumption ==
  /\ MemSize \in Nat \ {0} /\ StructMem \in Nat \ {0} /\ MinSize \in Nat \ {0}
  /\ Wanted \subseteq Nat \ {0}

\* A chain: each block ends where the next begins, and is linked back to.
IsChain(nx, pv, us) ==
  LET D == DOMAIN us IN
  /\ D \subseteq 0 .. HeapEnd /\ 0 \in D /\ HeapEnd \in D
  /\ nx \in [D -> 0 .. HeapEnd] /\ pv \in [D -> 0 .. HeapEnd] /\ us \in [D -> BOOLEAN]
  /\ us[HeapEnd] /\ pv[0] = 0
  /\ \A b \in D \ {HeapEnd} : /\ nx[b] \in D /\ nx[b] > b + StructMem
                              /\ \A d \in D : d <= b \/ d >= nx[b]
  /\ nx[HeapEnd] = HeapEnd
  /\ \A n \in D \ {0, HeapEnd} : pv[n] \in D /\ pv[n] < n /\ nx[pv[n]] = n

\* Free blocks that touch no other, but where b is.
NoHolesBut(nx, us, b) == \A d \in DOMAIN us : us[d] \/ us[nx[d]] \/ d = b \/ nx[d] = b
FreeStart(us, lf) == lf \in DOMAIN us /\ (us[lf] => lf = HeapEnd)
IsLowest(us, lf) == \A d \in DOMAIN us : ~us[d] => lf <= d
UsedBytes(nx, us) ==
  {a \in 0 .. HeapEnd - 1 : \E b \in DOMAIN us \ {HeapEnd} : us[b] /\ b <= a /\ a < nx[b]}

MemInv ==
  /\ IsChain(next, prev, used)
  /\ NoHoles /\ FreeStart(used, lfree) /\ (shrunk \/ IsLowest(used, lfree))
  /\ shrunk \in BOOLEAN
  /\ usedMem = Cardinality(UsedBytes(next, used))
  /\ usedMem <= maxMem /\ maxMem \in 0 .. HeapEnd

LEMMA MemConstants ==
  ASSUME MemAssumption
  PROVE  /\ MemSize \in Nat \ {0} /\ StructMem \in Nat \ {0} /\ MinSize \in Nat \ {0}
         /\ Wanted \subseteq Nat \ {0}
         /\ HeapEnd \in Nat \ {0} /\ HeapEnd = MemSize + StructMem
  BY DEF MemAssumption, HeapEnd

\* The links forward and back belong together.
LEMMA LinkedBack ==
  ASSUME MemAssumption, NEW nx, NEW pv, NEW us, IsChain(nx, pv, us),
         NEW b \in DOMAIN us \ {HeapEnd}, nx[b] # HeapEnd
  PROVE  pv[nx[b]] = b /\ nx[b] \in DOMAIN us \ {0, HeapEnd}
  <1>. DEFINE n == nx[b]
              p == pv[n]
  <1>1. n \in DOMAIN us /\ n > b + StructMem /\ \A d \in DOMAIN us : d <= b \/ d >= n
    BY DEF IsChain
  <1>2. HeapEnd \in Nat /\ StructMem \in Nat /\ \A d \in DOMAIN us : d \in Nat
    BY MemConstants DEF IsChain
  <1>3. n # 0
    BY <1>1, <1>2
  <1>4. p \in DOMAIN us /\ p < n /\ nx[p] = n
    BY <1>1, <1>3 DEF IsChain
  <1>5. p # HeapEnd
    BY <1>1, <1>2, <1>4 DEF IsChain
  <1>6. \A d \in DOMAIN us : d <= p \/ d >= n
    BY <1>4, <1>5 DEF IsChain
  <1>7. b \in Nat /\ p \in Nat /\ n \in Nat
    BY <1>1, <1>2, <1>4
  <1>. HIDE DEF p
  <1>8. p = b
    BY <1>1, <1>4, <1>6, <1>7, <1>2
  <1>. QED
    BY <1>1, <1>3, <1>8 DEF p

\* A block is cut in two.
LEMMA CutFacts ==
  ASSUME MemAssumption, NEW c, IsChain(c.next, c.prev, c.used),
         NEW b \in DOMAIN c.used \ {HeapEnd}, NEW at \in Nat,
         b + StructMem < at, at + StructMem < c.next[b]
  PROVE  LET k == Cut(c, b, at) IN
         /\ at \notin DOMAIN c.used /\ at \in 1 .. HeapEnd - 1
         /\ DOMAIN k.used = DOMAIN c.used \cup {at}
         /\ k.next[b] = at /\ k.next[at] = c.next[b] /\ ~k.used[at]
         /\ \A d \in DOMAIN c.used : k.used[d] = c.used[d]
         /\ \A d \in DOMAIN c.used \ {b} : k.next[d] = c.next[d]
         /\ IsChain(k.next, k.prev, k.used) /\ k.lfree = c.lfree
  <1>. DEFINE k  == Cut(c, b, at)
              D  == DOMAIN c.used
              n  == c.next[b]
              pn == IF n = HeapEnd THEN c.prev ELSE With(c.prev, n, at)
  <1>1. k.next = With(With(c.next, at, n), b, at) /\ k.prev = With(pn, at, b)
        /\ k.used = With(c.used, at, FALSE) /\ k.lfree = c.lfree
    BY DEF Cut
  <1>. HIDE DEF k
  <1>2. /\ D \subseteq 0 .. HeapEnd /\ 0 \in D /\ HeapEnd \in D
        /\ HeapEnd \in Nat /\ StructMem \in Nat
        /\ DOMAIN c.next = D /\ DOMAIN c.prev = D
        /\ n \in D /\ b \in D /\ \A d \in D : d <= b \/ d >= n
    BY MemConstants DEF IsChain
  <1>3. at \notin D /\ at \in 1 .. HeapEnd - 1 /\ at # b /\ at # n
    <2>1. b \in Nat /\ n \in Nat /\ n <= HeapEnd
      BY <1>2
    <2>2. at > b /\ at < n
      BY <2>1, <1>2
    <2>. QED
      BY <2>1, <2>2, <1>2
  <1>4. /\ k.used \in [D \cup {at} -> BOOLEAN] /\ ~k.used[at]
        /\ \A d \in D : k.used[d] = c.used[d]
    <2>1. c.used \in [D -> BOOLEAN] /\ FALSE \in BOOLEAN
      BY DEF IsChain
    <2>. HIDE DEF D
    <2>2. /\ With(c.used, at, FALSE) \in [D \cup {at} -> BOOLEAN]
          /\ With(c.used, at, FALSE)[at] = FALSE
          /\ \A d \in D \ {at} : With(c.used, at, FALSE)[d] = c.used[d]
      BY <2>1 DEF With
    <2>. QED
      BY <2>2, <1>1, <1>3
  <1>5. /\ k.next[b] = at /\ k.next[at] = n /\ \A d \in D \ {b} : k.next[d] = c.next[d]
        /\ k.next \in [D \cup {at} -> 0 .. HeapEnd]
    <2>1. c.next \in [D -> 0 .. HeapEnd] /\ n \in 0 .. HeapEnd /\ at \in 0 .. HeapEnd
      BY <1>2, <1>3 DEF IsChain
    <2>. DEFINE m == With(c.next, at, n)
    <2>. HIDE DEF D, n
    <2>2. m \in [D \cup {at} -> 0 .. HeapEnd] /\ m[at] = n /\ \A d \in D \ {at} : m[d] = c.next[d]
      BY <2>1 DEF With
    <2>. HIDE DEF m
    <2>3. k.next = With(m, b, at)
      BY <1>1 DEF m
    <2>4. /\ With(m, b, at) \in [(D \cup {at}) \cup {b} -> 0 .. HeapEnd] /\ With(m, b, at)[b] = at
          /\ \A d \in (D \cup {at}) \ {b} : With(m, b, at)[d] = m[d]
      BY <2>1, <2>2 DEF With
    <2>5. (D \cup {at}) \cup {b} = D \cup {at}
      BY <1>2
    <2>. QED
      BY <2>2, <2>3, <2>4, <2>5, <1>2, <1>3
  <1>6. /\ k.prev[at] = b /\ (n # HeapEnd => k.prev[n] = at)
        /\ \A d \in D : d # n \/ n = HeapEnd => k.prev[d] = c.prev[d]
        /\ k.prev \in [D \cup {at} -> 0 .. HeapEnd]
    <2>1. c.prev \in [D -> 0 .. HeapEnd] /\ b \in 0 .. HeapEnd /\ at \in 0 .. HeapEnd
      BY <1>2, <1>3 DEF IsChain
    <2>. HIDE DEF D, n
    <2>2. /\ pn \in [D -> 0 .. HeapEnd] /\ (n # HeapEnd => pn[n] = at)
          /\ \A d \in D : d # n \/ n = HeapEnd => pn[d] = c.prev[d]
      <3>1. /\ With(c.prev, n, at) \in [D \cup {n} -> 0 .. HeapEnd] /\ With(c.prev, n, at)[n] = at
            /\ \A d \in D \ {n} : With(c.prev, n, at)[d] = c.prev[d]
        BY <2>1 DEF With
      <3>2. D \cup {n} = D
        BY <1>2
      <3>. QED
        BY <3>1, <3>2, <2>1
    <2>. HIDE DEF pn
    <2>3. /\ With(pn, at, b) \in [D \cup {at} -> 0 .. HeapEnd] /\ With(pn, at, b)[at] = b
          /\ \A d \in D \ {at} : With(pn, at, b)[d] = pn[d]
      BY <2>1, <2>2 DEF With
    <2>. QED
      BY <2>2, <2>3, <1>1, <1>2, <1>3
  <1>7. IsChain(k.next, k.prev, k.used)
    <2>7. DOMAIN k.used = D \cup {at}
      BY <1>4
    <2>1. D \cup {at} \subseteq 0 .. HeapEnd /\ 0 \in D \cup {at} /\ HeapEnd \in D \cup {at}
      BY <1>2, <1>3
    <2>2. k.used[HeapEnd]
      BY <1>2, <1>4 DEF IsChain
    <2>3. k.prev[0] = 0
      <3>1. n > 0
        BY <1>2
      <3>. QED
        BY <3>1, <1>2, <1>6 DEF IsChain
    <2>4. k.next[HeapEnd] = HeapEnd
      BY <1>2, <1>5 DEF IsChain
    <2>5. ASSUME NEW d \in (D \cup {at}) \ {HeapEnd}
          PROVE  /\ k.next[d] \in D \cup {at} /\ k.next[d] > d + StructMem
                 /\ \A e \in D \cup {at} : e <= d \/ e >= k.next[d]
      <3>1. CASE d = b
        BY <3>1, <1>2, <1>3, <1>5
      <3>2. CASE d = at
        BY <3>2, <1>2, <1>3, <1>5
      <3>3. CASE d \in D \ {b, HeapEnd}
        <4>1. /\ k.next[d] = c.next[d] /\ c.next[d] \in D /\ c.next[d] > d + StructMem
              /\ \A e \in D : e <= d \/ e >= c.next[d]
          BY <3>3, <1>5 DEF IsChain
        <4>2. b <= d \/ b >= c.next[d]
          BY <4>1, <1>2
        <4>3. d <= b \/ d >= n
          BY <3>3, <1>2
        <4>4. at <= d \/ at >= c.next[d]
          <5>1. /\ b \in Nat /\ n \in Nat /\ d \in Nat /\ c.next[d] \in Nat /\ d # b
                /\ at > b /\ at < n
            BY <4>1, <3>3, <1>2
          <5>. HIDE DEF n
          <5>. QED
            BY <4>2, <4>3, <5>1
        <4>. QED
          BY <4>1, <4>4
      <3>. QED
        BY <3>1, <3>2, <3>3
    <2>6. ASSUME NEW d \in (D \cup {at}) \ {0, HeapEnd}
          PROVE  k.prev[d] \in D \cup {at} /\ k.prev[d] < d /\ k.next[k.prev[d]] = d
      <3>1. CASE d = at
        BY <3>1, <1>2, <1>5, <1>6
      <3>2. CASE d = n /\ d # at
        BY <3>2, <1>2, <1>3, <1>5, <1>6
      <3>3. CASE d \in D \ {0, n, HeapEnd}
        <4>1. k.prev[d] = c.prev[d] /\ c.prev[d] \in D /\ c.prev[d] < d /\ c.next[c.prev[d]] = d
          BY <3>3, <1>6 DEF IsChain
        <4>2. c.prev[d] # b
          BY <4>1, <3>3
        <4>. QED
          BY <4>1, <4>2, <1>5
      <3>. QED
        BY <3>1, <3>2, <3>3
    <2>. QED
      BY <2>1, <2>2, <2>3, <2>4, <2>5, <2>6, <2>7, <1>4, <1>5, <1>6 DEF IsChain
  <1>8. DOMAIN k.used = D \cup {at}
    BY <1>4
  <1>. QED
    BY <1>1, <1>3, <1>4, <1>5, <1>7, <1>8 DEF k

\* A block takes the next one in.
LEMMA MergedFacts ==
  ASSUME MemAssumption, NEW c, IsChain(c.next, c.prev, c.used),
         NEW b \in DOMAIN c.used \ {HeapEnd}, c.next[b] # HeapEnd
  PROVE  LET k == Merged(c, b)
             n == c.next[b]
         IN
         /\ n \in DOMAIN c.used \ {0, b, HeapEnd} /\ c.next[n] \in DOMAIN c.used /\ c.next[n] > n
         /\ DOMAIN k.used = DOMAIN c.used \ {n}
         /\ k.next[b] = c.next[n]
         /\ \A d \in DOMAIN c.used \ {n} : k.used[d] = c.used[d]
         /\ \A d \in DOMAIN c.used \ {b, n} : k.next[d] = c.next[d] /\ c.next[d] # n
         /\ \A d \in DOMAIN c.used \ {n, HeapEnd} : d # c.next[n] => k.prev[d] = c.prev[d]
         /\ IsChain(k.next, k.prev, k.used)
         /\ k.lfree = IF c.lfree = n THEN b ELSE c.lfree
  <1>. DEFINE k == Merged(c, b)
              D == DOMAIN c.used
              n == c.next[b]
              m == c.next[n]
              nl == Less(c.next, n)
              pl == Less(c.prev, n)
  <1>1. k.next = With(nl, b, m) /\ k.prev = With(pl, m, b)
        /\ k.used = Less(c.used, n) /\ k.lfree = IF c.lfree = n THEN b ELSE c.lfree
    BY DEF Merged
  <1>. HIDE DEF k
  <1>2. /\ D \subseteq 0 .. HeapEnd /\ 0 \in D /\ HeapEnd \in D
        /\ HeapEnd \in Nat /\ StructMem \in Nat
        /\ DOMAIN c.next = D /\ DOMAIN c.prev = D
        /\ n \in D /\ b \in D /\ n > b + StructMem /\ \A d \in D : d <= b \/ d >= n
    BY MemConstants DEF IsChain
  <1>3. n \in D \ {0, b, HeapEnd} /\ c.prev[n] = b
    <2>1. n \in D \ {0, HeapEnd} /\ c.prev[n] = b
      BY LinkedBack
    <2>2. n # b
      BY <1>2
    <2>. QED
      BY <2>1, <2>2
  <1>4. m \in D /\ m > n + StructMem /\ \A d \in D : d <= n \/ d >= m
    BY <1>3 DEF IsChain
  <1>5. m # n /\ m # b /\ m > n /\ m # 0 /\ m \in Nat /\ n \in Nat /\ b \in Nat
    BY <1>2, <1>4
  <1>6. /\ DOMAIN k.used = D \ {n} /\ \A d \in D \ {n} : k.used[d] = c.used[d]
        /\ k.used \in [D \ {n} -> BOOLEAN]
    <2>1. c.used \in [D -> BOOLEAN]
      BY DEF IsChain
    <2>. HIDE DEF D, n
    <2>2. /\ Less(c.used, n) \in [D \ {n} -> BOOLEAN]
          /\ \A d \in D \ {n} : Less(c.used, n)[d] = c.used[d]
      BY <2>1 DEF Less
    <2>. QED
      BY <2>2, <1>1
  <1>7. /\ k.next[b] = m /\ \A d \in D \ {b, n} : k.next[d] = c.next[d]
        /\ k.next \in [D \ {n} -> 0 .. HeapEnd]
    <2>1. c.next \in [D -> 0 .. HeapEnd] /\ m \in 0 .. HeapEnd
      BY <1>2, <1>4 DEF IsChain
    <2>. HIDE DEF D, n, m
    <2>2. nl \in [D \ {n} -> 0 .. HeapEnd] /\ \A d \in D \ {n} : nl[d] = c.next[d]
      BY <2>1 DEF Less
    <2>. HIDE DEF nl
    <2>3. /\ With(nl, b, m) \in [(D \ {n}) \cup {b} -> 0 .. HeapEnd] /\ With(nl, b, m)[b] = m
          /\ \A d \in (D \ {n}) \ {b} : With(nl, b, m)[d] = nl[d]
      BY <2>1, <2>2 DEF With
    <2>4. (D \ {n}) \cup {b} = D \ {n}
      BY <1>2, <1>3
    <2>. QED
      BY <2>2, <2>3, <2>4, <1>1
  <1>8. /\ k.prev[m] = b /\ \A d \in D \ {n} : d # m => k.prev[d] = c.prev[d]
        /\ k.prev \in [D \ {n} -> 0 .. HeapEnd]
    <2>1. c.prev \in [D -> 0 .. HeapEnd] /\ b \in 0 .. HeapEnd
      BY <1>2 DEF IsChain
    <2>. HIDE DEF D, n, m
    <2>2. pl \in [D \ {n} -> 0 .. HeapEnd] /\ \A d \in D \ {n} : pl[d] = c.prev[d]
      BY <2>1 DEF Less
    <2>. HIDE DEF pl
    <2>3. /\ With(pl, m, b) \in [(D \ {n}) \cup {m} -> 0 .. HeapEnd] /\ With(pl, m, b)[m] = b
          /\ \A d \in (D \ {n}) \ {m} : With(pl, m, b)[d] = pl[d]
      BY <2>1, <2>2 DEF With
    <2>4. (D \ {n}) \cup {m} = D \ {n}
      BY <1>4, <1>5
    <2>. QED
      BY <2>2, <2>3, <2>4, <1>1
  <1>9. \A d \in D \ {b, n} : c.next[d] # n
    <2>. SUFFICES ASSUME NEW d \in D \ {b, n}, c.next[d] = n
                  PROVE  FALSE
      OBVIOUS
    <2>1. d # HeapEnd
      BY <1>3 DEF IsChain
    <2>2. c.prev[n] = d
      BY <2>1, <1>3, LinkedBack
    <2>. QED
      BY <2>2, <1>3
  <1>10. IsChain(k.next, k.prev, k.used)
    <2>1. D \ {n} \subseteq 0 .. HeapEnd /\ 0 \in D \ {n} /\ HeapEnd \in D \ {n}
      BY <1>2, <1>3
    <2>2. k.used[HeapEnd]
      BY <2>1, <1>6 DEF IsChain
    <2>3. k.prev[0] = 0
      BY <2>1, <1>5, <1>8 DEF IsChain
    <2>4. k.next[HeapEnd] = HeapEnd
      <3>1. HeapEnd \in D \ {b, n}
        BY <2>1
      <3>. QED
        BY <3>1, <1>7 DEF IsChain
    <2>5. ASSUME NEW d \in (D \ {n}) \ {HeapEnd}
          PROVE  /\ k.next[d] \in D \ {n} /\ k.next[d] > d + StructMem
                 /\ \A e \in D \ {n} : e <= d \/ e >= k.next[d]
      <3>1. CASE d = b
        <4>1. \A e \in D \ {n} : e <= b \/ e >= m
          <5>. SUFFICES ASSUME NEW e \in D \ {n}
                        PROVE  e <= b \/ e >= m
            OBVIOUS
          <5>1. (e <= b \/ e >= n) /\ (e <= n \/ e >= m) /\ e # n /\ e \in Nat
            BY <1>2, <1>4
          <5>. QED
            BY <5>1, <1>5
        <4>2. m > b + StructMem
          BY <1>2, <1>4, <1>5
        <4>. QED
          BY <3>1, <4>1, <4>2, <1>4, <1>5, <1>7
      <3>2. CASE d # b
        <4>1. /\ c.next[d] \in D /\ c.next[d] > d + StructMem
              /\ \A e \in D : e <= d \/ e >= c.next[d]
          BY DEF IsChain
        <4>. QED
          BY <3>2, <4>1, <1>7, <1>9
      <3>. QED
        BY <3>1, <3>2
    <2>6. ASSUME NEW d \in (D \ {n}) \ {0, HeapEnd}
          PROVE  k.prev[d] \in D \ {n} /\ k.prev[d] < d /\ k.next[k.prev[d]] = d
      <3>1. CASE d = m
        <4>1. b < m
          BY <1>2, <1>5
        <4>. QED
          BY <3>1, <4>1, <1>3, <1>2, <1>7, <1>8
      <3>2. CASE d # m
        <4>1. k.prev[d] = c.prev[d] /\ c.prev[d] \in D /\ c.prev[d] < d /\ c.next[c.prev[d]] = d
          BY <3>2, <1>8 DEF IsChain
        <4>2. c.prev[d] # n /\ c.prev[d] # b
          BY <3>2, <4>1
        <4>. QED
          BY <4>1, <4>2, <1>7
      <3>. QED
        BY <3>1, <3>2
    <2>. QED
      BY <2>1, <2>2, <2>3, <2>4, <2>5, <2>6, <1>6, <1>7, <1>8 DEF IsChain
  <1>. QED
    BY <1>1, <1>3, <1>4, <1>5, <1>6, <1>7, <1>8, <1>9, <1>10 DEF k

\* What is in use is counted: where a block is cut, and where one comes into use.
LEMMA UsedTypes ==
  ASSUME MemAssumption, NEW nx, NEW us
  PROVE  /\ IsFiniteSet(UsedBytes(nx, us)) /\ Cardinality(UsedBytes(nx, us)) \in 0 .. HeapEnd
  <1>1. HeapEnd \in Nat
    BY MemConstants
  <1>2. IsFiniteSet(0 .. HeapEnd - 1) /\ Cardinality(0 .. HeapEnd - 1) = HeapEnd
    BY <1>1, FS_Interval
  <1>3. UsedBytes(nx, us) \subseteq 0 .. HeapEnd - 1
    BY DEF UsedBytes
  <1>. QED
    BY <1>1, <1>2, <1>3, FS_Subset, FS_CardinalityType

LEMMA Counted ==
  ASSUME NEW S, NEW T, IsFiniteSet(T), NEW lo \in Nat, NEW hi \in Nat, lo <= hi,
         \A x : x \in S <=> x \in T \/ x \in lo .. hi - 1, \A x \in T : x \notin lo .. hi - 1
  PROVE  Cardinality(S) = Cardinality(T) + (hi - lo)
  <1>1. IsFiniteSet(lo .. hi - 1) /\ Cardinality(lo .. hi - 1) = hi - lo
    <2>1. lo \in Int /\ hi - 1 \in Int
      OBVIOUS
    <2>2. /\ IsFiniteSet(lo .. hi - 1)
          /\ Cardinality(lo .. hi - 1) = IF lo > hi - 1 THEN 0 ELSE (hi - 1) - lo + 1
      BY <2>1, FS_Interval
    <2>. QED
      BY <2>2
  <1>2. S = T \cup (lo .. hi - 1) /\ T \cap (lo .. hi - 1) = {}
    OBVIOUS
  <1>3. Cardinality(T \cap (lo .. hi - 1)) = 0
    BY <1>2, FS_EmptySet
  <1>4. Cardinality(T) \in Nat
    BY FS_CardinalityType
  <1>5. Cardinality(T \cup (lo .. hi - 1))
          = Cardinality(T) + Cardinality(lo .. hi - 1) - Cardinality(T \cap (lo .. hi - 1))
    BY <1>1, FS_Union
  <1>. QED
    BY <1>1, <1>2, <1>3, <1>4, <1>5

LEMMA MarkedFacts ==
  ASSUME MemAssumption, NEW nx, NEW pv, NEW us, IsChain(nx, pv, us),
         NEW b \in DOMAIN us \ {HeapEnd}, ~us[b],
         NEW vs \in [DOMAIN us -> BOOLEAN], vs[b], \A d \in DOMAIN us \ {b} : vs[d] = us[d]
  PROVE  /\ IsChain(nx, pv, vs)
         /\ Cardinality(UsedBytes(nx, vs)) = Cardinality(UsedBytes(nx, us)) + (nx[b] - b)
  <1>1. DOMAIN vs = DOMAIN us
    OBVIOUS
  <1>2. IsChain(nx, pv, vs)
    <2>1. vs[HeapEnd]
      BY DEF IsChain
    <2>. QED
      BY <2>1, <1>1 DEF IsChain
  <1>3. /\ HeapEnd \in Nat /\ StructMem \in Nat /\ b \in Nat /\ nx[b] \in 0 .. HeapEnd
        /\ nx[b] > b /\ \A d \in DOMAIN us : d \in Nat /\ nx[d] \in Nat
    <2>1. HeapEnd \in Nat /\ StructMem \in Nat
      BY MemConstants
    <2>2. b \in Nat /\ nx[b] \in 0 .. HeapEnd /\ nx[b] > b + StructMem
      BY <2>1 DEF IsChain
    <2>3. \A d \in DOMAIN us : d \in Nat /\ nx[d] \in Nat
      BY <2>1 DEF IsChain
    <2>. QED
      BY <2>1, <2>2, <2>3
  <1>4. \A x : x \in UsedBytes(nx, vs) <=> x \in UsedBytes(nx, us) \/ x \in b .. nx[b] - 1
    <2>. SUFFICES ASSUME NEW x
                  PROVE  x \in UsedBytes(nx, vs) <=> x \in UsedBytes(nx, us) \/ x \in b .. nx[b] - 1
      OBVIOUS
    <2>1. ASSUME x \in UsedBytes(nx, vs)
          PROVE  x \in UsedBytes(nx, us) \/ x \in b .. nx[b] - 1
      <3>1. PICK d \in DOMAIN us \ {HeapEnd} : vs[d] /\ d <= x /\ x < nx[d]
        BY <2>1, <1>1 DEF UsedBytes
      <3>2. x \in 0 .. HeapEnd - 1
        BY <2>1 DEF UsedBytes
      <3>3. CASE d = b
        BY <3>1, <3>2, <3>3, <1>3
      <3>4. CASE d # b
        BY <3>1, <3>2, <3>4 DEF UsedBytes
      <3>. QED
        BY <3>3, <3>4
    <2>2. ASSUME x \in UsedBytes(nx, us)
          PROVE  x \in UsedBytes(nx, vs)
      <3>1. PICK d \in DOMAIN us \ {HeapEnd} : us[d] /\ d <= x /\ x < nx[d]
        BY <2>2 DEF UsedBytes
      <3>2. vs[d]
        BY <3>1
      <3>. QED
        BY <3>1, <3>2, <2>2, <1>1 DEF UsedBytes
    <2>3. ASSUME x \in b .. nx[b] - 1
          PROVE  x \in UsedBytes(nx, vs)
      <3>1. x \in 0 .. HeapEnd - 1 /\ b <= x /\ x < nx[b]
        BY <2>3, <1>3
      <3>. QED
        BY <3>1, <1>1 DEF UsedBytes
    <2>. QED
      BY <2>1, <2>2, <2>3
  <1>5. \A x \in UsedBytes(nx, us) : x \notin b .. nx[b] - 1
    <2>. SUFFICES ASSUME NEW x \in UsedBytes(nx, us), x \in b .. nx[b] - 1
                  PROVE  FALSE
      OBVIOUS
    <2>1. PICK d \in DOMAIN us \ {HeapEnd} : us[d] /\ d <= x /\ x < nx[d]
      BY DEF UsedBytes
    <2>2. d # b /\ d \in Nat /\ nx[d] \in Nat /\ x \in Nat /\ b <= x /\ x < nx[b]
      BY <2>1, <1>3
    <2>3. (d <= b \/ d >= nx[b]) /\ (b <= d \/ b >= nx[d])
      BY <2>1 DEF IsChain
    <2>. QED
      BY <2>1, <2>2, <2>3, <1>3
  <1>6. IsFiniteSet(UsedBytes(nx, us))
    BY UsedTypes
  <1>. QED
    BY <1>2, <1>3, <1>4, <1>5, <1>6, Counted

\* The blocks that are joined, and the part that is cut off, are free: the count is right.
LEMMA MergedBytes ==
  ASSUME MemAssumption, NEW c, IsChain(c.next, c.prev, c.used),
         NEW b \in DOMAIN c.used \ {HeapEnd}, c.next[b] # HeapEnd,
         ~c.used[b], ~c.used[c.next[b]]
  PROVE  UsedBytes(Merged(c, b).next, Merged(c, b).used) = UsedBytes(c.next, c.used)
  <1>. DEFINE k == Merged(c, b)
              n == c.next[b]
  <1>1. /\ DOMAIN k.used = DOMAIN c.used \ {n} /\ n # b
        /\ \A d \in DOMAIN c.used \ {n} : k.used[d] = c.used[d]
        /\ \A d \in DOMAIN c.used \ {b, n} : k.next[d] = c.next[d]
    BY MergedFacts
  <1>. HIDE DEF k
  <1>2. \A x : (\E d \in DOMAIN k.used \ {HeapEnd} : k.used[d] /\ d <= x /\ x < k.next[d])
               <=> \E d \in DOMAIN c.used \ {HeapEnd} : c.used[d] /\ d <= x /\ x < c.next[d]
    <2>1. \A d \in DOMAIN k.used \ {HeapEnd} : k.used[d] =>
            d \in DOMAIN c.used \ {HeapEnd} /\ c.used[d] /\ k.next[d] = c.next[d]
      BY <1>1
    <2>2. \A d \in DOMAIN c.used \ {HeapEnd} : c.used[d] =>
            d \in DOMAIN k.used \ {HeapEnd} /\ k.used[d] /\ k.next[d] = c.next[d]
      BY <1>1
    <2>. QED
      BY <2>1, <2>2
  <1>3. UsedBytes(k.next, k.used) = UsedBytes(c.next, c.used)
    BY <1>2 DEF UsedBytes
  <1>. QED
    BY <1>3 DEF k

LEMMA CutBytes ==
  ASSUME MemAssumption, NEW c, IsChain(c.next, c.prev, c.used),
         NEW b \in DOMAIN c.used \ {HeapEnd}, NEW at \in Nat,
         b + StructMem < at, at + StructMem < c.next[b]
  PROVE  LET k == Cut(c, b, at) IN
         /\ ~c.used[b] => UsedBytes(k.next, k.used) = UsedBytes(c.next, c.used)
         /\ c.used[b] => Cardinality(UsedBytes(c.next, c.used))
                           = Cardinality(UsedBytes(k.next, k.used)) + (c.next[b] - at)
  <1>. DEFINE k == Cut(c, b, at)
              D == DOMAIN c.used
              n == c.next[b]
  <1>1. /\ at \notin D /\ at \in 1 .. HeapEnd - 1
        /\ DOMAIN k.used = D \cup {at}
        /\ k.next[b] = at /\ k.next[at] = n /\ ~k.used[at]
        /\ \A d \in D : k.used[d] = c.used[d]
        /\ \A d \in D \ {b} : k.next[d] = c.next[d]
    BY CutFacts
  <1>. HIDE DEF k
  <1>2. /\ HeapEnd \in Nat /\ StructMem \in Nat /\ b \in Nat /\ n \in 0 .. HeapEnd
        /\ at < n /\ b < at
        /\ \A d \in D : d \in Nat /\ c.next[d] \in Nat
    <2>1. HeapEnd \in Nat /\ StructMem \in Nat
      BY MemConstants
    <2>2. b \in Nat /\ n \in 0 .. HeapEnd
      BY <2>1 DEF IsChain
    <2>3. \A d \in D : d \in Nat /\ c.next[d] \in Nat
      BY <2>1 DEF IsChain
    <2>. QED
      BY <2>1, <2>2, <2>3
  <1>3. ASSUME ~c.used[b]
        PROVE  UsedBytes(k.next, k.used) = UsedBytes(c.next, c.used)
    <2>1. \A x : (\E d \in DOMAIN k.used \ {HeapEnd} : k.used[d] /\ d <= x /\ x < k.next[d])
                 <=> \E d \in D \ {HeapEnd} : c.used[d] /\ d <= x /\ x < c.next[d]
      <3>1. \A d \in DOMAIN k.used \ {HeapEnd} : k.used[d] =>
              d \in D \ {HeapEnd} /\ c.used[d] /\ k.next[d] = c.next[d]
        BY <1>1, <1>3
      <3>2. \A d \in D \ {HeapEnd} : c.used[d] =>
              d \in DOMAIN k.used \ {HeapEnd} /\ k.used[d] /\ k.next[d] = c.next[d]
        BY <1>1, <1>3
      <3>. QED
        BY <3>1, <3>2
    <2>. QED
      BY <2>1 DEF UsedBytes
  <1>4. ASSUME c.used[b]
        PROVE  Cardinality(UsedBytes(c.next, c.used))
                 = Cardinality(UsedBytes(k.next, k.used)) + (n - at)
    <2>1. \A x : x \in UsedBytes(c.next, c.used) <=>
                   x \in UsedBytes(k.next, k.used) \/ x \in at .. n - 1
      <3>. SUFFICES ASSUME NEW x
                    PROVE  x \in UsedBytes(c.next, c.used) <=>
                             x \in UsedBytes(k.next, k.used) \/ x \in at .. n - 1
        OBVIOUS
      <3>1. ASSUME x \in UsedBytes(c.next, c.used)
            PROVE  x \in UsedBytes(k.next, k.used) \/ x \in at .. n - 1
        <4>1. PICK d \in D \ {HeapEnd} : c.used[d] /\ d <= x /\ x < c.next[d]
          BY <3>1 DEF UsedBytes
        <4>2. x \in 0 .. HeapEnd - 1
          BY <3>1 DEF UsedBytes
        <4>3. CASE d = b /\ x >= at
          BY <4>1, <4>2, <4>3, <1>2
        <4>4. CASE d = b /\ x < at
          BY <4>1, <4>2, <4>4, <1>1 DEF UsedBytes
        <4>5. CASE d # b
          BY <4>1, <4>2, <4>5, <1>1 DEF UsedBytes
        <4>. QED
          BY <4>2, <4>3, <4>4, <4>5, <1>2
      <3>2. ASSUME x \in UsedBytes(k.next, k.used)
            PROVE  x \in UsedBytes(c.next, c.used)
        <4>1. PICK d \in (D \cup {at}) \ {HeapEnd} : k.used[d] /\ d <= x /\ x < k.next[d]
          BY <3>2, <1>1 DEF UsedBytes
        <4>2. x \in 0 .. HeapEnd - 1
          BY <3>2 DEF UsedBytes
        <4>3. d \in D \ {HeapEnd} /\ c.used[d]
          BY <4>1, <1>1
        <4>4. x < c.next[d]
          BY <4>1, <4>2, <4>3, <1>1, <1>2
        <4>. QED
          BY <4>1, <4>2, <4>3, <4>4 DEF UsedBytes
      <3>3. ASSUME x \in at .. n - 1
            PROVE  x \in UsedBytes(c.next, c.used)
        <4>1. x \in 0 .. HeapEnd - 1 /\ b <= x /\ x < n
          BY <3>3, <1>2
        <4>. QED
          BY <4>1, <1>4 DEF UsedBytes
      <3>. QED
        BY <3>1, <3>2, <3>3
    <2>2. \A x \in UsedBytes(k.next, k.used) : x \notin at .. n - 1
      <3>. SUFFICES ASSUME NEW x \in UsedBytes(k.next, k.used), x \in at .. n - 1
                    PROVE  FALSE
        OBVIOUS
      <3>1. PICK d \in (D \cup {at}) \ {HeapEnd} : k.used[d] /\ d <= x /\ x < k.next[d]
        BY <1>1 DEF UsedBytes
      <3>2. d \in D /\ d # HeapEnd /\ d \in Nat /\ x \in Nat /\ at <= x /\ x < n
        BY <3>1, <1>1, <1>2
      <3>3. d # b
        BY <3>1, <3>2, <1>1, <1>2
      <3>4. x < c.next[d] /\ c.next[d] \in Nat
        BY <3>1, <3>2, <3>3, <1>1, <1>2
      <3>5. (d <= b \/ d >= n) /\ (b <= d \/ b >= c.next[d])
        BY <3>2 DEF IsChain
      <3>. QED
        BY <3>1, <3>2, <3>3, <3>4, <3>5, <1>2
    <2>3. IsFiniteSet(UsedBytes(k.next, k.used))
      BY UsedTypes
    <2>. QED
      BY <2>1, <2>2, <2>3, <1>2, Counted
  <1>. QED
    BY <1>3, <1>4 DEF k

\* Two free blocks are joined: what does not depend on the rest of the chain.
LEMMA JoinedFacts ==
  ASSUME MemAssumption, NEW c, IsChain(c.next, c.prev, c.used),
         NEW b \in DOMAIN c.used, ~c.used[b], ~c.used[c.next[b]], FreeStart(c.used, c.lfree)
  PROVE  LET k == Merged(c, b) IN
         /\ b # HeapEnd /\ c.next[b] # HeapEnd
         /\ UsedBytes(k.next, k.used) = UsedBytes(c.next, c.used)
         /\ FreeStart(k.used, k.lfree)
         /\ IsLowest(c.used, c.lfree) => IsLowest(k.used, k.lfree)
  <1>. DEFINE k == Merged(c, b)
              n == c.next[b]
  <1>1. b # HeapEnd /\ n # HeapEnd
    BY DEF IsChain
  <1>2. UsedBytes(k.next, k.used) = UsedBytes(c.next, c.used)
    BY <1>1, MergedBytes
  <1>3. /\ n \in DOMAIN c.used \ {0, b, HeapEnd} /\ DOMAIN k.used = DOMAIN c.used \ {n}
        /\ \A d \in DOMAIN c.used \ {n} : k.used[d] = c.used[d]
        /\ k.lfree = IF c.lfree = n THEN b ELSE c.lfree
    BY <1>1, MergedFacts
  <1>. HIDE DEF k
  <1>4. FreeStart(k.used, k.lfree)
    BY <1>3 DEF FreeStart
  <1>5. ASSUME IsLowest(c.used, c.lfree)
        PROVE  IsLowest(k.used, k.lfree)
    <2>1. b < n
      <3>1. HeapEnd \in Nat /\ StructMem \in Nat
        BY MemConstants
      <3>2. b \in Nat /\ n \in Nat /\ n > b + StructMem
        BY <1>1, <3>1 DEF IsChain
      <3>. QED
        BY <3>1, <3>2
    <2>2. b \in Nat /\ n \in Nat
      BY MemConstants DEF IsChain
    <2>3. c.lfree <= b
      BY <1>5 DEF IsLowest
    <2>4. k.lfree = c.lfree
      BY <2>1, <2>2, <2>3, <1>3
    <2>. QED
      BY <2>4, <1>3, <1>5 DEF IsLowest
  <1>. QED
    BY <1>1, <1>2, <1>4, <1>5 DEF k

\* plug_holes() of a free block leaves no two free blocks that touch, counts nothing and
\* loses neither the start of the search nor that it is the lowest.
LEMMA PlugFacts ==
  ASSUME MemAssumption, NEW c, IsChain(c.next, c.prev, c.used),
         NEW b \in DOMAIN c.used, ~c.used[b],
         NoHolesBut(c.next, c.used, b), FreeStart(c.used, c.lfree)
  PROVE  LET k == PlugHoles(c, b) IN
         /\ IsChain(k.next, k.prev, k.used)
         /\ \A d \in DOMAIN k.used : k.used[d] \/ k.used[k.next[d]]
         /\ UsedBytes(k.next, k.used) = UsedBytes(c.next, c.used)
         /\ FreeStart(k.used, k.lfree)
         /\ IsLowest(c.used, c.lfree) => IsLowest(k.used, k.lfree)
  <1>. DEFINE m == MergedAfter(c, b)
              k == PlugHoles(c, b)
              n == c.next[b]
              p == m.prev[b]
  <1>1. HeapEnd \in Nat /\ StructMem \in Nat /\ b # HeapEnd
    BY MemConstants DEF IsChain
  <1>2. /\ IsChain(m.next, m.prev, m.used) /\ b \in DOMAIN m.used /\ ~m.used[b]
        /\ \A d \in DOMAIN m.used : m.used[d] \/ m.used[m.next[d]] \/ m.next[d] = b
        /\ UsedBytes(m.next, m.used) = UsedBytes(c.next, c.used)
        /\ FreeStart(m.used, m.lfree)
        /\ IsLowest(c.used, c.lfree) => IsLowest(m.used, m.lfree)
    <2>1. CASE c.used[n]
      <3>1. m = c
        BY <2>1 DEF MergedAfter
      <3>. HIDE DEF m
      <3>2. \A d \in DOMAIN c.used : c.used[d] \/ c.used[c.next[d]] \/ c.next[d] = b
        BY <2>1 DEF NoHolesBut
      <3>. QED
        BY <3>1, <3>2
    <2>2. CASE ~c.used[n]
      <3>1. m = Merged(c, b)
        BY <2>2 DEF MergedAfter
      <3>. HIDE DEF m
      <3>2. /\ n # HeapEnd
            /\ UsedBytes(m.next, m.used) = UsedBytes(c.next, c.used)
            /\ FreeStart(m.used, m.lfree)
            /\ IsLowest(c.used, c.lfree) => IsLowest(m.used, m.lfree)
        BY <2>2, <3>1, JoinedFacts
      <3>3. /\ n \in DOMAIN c.used \ {0, b, HeapEnd}
            /\ c.next[n] \in DOMAIN c.used /\ c.next[n] > n
            /\ DOMAIN m.used = DOMAIN c.used \ {n}
            /\ m.next[b] = c.next[n]
            /\ \A d \in DOMAIN c.used \ {n} : m.used[d] = c.used[d]
            /\ \A d \in DOMAIN c.used \ {b, n} : m.next[d] = c.next[d] /\ c.next[d] # n
            /\ IsChain(m.next, m.prev, m.used)
        BY <3>1, <3>2, <1>1, MergedFacts
      <3>4. c.next[n] # n /\ c.next[n] # b
        <4>1. b \in Nat /\ n \in Nat /\ c.next[n] \in Nat /\ n > b + StructMem
          BY <3>3, <1>1 DEF IsChain
        <4>. QED
          BY <4>1, <3>3, <1>1
      <3>5. \A d \in DOMAIN m.used : m.used[d] \/ m.used[m.next[d]] \/ m.next[d] = b
        <4>. SUFFICES ASSUME NEW d \in DOMAIN m.used
                      PROVE  m.used[d] \/ m.used[m.next[d]] \/ m.next[d] = b
          OBVIOUS
        <4>1. CASE d = b
          <5>1. c.used[n] \/ c.used[c.next[n]] \/ n = b \/ c.next[n] = b
            BY <3>3 DEF NoHolesBut
          <5>2. c.used[c.next[n]]
            BY <5>1, <2>2, <3>3, <3>4
          <5>. QED
            BY <4>1, <5>2, <3>3, <3>4
        <4>2. CASE d # b
          <5>1. d \in DOMAIN c.used \ {b, n}
            BY <4>2, <3>3
          <5>2. c.used[d] \/ c.used[c.next[d]] \/ c.next[d] = b
            BY <5>1 DEF NoHolesBut
          <5>3. c.next[d] \in DOMAIN c.used \ {n}
            <6>1. c.next[d] \in DOMAIN c.used
              BY <5>1 DEF IsChain
            <6>. QED
              BY <6>1, <5>1, <3>3
          <5>. QED
            BY <5>1, <5>2, <5>3, <3>3
        <4>. QED
          BY <4>1, <4>2
      <3>6. b \in DOMAIN m.used /\ ~m.used[b]
        BY <3>3
      <3>. QED
        BY <3>2, <3>3, <3>5, <3>6
    <2>. QED
      BY <2>1, <2>2
  <1>3. k = IF p # b /\ ~m.used[p] THEN Merged(m, p) ELSE m
    BY DEF PlugHoles
  <1>. HIDE DEF m, k
  <1>4. \A d \in DOMAIN m.used : m.next[d] = b => d = p /\ p # b
    <2>. SUFFICES ASSUME NEW d \in DOMAIN m.used, m.next[d] = b
                  PROVE  d = p /\ p # b
      OBVIOUS
    <2>1. d # HeapEnd
      BY <1>1, <1>2 DEF IsChain
    <2>2. d = p
      BY <2>1, <1>1, <1>2, LinkedBack
    <2>3. b > d + StructMem /\ d \in Nat
      BY <2>1, <1>1, <1>2 DEF IsChain
    <2>. QED
      BY <2>2, <2>3, <1>1
  <1>5. CASE p # b /\ ~m.used[p]
    <2>1. k = Merged(m, p)
      BY <1>3, <1>5
    <2>2. b # 0
      BY <1>5, <1>2 DEF IsChain
    <2>3. p \in DOMAIN m.used /\ m.next[p] = b
      BY <2>2, <1>1, <1>2 DEF IsChain
    <2>. HIDE DEF p
    <2>4. /\ p # HeapEnd
          /\ UsedBytes(k.next, k.used) = UsedBytes(m.next, m.used)
          /\ FreeStart(k.used, k.lfree)
          /\ IsLowest(m.used, m.lfree) => IsLowest(k.used, k.lfree)
      BY <2>1, <2>3, <1>2, <1>5, JoinedFacts
    <2>5. /\ m.next[b] \in DOMAIN m.used /\ m.next[b] > b
          /\ DOMAIN k.used = DOMAIN m.used \ {b}
          /\ k.next[p] = m.next[b]
          /\ \A d \in DOMAIN m.used \ {b} : k.used[d] = m.used[d]
          /\ \A d \in DOMAIN m.used \ {p, b} : k.next[d] = m.next[d] /\ m.next[d] # b
          /\ IsChain(k.next, k.prev, k.used)
      <3>1. p \in DOMAIN m.used \ {HeapEnd} /\ m.next[p] # HeapEnd
        BY <2>3, <2>4, <1>1
      <3>. QED
        BY <2>1, <2>3, <3>1, <1>2, MergedFacts
    <2>6. m.next[b] # b
      <3>1. b \in Nat /\ m.next[b] \in Nat
        BY <1>1, <1>2 DEF IsChain
      <3>. QED
        BY <3>1, <2>5
    <2>7. \A d \in DOMAIN k.used : k.used[d] \/ k.used[k.next[d]]
      <3>. SUFFICES ASSUME NEW d \in DOMAIN k.used
                    PROVE  k.used[d] \/ k.used[k.next[d]]
        OBVIOUS
      <3>1. CASE d = p
        <4>1. m.used[m.next[b]]
          BY <2>6, <1>2
        <4>. QED
          BY <3>1, <4>1, <2>5, <2>6
      <3>2. CASE d # p
        <4>1. d \in DOMAIN m.used \ {p, b}
          BY <3>2, <2>5
        <4>2. m.next[d] \in DOMAIN m.used \ {b}
          <5>1. m.next[d] \in DOMAIN m.used
            BY <4>1, <1>2 DEF IsChain
          <5>. QED
            BY <5>1, <4>1, <2>5
        <4>3. m.used[d] \/ m.used[m.next[d]]
          BY <4>1, <4>2, <1>2
        <4>. QED
          BY <4>1, <4>2, <4>3, <2>5
      <3>. QED
        BY <3>1, <3>2
    <2>. QED
      BY <2>4, <2>5, <2>7, <1>2 DEF k
  <1>6. CASE p = b \/ m.used[p]
    <2>1. k = m
      BY <1>3, <1>6
    <2>2. \A d \in DOMAIN m.used : m.used[d] \/ m.used[m.next[d]]
      BY <1>2, <1>4, <1>6
    <2>. QED
      BY <2>1, <2>2, <1>2 DEF k
  <1>. QED
    BY <1>5, <1>6

\* What the chain becomes: the invariant of a state after a step.
ChainInv(k) ==
  /\ IsChain(k.next, k.prev, k.used)
  /\ \A d \in DOMAIN k.used : k.used[d] \/ k.used[k.next[d]]
  /\ FreeStart(k.used, k.lfree)

LEMMA ChainKept ==
  ASSUME NEW k, ChainInv(k), Becomes(k),
         shrunk' \in BOOLEAN, shrunk' \/ IsLowest(k.used, k.lfree),
         usedMem' = Cardinality(UsedBytes(k.next, k.used)),
         usedMem' <= maxMem', maxMem' \in 0 .. HeapEnd
  PROVE  MemInv'
  <1>1. next' = k.next /\ prev' = k.prev /\ used' = k.used /\ lfree' = k.lfree
    BY DEF Becomes
  <1>2. IsChain(next, prev, used)'
    BY <1>1 DEF ChainInv, IsChain, HeapEnd
  <1>3. NoHoles'
    BY <1>1 DEF ChainInv, NoHoles
  <1>4. FreeStart(used, lfree)' /\ (shrunk \/ IsLowest(used, lfree))'
    BY <1>1 DEF ChainInv, FreeStart, IsLowest, HeapEnd
  <1>5. (usedMem = Cardinality(UsedBytes(next, used)))'
    BY <1>1 DEF UsedBytes, HeapEnd
  <1>. QED
    BY <1>2, <1>3, <1>4, <1>5 DEF MemInv, HeapEnd

LEMMA MemInit1 ==
  ASSUME MemAssumption, MemInit
  PROVE  MemInv
  <1>1. HeapEnd \in Nat \ {0} /\ StructMem \in Nat \ {0} /\ HeapEnd > 0 + StructMem
    <2>1. HeapEnd \in Nat \ {0} /\ StructMem \in Nat \ {0} /\ MemSize \in Nat \ {0}
          /\ HeapEnd = MemSize + StructMem
      BY MemConstants
    <2>. QED
      BY <2>1
  <1>2. /\ DOMAIN used = {0, HeapEnd} /\ used \in [{0, HeapEnd} -> BOOLEAN]
        /\ next \in [{0, HeapEnd} -> 0 .. HeapEnd] /\ prev \in [{0, HeapEnd} -> 0 .. HeapEnd]
        /\ next[0] = HeapEnd /\ next[HeapEnd] = HeapEnd /\ prev[0] = 0
        /\ ~used[0] /\ used[HeapEnd]
    <2>1. /\ next = [b \in {0, HeapEnd} |-> HeapEnd] /\ prev = [b \in {0, HeapEnd} |-> b]
          /\ used = [b \in {0, HeapEnd} |-> b = HeapEnd]
      BY DEF MemInit
    <2>2. 0 \in 0 .. HeapEnd /\ HeapEnd \in 0 .. HeapEnd /\ 0 # HeapEnd
      BY <1>1
    <2>3. /\ next \in [{0, HeapEnd} -> 0 .. HeapEnd] /\ prev \in [{0, HeapEnd} -> 0 .. HeapEnd]
          /\ next[0] = HeapEnd /\ next[HeapEnd] = HeapEnd /\ prev[0] = 0
      BY <2>1, <2>2
    <2>4. DOMAIN used = {0, HeapEnd} /\ used \in [{0, HeapEnd} -> BOOLEAN]
      BY <2>1
    <2>5. ~used[0] /\ used[HeapEnd]
      BY <2>1, <2>2
    <2>. QED
      BY <2>3, <2>4, <2>5
  <1>3. IsChain(next, prev, used)
    BY <1>1, <1>2 DEF IsChain
  <1>4. NoHoles /\ FreeStart(used, lfree) /\ IsLowest(used, lfree)
    BY <1>1, <1>2 DEF NoHoles, FreeStart, IsLowest, MemInit
  <1>5. Cardinality(UsedBytes(next, used)) = 0
    <2>1. UsedBytes(next, used) = {}
      BY <1>2 DEF UsedBytes
    <2>. QED
      BY <2>1, FS_EmptySet
  <1>. QED
    <2>1. usedMem = 0 /\ maxMem = 0 /\ shrunk = FALSE
      BY DEF MemInit
    <2>2. usedMem <= maxMem /\ maxMem \in 0 .. HeapEnd
      BY <2>1, <1>1
    <2>3. usedMem = Cardinality(UsedBytes(next, used))
      BY <2>1, <1>5
    <2>4. shrunk \in BOOLEAN
      BY <2>1
    <2>. QED
      BY <2>2, <2>3, <2>4, <1>3, <1>4 DEF MemInv

\* The chain of a state that MemInv holds of.
LEMMA ChainFacts ==
  ASSUME MemAssumption, MemInv
  PROVE  /\ HeapEnd \in Nat /\ StructMem \in Nat
         /\ IsChain(next, prev, used) /\ NoHoles
         /\ DOMAIN used \subseteq Nat /\ next[HeapEnd] = HeapEnd /\ used[HeapEnd]
         /\ \A b \in DOMAIN used : next[b] \in DOMAIN used /\ next[b] \in Nat
         /\ lfree \in DOMAIN used
         /\ usedMem \in Nat /\ maxMem \in 0 .. HeapEnd /\ usedMem <= maxMem
         /\ usedMem = Cardinality(UsedBytes(next, used))
  <1>1. HeapEnd \in Nat /\ StructMem \in Nat
    BY MemConstants
  <1>2. IsChain(next, prev, used)
    BY DEF MemInv
  <1>3. /\ DOMAIN used \subseteq Nat /\ next[HeapEnd] = HeapEnd
        /\ used[HeapEnd] /\ HeapEnd \in DOMAIN used
    BY <1>1, <1>2 DEF IsChain
  <1>4. \A b \in DOMAIN used : next[b] \in DOMAIN used /\ next[b] \in Nat
    BY <1>1, <1>2, <1>3 DEF IsChain
  <1>5. lfree \in DOMAIN used
    BY DEF MemInv, FreeStart
  <1>6. usedMem = Cardinality(UsedBytes(next, used)) /\ usedMem \in Nat
    BY <1>1, UsedTypes DEF MemInv
  <1>. QED
    BY <1>1, <1>2, <1>3, <1>4, <1>5, <1>6 DEF MemInv

LEMMA MallocKeeps ==
  ASSUME MemAssumption, MemInv, NEW asked \in Wanted, Malloc(asked)
  PROVE  MemInv'
  <1>. DEFINE size == IF asked < MinSize THEN MinSize ELSE asked
  <1>1. /\ size \in Nat \ {0} /\ MinSize \in Nat \ {0} /\ MemSize \in Nat \ {0}
        /\ StructMem \in Nat \ {0} /\ HeapEnd \in Nat /\ HeapEnd = MemSize + StructMem
    BY MemConstants
  <1>. HIDE DEF size
  <1>2. PICK b \in DOMAIN used :
          /\ Fits(b, size)
          /\ LET c     == IF Room(b) >= size + StructMem + MinSize
                          THEN Cut(Chain, b, b + StructMem + size) ELSE Chain
                 inUse == [c.used EXCEPT ![b] = TRUE]
                 open  == {d \in DOMAIN inUse : d >= b /\ (~inUse[d] \/ d = HeapEnd)}
             IN /\ Becomes([c EXCEPT !.used = inUse,
                              !.lfree = IF b # lfree THEN @
                                        ELSE CHOOSE d \in open : \A e \in open : d <= e])
                /\ usedMem' = usedMem + c.next[b] - b
                /\ maxMem' = IF maxMem < usedMem' THEN usedMem' ELSE maxMem
          /\ shrunk' = shrunk
    BY DEF Malloc, size
  <1>. DEFINE c     == IF Room(b) >= size + StructMem + MinSize
                       THEN Cut(Chain, b, b + StructMem + size) ELSE Chain
              inUse == [c.used EXCEPT ![b] = TRUE]
              open  == {d \in DOMAIN inUse : d >= b /\ (~inUse[d] \/ d = HeapEnd)}
              first == CHOOSE d \in open : \A e \in open : d <= e
              lf    == IF b # lfree THEN c.lfree ELSE first
              k     == [c EXCEPT !.used = inUse, !.lfree = lf]
  <1>3. /\ Becomes(k) /\ usedMem' = usedMem + c.next[b] - b
        /\ maxMem' = IF maxMem < usedMem' THEN usedMem' ELSE maxMem
    BY <1>2
  <1>4. /\ IsChain(next, prev, used) /\ NoHoles
        /\ DOMAIN used \subseteq Nat /\ next[HeapEnd] = HeapEnd /\ used[HeapEnd]
        /\ \A d \in DOMAIN used : next[d] \in DOMAIN used /\ next[d] \in Nat
        /\ lfree \in DOMAIN used
        /\ usedMem \in Nat /\ maxMem \in 0 .. HeapEnd /\ usedMem <= maxMem
        /\ usedMem = Cardinality(UsedBytes(next, used))
    BY ChainFacts
  <1>5. ~used[b] /\ b # HeapEnd /\ b \in Nat /\ b >= lfree
    BY <1>2, <1>4 DEF Fits
  <1>6. Chain.next = next /\ Chain.prev = prev /\ Chain.used = used /\ Chain.lfree = lfree
    BY DEF Chain
  <1>7. /\ c.lfree = lfree /\ DOMAIN used \subseteq DOMAIN c.used
        /\ \A d \in DOMAIN used : c.used[d] = used[d]
        /\ IsChain(c.next, c.prev, c.used)
        /\ \A d \in DOMAIN c.used : c.used[d] \/ c.used[c.next[d]] \/ d = b \/ c.next[d] = b
        /\ \A d \in DOMAIN c.used \ DOMAIN used : d > b
        /\ UsedBytes(c.next, c.used) = UsedBytes(next, used)
        /\ k.next = c.next /\ k.prev = c.prev /\ k.used = inUse /\ k.lfree = lf
    <2>1. CASE Room(b) >= size + StructMem + MinSize
      <3>. DEFINE at == b + StructMem + size
      <3>1. c = Cut(Chain, b, at)
        BY <2>1
      <3>2. at \in Nat /\ b + StructMem < at /\ at + StructMem < next[b]
        <4>1. next[b] - b - StructMem >= size + StructMem + MinSize /\ next[b] \in Nat
          BY <2>1, <1>4 DEF Room
        <4>. QED
          BY <4>1, <1>1, <1>5
      <3>. HIDE DEF at, c
      <3>3. /\ at \notin DOMAIN used /\ DOMAIN c.used = DOMAIN used \cup {at}
            /\ c.next[b] = at /\ c.next[at] = next[b] /\ ~c.used[at]
            /\ \A d \in DOMAIN used : c.used[d] = used[d]
            /\ \A d \in DOMAIN used \ {b} : c.next[d] = next[d]
            /\ IsChain(c.next, c.prev, c.used) /\ c.lfree = lfree
        BY <3>1, <3>2, <1>4, <1>5, <1>6, CutFacts
      <3>4. UsedBytes(c.next, c.used) = UsedBytes(next, used)
        BY <3>1, <3>2, <1>4, <1>5, <1>6, CutBytes
      <3>5. \A d \in DOMAIN c.used : c.used[d] \/ c.used[c.next[d]] \/ d = b \/ c.next[d] = b
        <4>1. \A d \in DOMAIN used \ {b} : used[d] \/ used[next[d]]
          BY <1>4 DEF NoHoles
        <4>2. used[next[b]]
          BY <1>4, <1>5 DEF NoHoles
        <4>. QED
          BY <4>1, <4>2, <3>3, <1>4
      <3>6. at > b
        BY <3>2, <1>1, <1>5
      <3>7. c = [next |-> c.next, prev |-> c.prev, used |-> c.used, lfree |-> c.lfree]
        BY <3>1 DEF Cut
      <3>8. k.next = c.next /\ k.prev = c.prev /\ k.used = inUse /\ k.lfree = lf
        <4>. HIDE DEF inUse, lf
        <4>. QED
          BY <3>7
      <3>. QED
        BY <3>3, <3>4, <3>5, <3>6, <3>8
    <2>2. CASE ~(Room(b) >= size + StructMem + MinSize)
      <3>1. c = Chain
        BY <2>2
      <3>. HIDE DEF c
      <3>2. k.next = c.next /\ k.prev = c.prev /\ k.used = inUse /\ k.lfree = lf
        <4>. HIDE DEF inUse, lf
        <4>1. c = [next |-> next, prev |-> prev, used |-> used, lfree |-> lfree]
          BY <3>1 DEF Chain
        <4>. QED
          BY <4>1
      <3>3. \A d \in DOMAIN used : used[d] \/ used[next[d]]
        BY <1>4 DEF NoHoles
      <3>4. /\ c.next = next /\ c.prev = prev /\ c.used = used /\ c.lfree = lfree
        BY <3>1, <1>6
      <3>. QED
        BY <3>2, <3>3, <3>4, <1>4
    <2>. QED
      BY <2>1, <2>2
  <1>. HIDE DEF c
  <1>8. /\ inUse \in [DOMAIN c.used -> BOOLEAN] /\ inUse[b] /\ DOMAIN inUse = DOMAIN c.used
        /\ \A d \in DOMAIN c.used \ {b} : inUse[d] = c.used[d]
        /\ b \in DOMAIN c.used /\ ~c.used[b]
    BY <1>5, <1>7 DEF IsChain
  <1>. HIDE DEF inUse
  <1>9. /\ IsChain(c.next, c.prev, inUse)
        /\ Cardinality(UsedBytes(c.next, inUse)) = usedMem + (c.next[b] - b)
    <2>1. b \in DOMAIN c.used \ {HeapEnd}
      BY <1>5, <1>8
    <2>. QED
      BY <2>1, <1>4, <1>7, <1>8, MarkedFacts
  <1>10. \A d \in DOMAIN inUse : inUse[d] \/ inUse[c.next[d]]
    <2>1. \A d \in DOMAIN c.used : c.next[d] \in DOMAIN c.used
      BY <1>7 DEF IsChain
    <2>. QED
      BY <2>1, <1>7, <1>8
  <1>11. FreeStart(inUse, lf) /\ (IsLowest(used, lfree) => IsLowest(inUse, lf))
    <2>1. DOMAIN c.used \subseteq Nat /\ HeapEnd \in DOMAIN c.used
      BY <1>1, <1>7 DEF IsChain
    <2>2. FreeStart(used, lfree)
      BY DEF MemInv
    <2>3. CASE b # lfree
      <3>1. lf = lfree
        BY <2>3, <1>7
      <3>2. FreeStart(inUse, lfree)
        BY <2>2, <2>3, <1>7, <1>8 DEF FreeStart
      <3>3. ASSUME IsLowest(used, lfree), NEW d \in DOMAIN inUse, ~inUse[d]
            PROVE  lfree <= d
        <4>1. CASE d \in DOMAIN used
          BY <4>1, <3>3, <1>7, <1>8 DEF IsLowest
        <4>2. CASE d \notin DOMAIN used
          <5>1. d > b /\ d \in Nat /\ lfree \in Nat
            BY <4>2, <2>1, <1>4, <1>7, <1>8
          <5>. QED
            BY <5>1, <1>5
        <4>. QED
          BY <4>1, <4>2
      <3>. QED
        BY <3>1, <3>2, <3>3 DEF IsLowest
    <2>4. CASE b = lfree
      <3>1. lf = first
        BY <2>4
      <3>2. HeapEnd \in open /\ open \subseteq Nat
        BY <2>1, <1>1, <1>5, <1>7, <1>8 DEF IsChain
      <3>3. \E d \in open : \A e \in open : d <= e
        <4>. HIDE DEF open
        <4>. QED
          BY <3>2, LeastNumber
      <3>4. first \in open /\ \A e \in open : first <= e
        <4>. HIDE DEF open
        <4>. QED
          BY <3>3
      <3>. HIDE DEF first
      <3>5. FreeStart(inUse, first)
        BY <3>4 DEF FreeStart
      <3>6. ASSUME IsLowest(used, lfree), NEW d \in DOMAIN inUse, ~inUse[d]
            PROVE  first <= d
        <4>1. d >= b
          <5>1. CASE d \in DOMAIN used
            <6>1. lfree <= d
              BY <5>1, <3>6, <1>7, <1>8 DEF IsLowest
            <6>. QED
              BY <6>1, <2>4
          <5>2. CASE d \notin DOMAIN used
            <6>1. d > b /\ d \in Nat
              BY <5>2, <2>1, <1>7, <1>8
            <6>. QED
              BY <6>1, <1>5
          <5>. QED
            BY <5>1, <5>2
        <4>2. d \in open
          BY <4>1, <3>6
        <4>. QED
          BY <4>2, <3>4
      <3>. QED
        BY <3>1, <3>5, <3>6 DEF IsLowest
    <2>. QED
      BY <2>3, <2>4
  <1>. HIDE DEF lf, k
  <1>14. ChainInv(k)
    BY <1>9, <1>10, <1>11, <1>7 DEF ChainInv
  <1>15. shrunk' \in BOOLEAN /\ (shrunk' \/ IsLowest(k.used, k.lfree))
    BY <1>2, <1>11, <1>7 DEF MemInv
  <1>16. usedMem' = Cardinality(UsedBytes(k.next, k.used))
    <2>1. c.next[b] \in Nat
      BY <1>1, <1>7, <1>8 DEF IsChain
    <2>. QED
      BY <2>1, <1>3, <1>4, <1>5, <1>9, <1>7
  <1>17. usedMem' <= maxMem' /\ maxMem' \in 0 .. HeapEnd
    <2>1. usedMem' \in 0 .. HeapEnd
      BY <1>16, UsedTypes
    <2>. QED
      BY <2>1, <1>1, <1>3, <1>4
  <1>. QED
    BY <1>3, <1>14, <1>15, <1>16, <1>17, ChainKept

LEMMA ShrinkKeeps ==
  ASSUME MemAssumption, MemInv, NEW newsize \in Wanted, NEW b \in DOMAIN used, Shrink(b, newsize)
  PROVE  MemInv'
  <1>. DEFINE at == b + StructMem + newsize
              c  == Cut(Chain, b, at)
              k  == PlugHoles(c, at)
  <1>1. /\ newsize \in Nat \ {0} /\ MinSize \in Nat \ {0}
        /\ StructMem \in Nat \ {0} /\ HeapEnd \in Nat
    BY MemConstants
  <1>2. /\ b # HeapEnd /\ used[b] /\ newsize + StructMem + MinSize < Room(b)
        /\ Becomes(k) /\ usedMem' = usedMem - (Room(b) - newsize)
        /\ shrunk' = TRUE /\ maxMem' = maxMem
    BY DEF Shrink
  <1>3. /\ IsChain(next, prev, used) /\ NoHoles
        /\ DOMAIN used \subseteq Nat
        /\ \A d \in DOMAIN used : next[d] \in DOMAIN used /\ next[d] \in Nat
        /\ lfree \in DOMAIN used
        /\ usedMem \in Nat /\ maxMem \in 0 .. HeapEnd /\ usedMem <= maxMem
        /\ usedMem = Cardinality(UsedBytes(next, used))
    BY ChainFacts
  <1>4. Chain.next = next /\ Chain.prev = prev /\ Chain.used = used /\ Chain.lfree = lfree
    BY DEF Chain
  <1>5. /\ at \in Nat /\ b + StructMem < at /\ at + StructMem < next[b]
        /\ Room(b) - newsize = next[b] - at /\ b \in Nat /\ next[b] \in Nat
    <2>1. b \in Nat /\ next[b] \in Nat
      BY <1>3
    <2>. QED
      BY <2>1, <1>1, <1>2 DEF Room
  <1>. HIDE DEF at, c, k
  <1>6. /\ at \notin DOMAIN used /\ DOMAIN c.used = DOMAIN used \cup {at}
        /\ c.next[b] = at /\ c.next[at] = next[b] /\ ~c.used[at]
        /\ \A d \in DOMAIN used : c.used[d] = used[d]
        /\ \A d \in DOMAIN used \ {b} : c.next[d] = next[d]
        /\ IsChain(c.next, c.prev, c.used) /\ c.lfree = lfree
    BY <1>2, <1>3, <1>4, <1>5, CutFacts DEF c
  <1>7. Cardinality(UsedBytes(next, used))
          = Cardinality(UsedBytes(c.next, c.used)) + (next[b] - at)
    BY <1>2, <1>3, <1>4, <1>5, CutBytes DEF c
  <1>8. NoHolesBut(c.next, c.used, at)
    <2>1. \A d \in DOMAIN used : used[d] \/ used[next[d]]
      BY <1>3 DEF NoHoles
    <2>2. \A d \in DOMAIN used : c.used[d] \/ c.used[c.next[d]]
      BY <2>1, <1>2, <1>3, <1>6
    <2>. QED
      BY <2>2, <1>6 DEF NoHolesBut
  <1>9. FreeStart(c.used, c.lfree)
    <2>1. FreeStart(used, lfree)
      BY DEF MemInv
    <2>. QED
      BY <2>1, <1>6 DEF FreeStart
  <1>10. /\ ChainInv(k) /\ UsedBytes(k.next, k.used) = UsedBytes(c.next, c.used)
    <2>1. at \in DOMAIN c.used
      BY <1>6
    <2>. QED
      BY <2>1, <1>6, <1>8, <1>9, PlugFacts DEF k, ChainInv
  <1>11. usedMem' = Cardinality(UsedBytes(k.next, k.used)) /\ usedMem' <= maxMem'
    <2>1. Cardinality(UsedBytes(c.next, c.used)) \in 0 .. HeapEnd
      BY UsedTypes
    <2>2. usedMem' = usedMem - (next[b] - at)
      BY <1>2, <1>5
    <2>3. usedMem = Cardinality(UsedBytes(c.next, c.used)) + (next[b] - at)
      BY <1>3, <1>7
    <2>4. usedMem' = Cardinality(UsedBytes(c.next, c.used)) /\ usedMem' <= usedMem
      BY <2>1, <2>2, <2>3, <1>1, <1>5
    <2>5. usedMem' \in Nat
      BY <2>1, <2>4, <1>1
    <2>6. usedMem' <= maxMem'
      BY <2>4, <2>5, <1>1, <1>2, <1>3
    <2>. QED
      BY <2>4, <2>6, <1>10
  <1>. QED
    BY <1>2, <1>3, <1>10, <1>11, ChainKept

LEMMA FreeKeeps ==
  ASSUME MemAssumption, MemInv, NEW b \in DOMAIN used, Free(b)
  PROVE  MemInv'
  <1>. DEFINE us == With(used, b, FALSE)
              lf == IF b < lfree THEN b ELSE lfree
              c  == [Chain EXCEPT !.used = With(@, b, FALSE), !.lfree = IF b < @ THEN b ELSE @]
              k  == PlugHoles(c, b)
  <1>1. HeapEnd \in Nat
    BY MemConstants
  <1>2. /\ b # HeapEnd /\ used[b]
        /\ Becomes(k) /\ usedMem' = usedMem - (next[b] - b)
        /\ shrunk' = shrunk /\ maxMem' = maxMem
    BY DEF Free
  <1>3. /\ IsChain(next, prev, used) /\ NoHoles
        /\ DOMAIN used \subseteq Nat
        /\ \A d \in DOMAIN used : next[d] \in DOMAIN used /\ next[d] \in Nat
        /\ lfree \in DOMAIN used
        /\ usedMem \in Nat /\ maxMem \in 0 .. HeapEnd /\ usedMem <= maxMem
        /\ usedMem = Cardinality(UsedBytes(next, used))
    BY ChainFacts
  <1>4. c.next = next /\ c.prev = prev /\ c.used = us /\ c.lfree = lf
    BY DEF Chain
  <1>5. /\ us \in [DOMAIN used -> BOOLEAN] /\ DOMAIN us = DOMAIN used /\ ~us[b]
        /\ \A d \in DOMAIN used \ {b} : us[d] = used[d]
    <2>1. used \in [DOMAIN used -> BOOLEAN]
      BY <1>3 DEF IsChain
    <2>2. DOMAIN used \cup {b} = DOMAIN used
      OBVIOUS
    <2>. QED
      BY <2>1, <2>2 DEF With
  <1>. HIDE DEF us, lf, c, k
  <1>6. IsChain(next, prev, us)
    <2>1. us[HeapEnd]
      BY <1>2, <1>3, <1>5 DEF IsChain
    <2>. QED
      BY <2>1, <1>3, <1>5 DEF IsChain
  <1>7. Cardinality(UsedBytes(next, used)) = Cardinality(UsedBytes(next, us)) + (next[b] - b)
    <2>1. b \in DOMAIN us \ {HeapEnd} /\ used \in [DOMAIN us -> BOOLEAN] /\ used[b]
          /\ \A d \in DOMAIN us \ {b} : used[d] = us[d]
      BY <1>2, <1>3, <1>5 DEF IsChain
    <2>. QED
      BY <2>1, <1>5, <1>6, MarkedFacts
  <1>8. NoHolesBut(next, us, b)
    <2>1. \A d \in DOMAIN used : used[d] \/ used[next[d]]
      BY <1>3 DEF NoHoles
    <2>. QED
      BY <2>1, <1>3, <1>5 DEF NoHolesBut
  <1>9. FreeStart(us, lf) /\ (IsLowest(used, lfree) => IsLowest(us, lf))
    <2>1. FreeStart(used, lfree) /\ b \in Nat /\ lfree \in Nat
      BY <1>3 DEF MemInv
    <2>2. FreeStart(us, lf)
      BY <2>1, <1>2, <1>5 DEF FreeStart, lf
    <2>3. ASSUME IsLowest(used, lfree), NEW d \in DOMAIN us, ~us[d]
          PROVE  lf <= d
      <3>1. CASE d = b
        BY <3>1, <2>1 DEF lf
      <3>2. CASE d # b
        <4>1. lfree <= d /\ d \in Nat
          BY <3>2, <2>3, <1>3, <1>5 DEF IsLowest
        <4>. QED
          BY <4>1, <2>1 DEF lf
      <3>. QED
        BY <3>1, <3>2
    <2>. QED
      BY <2>2, <2>3 DEF IsLowest
  <1>10. /\ ChainInv(k) /\ UsedBytes(k.next, k.used) = UsedBytes(next, us)
         /\ IsLowest(us, lf) => IsLowest(k.used, k.lfree)
    <2>1. b \in DOMAIN c.used
      BY <1>4, <1>5
    <2>. QED
      BY <2>1, <1>4, <1>5, <1>6, <1>8, <1>9, PlugFacts DEF k, ChainInv
  <1>11. usedMem' = Cardinality(UsedBytes(k.next, k.used)) /\ usedMem' <= maxMem'
    <2>1. Cardinality(UsedBytes(next, us)) \in 0 .. HeapEnd
      BY UsedTypes
    <2>2. next[b] > b /\ next[b] \in Nat /\ b \in Nat
      <3>1. next[b] > b + StructMem /\ StructMem \in Nat
        BY <1>2, <1>3, MemConstants DEF IsChain
      <3>. QED
        BY <3>1, <1>3
    <2>3. usedMem' = Cardinality(UsedBytes(next, us)) /\ usedMem' <= usedMem
      BY <2>1, <2>2, <1>1, <1>2, <1>3, <1>7
    <2>5. usedMem' \in Nat
      BY <2>1, <2>3, <1>1
    <2>6. usedMem' <= maxMem'
      BY <2>3, <2>5, <1>1, <1>2, <1>3
    <2>. QED
      BY <2>3, <2>6, <1>10
  <1>12. shrunk' \in BOOLEAN /\ (shrunk' \/ IsLowest(k.used, k.lfree))
    BY <1>2, <1>9, <1>10 DEF MemInv
  <1>. QED
    BY <1>2, <1>3, <1>10, <1>11, <1>12, ChainKept

LEMMA MemStep ==
  ASSUME MemAssumption, MemInv, [MemNext]_memVars
  PROVE  MemInv'
  <1>1. CASE \E asked \in Wanted : Malloc(asked)
    BY <1>1, MallocKeeps
  <1>2. CASE \E asked \in Wanted : \E b \in DOMAIN used : Shrink(b, asked)
    BY <1>2, ShrinkKeeps
  <1>3. CASE \E b \in DOMAIN used : Free(b)
    BY <1>3, FreeKeeps
  <1>4. CASE UNCHANGED memVars
    <2>1. /\ next' = next /\ prev' = prev /\ used' = used /\ lfree' = lfree
          /\ usedMem' = usedMem /\ maxMem' = maxMem /\ shrunk' = shrunk
      BY <1>4 DEF memVars
    <2>. QED
      BY <2>1 DEF MemInv, NoHoles, IsChain, FreeStart, IsLowest, UsedBytes, HeapEnd
  <1>. QED
    BY <1>1, <1>2, <1>3, <1>4 DEF MemNext

LEMMA MemImplied ==
  ASSUME MemAssumption, MemInv
  PROVE  MemTypeOK /\ MemRight
  <1>1. /\ HeapEnd \in Nat /\ StructMem \in Nat /\ IsChain(next, prev, used) /\ NoHoles
        /\ usedMem \in Nat /\ maxMem \in 0 .. HeapEnd /\ usedMem <= maxMem
        /\ usedMem = Cardinality(UsedBytes(next, used))
    BY ChainFacts
  <1>2. MemTypeOK
    <2>1. usedMem \in 0 .. HeapEnd
      BY <1>1, UsedTypes
    <2>2. shrunk \in BOOLEAN
      BY DEF MemInv
    <2>. QED
      BY <2>1, <2>2, <1>1 DEF MemTypeOK, IsChain
  <1>3. Chained
    <2>1. 0 \in DOMAIN used /\ used[HeapEnd]
      BY <1>1 DEF IsChain
    <2>2. ASSUME NEW b \in DOMAIN used \ {HeapEnd}
          PROVE  /\ next[b] \in DOMAIN used /\ next[b] > b + StructMem
                 /\ next[b] = HeapEnd \/ prev[next[b]] = b
                 /\ \A d \in DOMAIN used : d <= b \/ d >= next[b]
      <3>1. next[b] = HeapEnd \/ prev[next[b]] = b
        BY <1>1, LinkedBack
      <3>. QED
        BY <3>1, <1>1 DEF IsChain
    <2>. QED
      BY <2>1, <2>2 DEF Chained
  <1>4. LowestFree
    BY DEF LowestFree, MemInv, FreeStart, IsLowest
  <1>5. UsedCounted
    BY <1>1 DEF UsedCounted, UsedBytes
  <1>. QED
    BY <1>1, <1>2, <1>3, <1>4, <1>5 DEF MemRight

\* rt_malloc, rt_realloc and rt_free keep the system heap one chain of blocks from its
\* start to its end with no two free ones that touch, start every search at the lowest
\* free block unless rt_realloc has cut one off, and count what is in use, for every size
\* of the heap, of a header and of a request.
THEOREM MemCorrect ==
  ASSUME MemAssumption
  PROVE  MemSpec => [](MemTypeOK /\ MemRight)
  <1>1. MemInit => MemInv
    BY MemInit1
  <1>2. MemInv /\ [MemNext]_memVars => MemInv'
    BY MemStep
  <1>3. MemInv => MemTypeOK /\ MemRight
    BY MemImplied
  <1>. QED
    BY <1>1, <1>2, <1>3, PTL DEF MemSpec
===============================================================================
