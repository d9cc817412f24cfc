---------------------------- MODULE FrStreamBuffer ---------------------------
(***************************************************************************)
(* A FreeRTOS stream or message buffer, freertos_test/FreeRTOS/            *)
(* stream_buffer.c: one writer and one reader, tasks or interrupt          *)
(* handlers, share a ring of bytes without a lock; each sleeps by a task   *)
(* notification (FrNotify) and leaves its handle for the other to wake it. *)
(*                                                                         *)
(* Atomicity.  A critical section is one step, and so is a read or a write *)
(* of a field the other side uses: the bytes of the ring are seen by the   *)
(* other side when xHead or xTail moves.  A handler's call is one step.    *)
(* vTaskSuspendAll() .. xTaskResumeAll() keeps the other side, if it is a  *)
(* task, out: the macros between them are one step.                        *)
(***************************************************************************)
EXTENDS FrNotify

CONSTANTS
  Writer, Reader, NoTask,
  Header,      \* sbBYTES_TO_STORE_MESSAGE_LENGTH
  Sent,        \* what is sent: sequences of bytes
  Rooms,       \* sizes of the reader's memory
  Uses         \* how buffers are created and used: [length of the ring, whether it is
               \* for messages, trigger level, isr : the side that is a handler]

VARIABLES
  use,
  pucBuffer, xHead, xTail,
  xTaskWaitingToSend, xTaskWaitingToReceive,
  told,        \* what each task found: xSpace, xBytesAvailable
  received     \* what the last receive delivered

ringVars   == <<pucBuffer, xHead, xTail>>
handleVars == <<xTaskWaitingToSend, xTaskWaitingToReceive>>
flagVars   == <<ucNotifyState, blocked>>
streamVars == <<use, ringVars, handleVars, notifyVars, pc, op, told, received>>

xLength == use.length    \* one byte is never used
Slots   == 0 .. xLength - 1
Labels  == {"idle", "space", "wait", "asleep", "awake", "check", "reread", "write",
            "written", "sent", "bytes", "read", "taken"}
Smaller(a, b) == IF a < b THEN a ELSE b

\* The bytes that come before those of a message.
HeaderLength == IF use.message THEN Header ELSE 0
Framed(data) == IF use.message THEN <<Len(data)>> \o data ELSE data

StreamInit ==
  /\ use \in Uses
  /\ protocol = "none" /\ ulNotifiedValue = <<>> /\ untold = <<>>   \* not used here
  /\ pucBuffer = [s \in Slots |-> 0] /\ xHead = 0 /\ xTail = 0
  /\ xTaskWaitingToSend = NoTask /\ xTaskWaitingToReceive = NoTask
  /\ ucNotifyState = [t \in Tasks |-> "not_waiting"]
  /\ blocked = [t \in Tasks |-> FALSE]
  /\ pc = [t \in Tasks |-> "idle"]
  /\ op = [t \in Tasks |-> [data |-> <<>>, wait |-> "none", expired |-> FALSE]]
  /\ told = [t \in Tasks |-> 0]
  /\ received = <<>>
-----------------------------------------------------------------------------
\* The ring.

\* Mutant: the wrap comes one byte late.
WrappedLate(i) == IF i > xLength THEN i - xLength ELSE i
Wrapped(i)     == IF i >= xLength THEN i - xLength ELSE i

\* prvBytesInBuffer() and xStreamBufferSpacesAvailable().
BytesInBuffer   == Wrapped(xLength + xHead - xTail)
SpacesAvailable == Wrapped(xLength + xTail - xHead - 1)

\* prvWriteBytesToBuffer() and prvReadBytesFromBuffer(), in up to two pieces.
WriteBytes(bytes) ==
  /\ pucBuffer' = [s \in Slots |->
       IF \E i \in 1 .. Len(bytes) : s = Wrapped(xHead + i - 1)
         THEN bytes[CHOOSE i \in 1 .. Len(bytes) : s = Wrapped(xHead + i - 1)]
         ELSE pucBuffer[s]]
  /\ xHead' = Wrapped(xHead + Len(bytes))
  /\ UNCHANGED xTail
BytesFrom(tail, n) == [i \in 1 .. n |-> pucBuffer[Wrapped(tail + i - 1)]]

\* What a send of data needs, at most all there is in a stream.
RequiredSpace(data) ==
  IF use.message THEN Len(data) + Header ELSE Smaller(Len(data), xLength - 1)

\* prvWriteMessageToBuffer(): a message whole or not at all, of a stream what fits.
\* Mutant: a message is cut.
CutToFit(data, space) == SubSeq(data, 1, Smaller(Len(data), space))
Fitting(data, space) ==
  IF ~use.message THEN SubSeq(data, 1, Smaller(Len(data), space))
  ELSE IF space >= RequiredSpace(data) THEN data ELSE <<>>
Write(data, space) ==
  IF Fitting(data, space) # <<>> THEN WriteBytes(Framed(Fitting(data, space)))
                                 ELSE UNCHANGED ringVars

\* prvReadMessageFromBuffer(): of what was available the next message, if there is
\* room for it, or what there is room for.
NextLength(room) ==
  IF ~use.message THEN room
  ELSE IF pucBuffer[xTail] > room THEN 0 ELSE pucBuffer[xTail]
Count(room, available) == Smaller(NextLength(room), available - HeaderLength)
Read(room, available) ==
  LET n == IF available > HeaderLength THEN Count(room, available) ELSE 0 IN
  /\ received' = BytesFrom(Wrapped(xTail + HeaderLength), n)
  /\ xTail' = IF n = 0 THEN xTail ELSE Wrapped(Wrapped(xTail + HeaderLength) + n)
  /\ UNCHANGED <<pucBuffer, xHead>>
-----------------------------------------------------------------------------
\* Waking the other side.

\* sbSEND_COMPLETED(), if there are as many bytes as the trigger level says.
\* Mutant: more than that.
AboveTrigger(n) == n > use.trigger
AtTrigger(n)    == n >= use.trigger
SendCompleted ==
  /\ IF xTaskWaitingToReceive # NoTask THEN Notified(xTaskWaitingToReceive)
                                       ELSE UNCHANGED flagVars
  /\ xTaskWaitingToReceive' = NoTask /\ UNCHANGED xTaskWaitingToSend

\* sbRECEIVE_COMPLETED().
ReceiveCompleted ==
  /\ IF xTaskWaitingToSend # NoTask THEN Notified(xTaskWaitingToSend)
                                    ELSE UNCHANGED flagVars
  /\ xTaskWaitingToSend' = NoTask /\ UNCHANGED xTaskWaitingToReceive
-----------------------------------------------------------------------------
\* The steps of a task.
Step(t, from, to) == pc[t] = from /\ Goto(t, to)

\* xStreamBufferSend().  A message that can never fit is not waited for.
Send(data, wait) ==
  LET mayWait == wait # "none" /\ (RequiredSpace(data) <= xLength - 1) IN
  /\ use.isr # Writer
  /\ Step(Writer, "idle", IF mayWait THEN "space" ELSE "reread")
  /\ op' = [op EXCEPT ![Writer] = [data |-> data, wait |-> wait, expired |-> FALSE]]
  /\ told' = [told EXCEPT ![Writer] = 0]
  /\ UNCHANGED <<ringVars, handleVars, flagVars, received>>

\* The critical section that looks for space and leaves the handle.
LookForSpace ==
  /\ told' = [told EXCEPT ![Writer] = SpacesAvailable]
  /\ IF SpacesAvailable < RequiredSpace(op[Writer].data)
       THEN /\ Step(Writer, "space", "wait") /\ StateCleared(Writer)
            /\ xTaskWaitingToSend' = Writer /\ UNCHANGED xTaskWaitingToReceive
       ELSE Step(Writer, "space", "write") /\ UNCHANGED <<flagVars, handleVars>>
  /\ UNCHANGED <<ringVars, op, received>>

\* xTaskNotifyWait(), by either side: its two sections.
Sleep(t) ==
  /\ Step(t, "wait", "asleep")
  /\ IF ucNotifyState[t] # "received" THEN WaitForNotification(t, op[t].wait)
                                      ELSE UNCHANGED flagVars
  /\ UNCHANGED <<ringVars, handleVars, op, told, received>>
Awake(t) ==
  /\ Step(t, "asleep", "awake") /\ ~blocked[t]
  /\ NotWaiting(t)
  /\ UNCHANGED <<ringVars, handleVars, op, told, received>>

\* The writer takes its handle back, and waits again while there is time.
WriterAwake ==
  /\ Step(Writer, "awake", "check")
  /\ xTaskWaitingToSend' = NoTask /\ UNCHANGED xTaskWaitingToReceive
  /\ UNCHANGED <<ringVars, flagVars, op, told, received>>
CheckForTimeOut ==
  /\ Step(Writer, "check", IF ~op[Writer].expired THEN "space"
                           ELSE IF told[Writer] = 0 THEN "reread" ELSE "write")
  /\ UNCHANGED <<ringVars, handleVars, flagVars, op, told, received>>

Reread ==
  /\ Step(Writer, "reread", "write")
  /\ told' = [told EXCEPT ![Writer] = SpacesAvailable]
  /\ UNCHANGED <<ringVars, handleVars, flagVars, op, received>>
WriteData ==
  /\ Step(Writer, "write", IF Fitting(op[Writer].data, told[Writer]) = <<>> THEN "idle"
                                                                          ELSE "written")
  /\ Write(op[Writer].data, told[Writer])
  /\ UNCHANGED <<handleVars, flagVars, op, told, received>>
LookAtTrigger ==
  /\ Step(Writer, "written", IF AtTrigger(BytesInBuffer) THEN "sent" ELSE "idle")
  /\ UNCHANGED <<ringVars, handleVars, flagVars, op, told, received>>
WakeReader ==
  /\ Step(Writer, "sent", "idle") /\ SendCompleted
  /\ UNCHANGED <<ringVars, op, told, received>>

\* xStreamBufferReceive(): with a block time the reader looks, and leaves its handle,
\* in a critical section.
Receive(room, wait) ==
  /\ use.isr # Reader
  /\ op' = [op EXCEPT ![Reader] = [data |-> room, wait |-> wait, expired |-> FALSE]]
  /\ told' = [told EXCEPT ![Reader] = BytesInBuffer]
  /\ IF wait # "none" /\ BytesInBuffer <= HeaderLength
       THEN /\ Step(Reader, "idle", "wait") /\ StateCleared(Reader)
            /\ xTaskWaitingToReceive' = Reader /\ UNCHANGED xTaskWaitingToSend
       ELSE Step(Reader, "idle", "read") /\ UNCHANGED <<flagVars, handleVars>>
  /\ UNCHANGED <<ringVars, received>>
ReaderAwake ==
  /\ Step(Reader, "awake", "bytes")
  /\ xTaskWaitingToReceive' = NoTask /\ UNCHANGED xTaskWaitingToSend
  /\ UNCHANGED <<ringVars, flagVars, op, told, received>>
LookForBytes ==
  /\ Step(Reader, "bytes", "read")
  /\ told' = [told EXCEPT ![Reader] = BytesInBuffer]
  /\ UNCHANGED <<ringVars, handleVars, flagVars, op, received>>
ReadData ==
  /\ Read(op[Reader].data, told[Reader])
  /\ Step(Reader, "read", IF received' = <<>> THEN "idle" ELSE "taken")
  /\ UNCHANGED <<handleVars, flagVars, op, told>>
WakeWriter ==
  /\ Step(Reader, "taken", "idle") /\ ReceiveCompleted
  /\ UNCHANGED <<ringVars, op, told, received>>

\* The tick at which the block time of t is over, asleep or, for a writer that waits
\* time and again, on its way.
Expire(t) ==
  /\ pc[t] # "idle" /\ op[t].wait = "finite"
  /\ blocked[t] \/ (t = Writer /\ ~op[t].expired)
  /\ op' = [op EXCEPT ![t] = [data |-> op[t].data, wait |-> op[t].wait, expired |-> TRUE]]
  /\ blocked' = [blocked EXCEPT ![t] = FALSE]
  /\ UNCHANGED <<ringVars, handleVars, ucNotifyState, pc, told, received>>
-----------------------------------------------------------------------------
\* Interrupt handlers: xStreamBufferSendFromISR() and xStreamBufferReceiveFromISR().
SendFromISR(data) ==
  /\ use.isr = Writer /\ Fitting(data, SpacesAvailable) # <<>>
  /\ Write(data, SpacesAvailable)
  /\ IF AtTrigger(BytesInBuffer') THEN SendCompleted ELSE UNCHANGED <<flagVars, handleVars>>
  /\ UNCHANGED <<pc, op, told, received>>

ReceiveFromISR(room) ==
  /\ use.isr = Reader
  /\ Read(room, BytesInBuffer)
  /\ IF received' # <<>> THEN ReceiveCompleted ELSE UNCHANGED <<flagVars, handleVars>>
  /\ UNCHANGED <<pc, op, told>>

\* xStreamBufferReset(), between calls: it refuses only while a task waits.
Reset ==
  /\ \A t \in Tasks : pc[t] = "idle"
  /\ xTaskWaitingToReceive = NoTask /\ xTaskWaitingToSend = NoTask
  /\ xHead' = 0 /\ xTail' = 0
  /\ UNCHANGED <<pucBuffer, handleVars, flagVars, pc, op, told, received>>
-----------------------------------------------------------------------------
StreamNext ==
  /\ UNCHANGED <<use, protocol, ulNotifiedValue, untold>>
  /\ \/ LookForSpace \/ WriterAwake \/ CheckForTimeOut \/ Reread \/ WriteData
     \/ LookAtTrigger \/ WakeReader \/ ReaderAwake \/ LookForBytes \/ ReadData
     \/ WakeWriter \/ Reset
     \/ \E t \in Tasks : Sleep(t) \/ Awake(t) \/ Expire(t)
     \/ \E wait \in Waits : \/ \E data \in Sent : Send(data, wait)
                            \/ \E room \in Rooms : Receive(room, wait)
     \/ \E data \in Sent : SendFromISR(data)
     \/ \E room \in Rooms : ReceiveFromISR(room)

StreamSpec == StreamInit /\ [][StreamNext]_streamVars

StreamTypeOK ==
  /\ use \in Uses
  /\ xHead \in Slots /\ xTail \in Slots
  /\ ucNotifyState \in [Tasks -> {"not_waiting", "waiting", "received"}]
  /\ blocked \in [Tasks -> BOOLEAN] /\ pc \in [Tasks -> Labels]
  /\ told \in [Tasks -> 0 .. xLength - 1]
  /\ BytesInBuffer + SpacesAvailable = xLength - 1

\* What is in the buffer is what was sent, in order, and a receive delivers its
\* beginning, whatever both sides do meanwhile: a step adds a whole message, or some
\* of the bytes being sent, at the end, takes what it delivers from the beginning, or
\* resets (prvWriteMessageToBuffer, prvReadMessageFromBuffer).
Contained == BytesFrom(xTail, BytesInBuffer)
Sending   == IF use.isr = Writer THEN Sent ELSE {op[Writer].data}
BytesStep ==
  \/ UNCHANGED Contained /\ received' \in {received, <<>>}
  \/ \E data \in Sending : \E n \in 1 .. Len(data) :
       /\ use.message => n = Len(data)
       /\ Contained' = Contained \o Framed(SubSeq(data, 1, n))
       /\ UNCHANGED received
  \/ received' # <<>> /\ Contained = Framed(received') \o Contained'
  \/ Reset
BytesInOrder == [][BytesStep]_<<Contained, received>>

\* Nobody sleeps, or is about to, with nobody to wake it: a reader while as many bytes
\* as the trigger level are there, a writer while there is the space it needs, unless
\* the other side is about to say so.  A handle is that of a side that waits, so that
\* the assertions of lines 617 and 811 hold.
FallsAsleep(t) == blocked[t] \/ (pc[t] = "wait" /\ ucNotifyState[t] # "received")
SleepersWoken ==
  /\ FallsAsleep(Reader) /\ BytesInBuffer >= use.trigger =>
       pc[Writer] \in {"written", "sent"}
  /\ FallsAsleep(Writer) /\ SpacesAvailable >= RequiredSpace(op[Writer].data) =>
       pc[Reader] = "taken"
  /\ xTaskWaitingToReceive \in IF pc[Reader] \in {"wait", "asleep", "awake"}
                                THEN {Reader, NoTask} ELSE {NoTask}
  /\ xTaskWaitingToSend \in IF pc[Writer] \in {"wait", "asleep", "awake"}
                             THEN {Writer, NoTask} ELSE {NoTask}
=============================================================================
