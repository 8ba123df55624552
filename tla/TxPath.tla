------------------------------- MODULE TxPath -------------------------------
(***************************************************************************)
(* The way of a character from a process to the modem core: the line       *)
(* discipline calls softserial_write (softserial_io.c), which copies to    *)
(* G.softcore.tx_fifo and calls write (coredrv.c), which feeds the transmit*)
(* FIFO (UartFifo); clm_rx_int (clmmain.c), called by clm_bg, moves the    *)
(* FIFO to a buffer of the modem core and, when it leaves few characters,  *)
(* schedules softserial_background_event_handler (softserial.c), which     *)
(* wakes the process that waits for room.  Meanwhile other contexts send   *)
(* single characters (throttle, unthrottle, send_xchar, put_char), flush   *)
(* the output, or wait until it is sent.                                   *)
(***************************************************************************)
EXTENDS Integers

CONSTANTS
    N, Chars, Nul, UIntMod, MaxCount,  \* see UartFifo
    TtyFlush,  \* TRUE if processes may flush the output
    Others,    \* TRUE if other contexts may send characters
    Wakeup,    \* WAKEUP_CHARS
    Asks,      \* how many characters a process writes at a time
    L2Size     \* size of the modem core's buffer

Producers == {"tty", "other"}

ASSUME TxAssumption ==
    /\ N \in Nat \ {0}
    /\ Nul \notin Chars
    /\ UIntMod \in Nat /\ UIntMod > N + 1
    /\ MaxCount \in Int
    /\ TtyFlush \in BOOLEAN /\ Others \in BOOLEAN
    /\ Wakeup \in 1..N
    /\ Asks \subseteq Nat \ {0}
    /\ L2Size \in Nat \ {0}

VARIABLES
    buf, put, get, count, ppc, pch, cpc, ch,  \* see UartFifo
    wpc,      \* where the writing process is
    asked,    \* write_count_asked
    written,  \* written_count
    copied,   \* copy_size
    i,        \* i of write
    awake,    \* a wake-up of write_wait came since the process last looked
    rpc,      \* where clm_bg is
    wrote,    \* wrote_something
    acuLoop,  \* acu_loop
    free,     \* room in the modem core's buffer
    event,    \* RS_EVENT_WRITE_WAKEUP
    bgWork,   \* softserial_bg_event_work is queued
    hpc,      \* where softserial_background_event_handler is
    stored,   \* history: characters this call of softserial_write stored
    drained,  \* history: characters left the FIFO during this call
    crossed,  \* history: another context stored characters during this call
    flushed   \* history: the FIFO was flushed since the process last looked

fifo == <<buf, put, get, count, ppc, pch, cpc, ch>>
call == <<asked, written, copied, i, stored>>
writer == <<wpc, call>>
pump == <<rpc, wrote, acuLoop, free>>
wakeup == <<event, bgWork, hpc, awake>>
seen == <<drained, crossed, flushed>>
vars == <<fifo, writer, pump, wakeup, seen>>

Fifo == INSTANCE UartFifo

Copying == {"test", "put", "store"}  \* inside write
Calling == {"space", "return"} \cup Copying

TypeOK ==
    /\ Fifo!TypeOK
    /\ wpc \in {"idle", "loop", "sleep", "wild", "drain"} \cup Calling
    /\ asked \in Nat /\ written \in Nat /\ stored \in Nat /\ i \in Nat
    /\ copied \in Nat
    /\ awake \in BOOLEAN
    /\ rpc \in {"idle", "main", "cts", "num", "char", "event", "queue"}
    /\ wrote \in BOOLEAN /\ acuLoop \in BOOLEAN
    /\ free \in 0..L2Size
    /\ event \in BOOLEAN /\ bgWork \in BOOLEAN
    /\ hpc \in {"idle", "test", "wake"}
    /\ drained \in BOOLEAN /\ crossed \in BOOLEAN /\ flushed \in BOOLEAN

Init ==
    /\ Fifo!Init
    /\ wpc = "idle"
    /\ asked = 0 /\ written = 0 /\ stored = 0 /\ i = 0 /\ copied = 0
    /\ awake = FALSE
    /\ rpc = "idle"
    /\ wrote = FALSE /\ acuLoop = FALSE
    /\ free = L2Size
    /\ event = FALSE /\ bgWork = FALSE
    /\ hpc = "idle"
    /\ drained = FALSE /\ crossed = FALSE /\ flushed = FALSE

-----------------------------------------------------------------------------
(* The process that writes, or waits until what it has written is sent.    *)

\* n_tty_write is called with n characters.
WriteCalled ==
    /\ wpc = "idle"
    /\ asked' \in Asks
    /\ wpc' = "loop"
    /\ UNCHANGED <<fifo, written, copied, i, stored, pump, wakeup, seen>>

\* n_tty_write gets ready to sleep, then calls softserial_write.
WriteLoop ==
    /\ wpc = "loop"
    /\ wpc' = "space"
    /\ awake' = FALSE
    /\ written' = 0 /\ stored' = 0
    /\ drained' = FALSE /\ crossed' = FALSE /\ flushed' = FALSE
    /\ UNCHANGED <<fifo, asked, copied, i, pump, event, bgWork, hpc>>

\* softcore_space is an int, UART_dce_to_free returns an unsigned int.
softcore_space ==
    IF Fifo!ToFree < UIntMod \div 2 THEN Fifo!ToFree ELSE Fifo!ToFree - UIntMod

\* The size of a copy if it did not depend on the room.
CopySizeAsked == asked

\* The size of a copy: the room bounds it, and all that was asked.
CopySize == IF asked > softcore_space THEN softcore_space ELSE asked

\* The turn if the loop went on once more when nothing is left.
WriteCopyOnceMore ==
    /\ wpc = "space"
    /\ written <= asked
    /\ softcore_space > 0
    /\ copied' = CopySize
    /\ i' = 0
    /\ wpc' = "test"
    /\ UNCHANGED <<fifo, asked, written, stored, pump, wakeup, seen>>

\* One turn of softserial_write: it asks for the room and copies.
WriteCopy ==
    /\ wpc = "space"
    /\ written < asked
    /\ softcore_space > 0
    /\ copied' = CopySize
    /\ i' = 0
    /\ wpc' = "test"
    /\ UNCHANGED <<fifo, asked, written, stored, pump, wakeup, seen>>

\* The room is negative, so is the size, and memcpy takes it as unsigned.
WriteWild ==
    /\ wpc = "space"
    /\ written < asked
    /\ softcore_space < 0
    /\ wpc' = "wild"
    /\ UNCHANGED <<fifo, call, pump, wakeup, seen>>

\* softserial_write has written what it was asked to, or there is no room.
WriteEnd ==
    /\ wpc = "space"
    /\ written >= asked \/ softcore_space = 0
    /\ wpc' = "return"
    /\ UNCHANGED <<fifo, call, pump, wakeup, seen>>

\* write has stored size characters, or found the FIFO full; softserial_write
\* takes no notice of what it returns.
WriteBatchEnd ==
    /\ wpc = "test"
    /\ i = copied \/ Fifo!ToFree = 0
    /\ written' = written + copied
    /\ copied' = 0 /\ i' = 0
    /\ wpc' = "space"
    /\ UNCHANGED <<fifo, asked, stored, pump, wakeup, seen>>

WriteNextChar ==
    /\ wpc = "test"
    /\ i < copied
    /\ Fifo!ToFree > 0
    /\ wpc' = "put"
    /\ UNCHANGED <<fifo, call, pump, wakeup, seen>>

\* UART_dce_to_char, which checks for room again; if another context has taken
\* it, the character is dropped.
WritePut ==
    /\ wpc = "put"
    /\ \E c \in Chars : Fifo!ToCharCheck("tty", c)
    /\ wpc' = "store"
    /\ UNCHANGED <<call, pump, wakeup, seen>>

WritePutFull ==
    /\ wpc = "put"
    /\ Fifo!ToFree = 0
    /\ i' = i + 1
    /\ wpc' = "test"
    /\ UNCHANGED <<fifo, asked, written, copied, stored, pump, wakeup, seen>>

WriteStore ==
    /\ wpc = "store"
    /\ Fifo!ToCharStore("tty")
    /\ stored' = stored + 1
    /\ i' = i + 1
    /\ wpc' = "test"
    /\ UNCHANGED <<asked, written, copied, pump, wakeup, seen>>

\* n_tty_write calls again with what is left, sleeps if nothing was written, or
\* is done.
WriteReturns ==
    /\ wpc = "return"
    /\ asked' = IF written >= asked THEN 0 ELSE asked - written
    /\ wpc' = IF asked' = 0 THEN "idle" ELSE IF written = 0 THEN "sleep" ELSE "space"
    /\ written' = 0 /\ stored' = 0
    /\ awake' = (awake /\ asked' # 0)
    /\ drained' = FALSE /\ crossed' = FALSE
    /\ flushed' = (flushed /\ asked' # 0)
    /\ UNCHANGED <<fifo, copied, i, pump, event, bgWork, hpc>>

WriteWoken ==
    /\ wpc = "sleep"
    /\ awake
    /\ wpc' = "loop"
    /\ UNCHANGED <<fifo, call, pump, wakeup, seen>>

\* The process calls softserial_wait_until_sent, which looks once a jiffy.
DrainCalled ==
    /\ wpc = "idle"
    /\ wpc' = "drain"
    /\ UNCHANGED <<fifo, call, pump, wakeup, seen>>

DrainReturns ==
    /\ wpc = "drain"
    /\ Fifo!ToNum = 0
    /\ wpc' = "idle"
    /\ UNCHANGED <<fifo, call, pump, wakeup, seen>>

\* A signal came, or the time given has passed.
DrainGivesUp ==
    /\ wpc = "drain"
    /\ wpc' = "idle"
    /\ UNCHANGED <<fifo, call, pump, wakeup, seen>>

softserial_write ==
    \/ WriteLoop
    \/ WriteCopy
    \/ WriteWild
    \/ WriteEnd
    \/ WriteBatchEnd
    \/ WriteNextChar
    \/ WritePut
    \/ WritePutFull
    \/ WriteStore
    \/ WriteReturns
    \/ WriteWoken

-----------------------------------------------------------------------------
(* Other processes and contexts.                                           *)

\* softserial_send_xchar, softserial_put_char, softserial_throttle and
\* softserial_unthrottle: UART_dce_to_char once, without a look at its result.
OtherPut ==
    /\ Others
    /\ \E c \in Chars : Fifo!ToCharCheck("other", c)
    /\ UNCHANGED <<writer, pump, wakeup, seen>>

OtherStore ==
    /\ Fifo!ToCharStore("other")
    /\ crossed' = (crossed \/ wpc \in Calling)
    /\ UNCHANGED <<writer, pump, wakeup, drained, flushed>>

Flushed ==
    /\ drained' = (drained \/ wpc \in Calling)
    /\ flushed' = (flushed \/ wpc \in Calling \cup {"sleep"})
    /\ UNCHANGED crossed

\* softserial_flush_buffer.
FlushBuffer ==
    /\ Fifo!TtyFlushBuffer
    /\ Flushed
    /\ UNCHANGED <<writer, pump, wakeup>>

-----------------------------------------------------------------------------
(* clm_bg, and the work it schedules.                                      *)

\* clm_bg begins; master_init sets acu_loop.
BgStart ==
    /\ rpc = "idle"
    /\ acuLoop' = TRUE
    /\ rpc' = "main"
    /\ UNCHANGED <<fifo, writer, wrote, free, wakeup, seen>>

\* What ACU_Main may do here: send what is in the buffer, raise CTS, hang up,
\* which flushes the FIFO, or reset the modem.
CoreSends ==
    /\ rpc = "main"
    /\ free < L2Size
    /\ free' \in free+1..L2Size
    /\ UNCHANGED <<fifo, writer, rpc, wrote, acuLoop, wakeup, seen>>

\* UART_cts_on, when CTS is low, which only the core changes, calls
\* schedule_background_event: set the bit, then queue the work.
CoreRaisesCts ==
    /\ rpc = "main"
    /\ event' = TRUE
    /\ rpc' = "cts"
    /\ UNCHANGED <<fifo, writer, wrote, acuLoop, free, bgWork, hpc, awake, seen>>

CtsQueue ==
    /\ rpc = "cts"
    /\ bgWork' = TRUE
    /\ rpc' = "main"
    /\ UNCHANGED <<fifo, writer, wrote, acuLoop, free, event, hpc, awake, seen>>

CoreHangsUp ==
    /\ rpc = "main"
    /\ Fifo!CoreFlush
    /\ Flushed
    /\ UNCHANGED <<writer, pump, wakeup>>

HardReset ==
    /\ rpc = "main"
    /\ acuLoop' = FALSE
    /\ UNCHANGED <<fifo, writer, rpc, wrote, free, wakeup, seen>>

RxStart ==
    /\ rpc = "main"
    /\ rpc' = IF acuLoop THEN "num" ELSE "idle"
    /\ UNCHANGED <<fifo, writer, wrote, acuLoop, free, wakeup, seen>>

\* The test of the loop if it did not ask for room in the core's buffer.
RxNumNoRoom ==
    /\ rpc = "num"
    /\ rpc' = IF Fifo!ToNum > 0 THEN "char" ELSE "event"
    /\ UNCHANGED <<fifo, writer, wrote, acuLoop, free, wakeup, seen>>

\* The test of the loop if it stopped one character early.
RxNumLeavesLast ==
    /\ rpc = "num"
    /\ rpc' = IF Fifo!ToNum > 1 /\ free > 0 THEN "char" ELSE "event"
    /\ UNCHANGED <<fifo, writer, wrote, acuLoop, free, wakeup, seen>>

\* The test of clm_rx_int's loop.
RxNum ==
    /\ rpc = "num"
    /\ rpc' = IF Fifo!ToNum > 0 /\ free > 0 THEN "char" ELSE "event"
    /\ UNCHANGED <<fifo, writer, wrote, acuLoop, free, wakeup, seen>>

\* The character returned by UART_dce_from_char goes to the core.
Received ==
    /\ rpc' = "num"
    /\ wrote' = TRUE
    /\ free' = free - 1
    /\ UNCHANGED <<writer, acuLoop, wakeup, crossed, flushed>>

RxCharEmpty ==
    /\ rpc = "char"
    /\ Fifo!FromCharEmpty
    /\ Received
    /\ UNCHANGED drained

RxCharCheck ==
    /\ rpc = "char"
    /\ Fifo!FromCharCheck
    /\ UNCHANGED <<writer, pump, wakeup, seen>>

RxCharTake ==
    /\ Fifo!FromCharTake
    /\ Received
    /\ drained' = (drained \/ wpc \in Calling)

\* The end of clm_rx_int if only an empty FIFO woke the writer.
RxEventEmptyOnly ==
    /\ rpc = "event"
    /\ IF wrote /\ Fifo!ToNum = 0
         THEN event' = TRUE /\ rpc' = "queue"
         ELSE rpc' = "idle" /\ UNCHANGED event
    /\ wrote' = FALSE
    /\ UNCHANGED <<fifo, writer, acuLoop, free, bgWork, hpc, awake, seen>>

\* schedule_background_event, as above.
RxEvent ==
    /\ rpc = "event"
    /\ IF wrote /\ Fifo!ToNum < Wakeup
         THEN event' = TRUE /\ rpc' = "queue"
         ELSE rpc' = "idle" /\ UNCHANGED event
    /\ wrote' = FALSE
    /\ UNCHANGED <<fifo, writer, acuLoop, free, bgWork, hpc, awake, seen>>

\* The scheduling if the work were not queued.
RxQueueNoWork ==
    /\ rpc = "queue"
    /\ rpc' = "idle"
    /\ UNCHANGED <<fifo, writer, wrote, acuLoop, free, wakeup, seen>>

RxQueue ==
    /\ rpc = "queue"
    /\ bgWork' = TRUE
    /\ rpc' = "idle"
    /\ UNCHANGED <<fifo, writer, wrote, acuLoop, free, event, hpc, awake, seen>>

clm_rx_int ==
    \/ RxStart
    \/ RxNum
    \/ RxCharEmpty
    \/ RxCharCheck
    \/ RxCharTake
    \/ RxEvent
    \/ RxQueue

\* The kernel takes the work off the queue, then runs the handler.
HandlerStart ==
    /\ hpc = "idle"
    /\ bgWork
    /\ bgWork' = FALSE
    /\ hpc' = "test"
    /\ UNCHANGED <<fifo, writer, pump, event, awake, seen>>

HandlerTest ==
    /\ hpc = "test"
    /\ event' = FALSE
    /\ hpc' = IF event THEN "wake" ELSE "idle"
    /\ UNCHANGED <<fifo, writer, pump, bgWork, awake, seen>>

\* wake_up_interruptible(&ptty->write_wait), where n_tty_write waits.
HandlerWake ==
    /\ hpc = "wake"
    /\ awake' = (wpc \notin {"idle", "drain"})
    /\ hpc' = "idle"
    /\ UNCHANGED <<fifo, writer, pump, event, bgWork, seen>>

background_event_handler ==
    \/ HandlerStart
    \/ HandlerTest
    \/ HandlerWake

Next ==
    \/ WriteCalled
    \/ softserial_write
    \/ DrainCalled
    \/ DrainReturns
    \/ DrainGivesUp
    \/ OtherPut
    \/ OtherStore
    \/ FlushBuffer
    \/ BgStart
    \/ CoreSends
    \/ CoreRaisesCts
    \/ CtsQueue
    \/ CoreHangsUp
    \/ HardReset
    \/ clm_rx_int
    \/ background_event_handler

Spec == Init /\ [][Next]_vars

\* The background is run again and again (Rts!BackgroundRuns), processes and
\* work items that can run do, and the modem keeps sending when it is given the
\* opportunity and is not being reset for ever.
Fairness ==
    /\ WF_vars(softserial_write)
    /\ WF_vars(OtherStore)
    /\ WF_vars(DrainReturns)
    /\ WF_vars(BgStart)
    /\ SF_vars(CoreSends)
    /\ WF_vars(CtsQueue)
    /\ SF_vars(clm_rx_int)
    /\ SF_vars(RxStart /\ acuLoop)
    /\ WF_vars(background_event_handler)

FairSpec == Spec /\ Fairness

-----------------------------------------------------------------------------

\* The counters of the FIFO stay consistent, and go no lower than -1, though two
\* contexts send, processes flush, and no check is made under the lock.
IndexCount == Fifo!IndexCount
UnderflowBound == Fifo!UnderflowBound
CountersSound == IndexCount /\ UnderflowBound

\* Every character softserial_write reports as written is in the FIFO, although
\* it ignores what write returns, unless meanwhile another context sends or the
\* output is flushed.
NothingLost == wpc = "return" => stored = written \/ crossed \/ flushed

\* softserial_write copies nothing that lies behind the characters it was given,
\* unless characters left the FIFO during the call: the size of each copy is
\* bounded by the room and by all that was asked, not by what is left of it.
NoOverrun ==
    /\ wpc \in Copying => written + copied <= asked \/ drained
    /\ wpc = "return" => written <= asked \/ drained

\* Between two runs of the background, if few characters are left in the FIFO, a
\* process asleep on a full FIFO has its wake-up under way, unless the FIFO was
\* flushed: no flush wakes the process, and the pump then finds nothing to move.
NoLostWriteWakeup ==
    (wpc = "sleep" /\ ~awake /\ ~flushed /\ count < Wakeup
        /\ rpc \in {"idle", "main"})
        => \/ event /\ (bgWork \/ hpc = "test")
           \/ hpc = "wake"

\* A process that waits for room goes on, unless the FIFO is flushed meanwhile or
\* other contexts never stop sending.
WriterProceeds ==
    <>[](ppc["other"] = "idle")
        => ((wpc = "sleep" /\ ~flushed) ~> (wpc # "sleep" \/ flushed))

\* softserial_wait_until_sent returns, unless others never stop sending or a flush
\* made the number of characters negative (UartFifo!UnderflowBound).
DrainEnds ==
    <>[](ppc["other"] = "idle" /\ count >= 0)
        => (wpc = "drain" ~> wpc # "drain")
=============================================================================
