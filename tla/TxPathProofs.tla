---------------------------- MODULE TxPathProofs ----------------------------
(***************************************************************************)
(* The write wake-up is not lost, whatever the sizes and whoever sends.    *)
(*                                                                         *)
(* The argument: a process goes to sleep only when it saw the FIFO full    *)
(* after it had declared that it waits (WriteEnd).  From then on, unless   *)
(* somebody flushes, only clm_rx_int takes characters, so whenever fewer   *)
(* than WAKEUP_CHARS are left, clm_rx_int has moved one in this run and    *)
(* has still to look (Moving), or has set the event bit and has still to   *)
(* queue the work, or the work is on its way (Pending).                    *)
(*                                                                         *)
(* Then: the FIFO of this path is UartFifo's, so that the invariant proved *)
(* of it there holds here; and a call of softserial_write loses nothing    *)
(* and reads no further than it was given, under the conditions its two    *)
(* properties state.                                                       *)
(*                                                                         *)
(* Last, a process that writes while no other context sends is the one     *)
(* producer of the FIFO (Alone), so the path implements CharQueue, and the *)
(* copy of softserial_write never has a negative size.                     *)
(***************************************************************************)
EXTENDS TxPath, TLAPS

\* The process sleeps, or is about to, having seen the FIFO full.
Waiting == (wpc = "sleep" \/ (wpc = "return" /\ written = 0)) /\ ~flushed

Moving == rpc \in {"num", "char", "event"} /\ wrote

Pending ==
    \/ event /\ (rpc = "queue" \/ bgWork \/ hpc = "test")
    \/ hpc = "wake"

\* What the position of each thread says of the data it works on.
Places ==
    /\ wpc \in Calling \cup {"loop", "sleep"} => asked > 0
    /\ rpc = "char" => free > 0
    /\ cpc = "take" => rpc = "char" /\ count >= 0
    /\ count >= -1

WakeUp ==
    Waiting => /\ count >= 0
               /\ cpc = "take" => count >= 1
               /\ awake \/ count >= Wakeup \/ Moving \/ Pending

TxInv == TypeOK /\ Places /\ WakeUp

\* A number below the modulus is its own remainder.
LEMMA ModSmall ==
    ASSUME NEW m \in Nat \ {0}, NEW x \in 0..m-1
    PROVE  x % m = x
  OBVIOUS

\* UART_dce_to_free returns 0 only for a FIFO that is at least full: count does
\* not fall so low that the unsigned difference wraps.
LEMMA NoRoomMeansFull ==
    ASSUME TypeOK, Places, Fifo!ToFree = 0
    PROVE  count >= N
<1> USE TxAssumption
<1> SUFFICES ASSUME count < N PROVE FALSE
  BY DEF TypeOK, Fifo!TypeOK
<1>1. N - count \in 1..UIntMod-1
  BY DEF TypeOK, Fifo!TypeOK, Places
<1>2. (N - count) % UIntMod = N - count
  BY <1>1, ModSmall
<1> QED
  BY <1>1, <1>2 DEF Fifo!ToFree

\* UART_dce_to_num is count while count is small and not negative.
LEMMA NumIsCount ==
    ASSUME TypeOK, count >= 0, count < Wakeup
    PROVE  Fifo!ToNum = count
<1> USE TxAssumption
<1>1. count \in 0..UIntMod-1
  BY DEF TypeOK, Fifo!TypeOK
<1> QED
  BY <1>1, ModSmall DEF Fifo!ToNum

\* Nobody waits at the start.
LEMMA TxInitInv == Init => TxInv
<1> SUFFICES ASSUME Init PROVE TxInv
  OBVIOUS
<1> USE TxAssumption
<1>1. Fifo!TypeOK
  BY DEF Init, Fifo!Init, Fifo!TypeOK
<1>2. TypeOK
  <2>1. /\ asked \in Nat /\ written \in Nat /\ stored \in Nat /\ i \in Nat
        /\ copied \in Nat
        /\ free \in 0..L2Size
    BY DEF Init
  <2> QED
    BY <1>1, <2>1 DEF Init, TypeOK
<1> QED
  BY <1>2 DEF Init, Fifo!Init, TxInv, Places, WakeUp, Waiting, Calling, Copying

\* Every step keeps the invariant.
LEMMA TxNextInv == TxInv /\ [Next]_vars => TxInv'
<1> SUFFICES ASSUME TxInv, [Next]_vars PROVE TxInv'
  OBVIOUS
<1> USE TxAssumption
<1> USE DEF TxInv, fifo, call, writer, pump, wakeup, seen, Calling, Copying,
            Waiting, Moving, Pending, Producers, Fifo!fifo
<1>1. CASE WriteCalled
  <2>1. Fifo!TypeOK'
    BY <1>1 DEF WriteCalled, TypeOK, Fifo!TypeOK
  <2>2. TypeOK'
    BY <1>1, <2>1 DEF WriteCalled, TypeOK, Places
  <2>3. Places'
    BY <1>1 DEF WriteCalled, TypeOK, Fifo!TypeOK, Places
  <2>4. WakeUp'
    BY <1>1 DEF WriteCalled, TypeOK, Fifo!TypeOK, Places, WakeUp
  <2> QED
    BY <2>2, <2>3, <2>4
<1>2. CASE WriteLoop
  <2>1. Fifo!TypeOK'
    BY <1>2 DEF WriteLoop, TypeOK, Fifo!TypeOK
  <2>2. TypeOK'
    BY <1>2, <2>1 DEF WriteLoop, TypeOK, Places
  <2>3. Places'
    BY <1>2 DEF WriteLoop, TypeOK, Fifo!TypeOK, Places
  <2>4. WakeUp'
    BY <1>2 DEF WriteLoop, TypeOK, Fifo!TypeOK, Places, WakeUp
  <2> QED
    BY <2>2, <2>3, <2>4
<1>3. CASE WriteCopy
  <2>1. Fifo!TypeOK'
    BY <1>3 DEF WriteCopy, TypeOK, Fifo!TypeOK, CopySize, softcore_space
  <2>2. TypeOK'
    <3>1. Fifo!ToFree \in Int
      BY DEF Fifo!ToFree, TypeOK, Fifo!TypeOK
    <3>2. copied' \in Nat
      BY <1>3, <3>1 DEF WriteCopy, CopySize, softcore_space, TypeOK
    <3> QED
      BY <1>3, <2>1, <3>2 DEF WriteCopy, TypeOK
  <2>3. Places'
    BY <1>3 DEF WriteCopy, TypeOK, Fifo!TypeOK, Places, CopySize, softcore_space
  <2>4. WakeUp'
    BY <1>3 DEF WriteCopy, TypeOK, Fifo!TypeOK, Places, WakeUp, CopySize, softcore_space
  <2> QED
    BY <2>2, <2>3, <2>4
<1>4. CASE WriteWild
  <2>1. Fifo!TypeOK'
    BY <1>4 DEF WriteWild, TypeOK, Fifo!TypeOK
  <2>2. TypeOK'
    BY <1>4, <2>1 DEF WriteWild, TypeOK, Places
  <2>3. Places'
    BY <1>4 DEF WriteWild, TypeOK, Fifo!TypeOK, Places
  <2>4. WakeUp'
    BY <1>4 DEF WriteWild, TypeOK, Fifo!TypeOK, Places, WakeUp
  <2> QED
    BY <2>2, <2>3, <2>4
<1>5. CASE WriteEnd
  <2>1. Fifo!TypeOK' /\ TypeOK' /\ Places'
    BY <1>5 DEF WriteEnd, TypeOK, Fifo!TypeOK, Places
  <2>2. ASSUME written = 0 PROVE count >= N
    <3>1. softcore_space = 0
      BY <1>5, <2>2 DEF WriteEnd, TypeOK, Places
    <3>2. Fifo!ToFree = 0
      <4>1. Fifo!ToFree \in 0..UIntMod-1
        BY DEF Fifo!ToFree, TypeOK, Fifo!TypeOK
      <4> QED
        BY <3>1, <4>1 DEF softcore_space
    <3> QED
      BY <3>2, NoRoomMeansFull
  <2>3. WakeUp'
    BY <1>5, <2>2 DEF WriteEnd, TypeOK, Fifo!TypeOK, WakeUp
  <2> QED
    BY <2>1, <2>3
<1>6. CASE WriteBatchEnd
  <2>1. Fifo!TypeOK'
    BY <1>6 DEF WriteBatchEnd, TypeOK, Fifo!TypeOK
  <2>2. TypeOK'
    BY <1>6, <2>1 DEF WriteBatchEnd, TypeOK, Places
  <2>3. Places'
    BY <1>6 DEF WriteBatchEnd, TypeOK, Fifo!TypeOK, Places
  <2>4. WakeUp'
    BY <1>6 DEF WriteBatchEnd, TypeOK, Fifo!TypeOK, Places, WakeUp
  <2> QED
    BY <2>2, <2>3, <2>4
<1>7. CASE WriteNextChar
  <2>1. Fifo!TypeOK'
    BY <1>7 DEF WriteNextChar, TypeOK, Fifo!TypeOK
  <2>2. TypeOK'
    BY <1>7, <2>1 DEF WriteNextChar, TypeOK, Places
  <2>3. Places'
    BY <1>7 DEF WriteNextChar, TypeOK, Fifo!TypeOK, Places
  <2>4. WakeUp'
    BY <1>7 DEF WriteNextChar, TypeOK, Fifo!TypeOK, Places, WakeUp
  <2> QED
    BY <2>2, <2>3, <2>4
<1>8. CASE WritePut
  <2>1. Fifo!TypeOK'
    BY <1>8 DEF WritePut, TypeOK, Fifo!TypeOK, Fifo!ToCharCheck
  <2>2. TypeOK'
    BY <1>8, <2>1 DEF WritePut, TypeOK, Places, Fifo!ToCharCheck
  <2>3. Places'
    BY <1>8 DEF WritePut, TypeOK, Fifo!TypeOK, Places, Fifo!ToCharCheck
  <2>4. WakeUp'
    BY <1>8 DEF WritePut, TypeOK, Fifo!TypeOK, Places, WakeUp, Fifo!ToCharCheck
  <2> QED
    BY <2>2, <2>3, <2>4
<1>9. CASE WritePutFull
  <2>1. Fifo!TypeOK'
    BY <1>9 DEF WritePutFull, TypeOK, Fifo!TypeOK
  <2>2. TypeOK'
    BY <1>9, <2>1 DEF WritePutFull, TypeOK, Places
  <2>3. Places'
    BY <1>9 DEF WritePutFull, TypeOK, Fifo!TypeOK, Places
  <2>4. WakeUp'
    BY <1>9 DEF WritePutFull, TypeOK, Fifo!TypeOK, Places, WakeUp
  <2> QED
    BY <2>2, <2>3, <2>4
<1>10. CASE WriteStore
  <2>1. Fifo!TypeOK'
    BY <1>10 DEF WriteStore, TypeOK, Fifo!TypeOK, Fifo!ToCharStore
  <2>2. TypeOK'
    BY <1>10, <2>1 DEF WriteStore, TypeOK, Places, Fifo!ToCharStore
  <2>3. Places'
    BY <1>10 DEF WriteStore, TypeOK, Fifo!TypeOK, Places, Fifo!ToCharStore
  <2>4. WakeUp'
    BY <1>10 DEF WriteStore, TypeOK, Fifo!TypeOK, Places, WakeUp, Fifo!ToCharStore
  <2> QED
    BY <2>2, <2>3, <2>4
<1>11. CASE WriteReturns
  <2>1. Fifo!TypeOK'
    BY <1>11 DEF WriteReturns, TypeOK, Fifo!TypeOK
  <2>2. TypeOK'
    <3>1. asked' \in Nat /\ written' = 0 /\ stored' = 0
      BY <1>11 DEF WriteReturns, TypeOK
    <3>4. wpc' \in {"idle", "loop", "sleep", "wild", "drain"} \cup Calling
      BY <1>11 DEF WriteReturns
    <3>2. awake' \in BOOLEAN /\ flushed' \in BOOLEAN
      BY <1>11 DEF WriteReturns, TypeOK
    <3>3. /\ copied' = copied /\ i' = i /\ rpc' = rpc /\ wrote' = wrote
          /\ acuLoop' = acuLoop /\ free' = free /\ event' = event
          /\ bgWork' = bgWork /\ hpc' = hpc /\ drained' = FALSE /\ crossed' = FALSE
      BY <1>11 DEF WriteReturns
    <3> QED
      BY <2>1, <3>1, <3>2, <3>3, <3>4 DEF TypeOK
  <2>3. Places'
    <3>1. wpc' \in {"sleep", "space"} => asked' > 0
      <4>1. asked' \in Nat
        BY <2>2 DEF TypeOK
      <4>2. asked' = 0 => wpc' = "idle"
        BY <1>11 DEF WriteReturns
      <4> QED
        BY <4>1, <4>2
    <3>2. wpc' \in {"idle", "sleep", "space"}
      BY <1>11 DEF WriteReturns
    <3> QED
      BY <1>11, <3>1, <3>2 DEF WriteReturns, TypeOK, Places
  <2>4. WakeUp'
    BY <1>11 DEF WriteReturns, TypeOK, Fifo!TypeOK, Places, WakeUp
  <2> QED
    BY <2>2, <2>3, <2>4
<1>12. CASE WriteWoken
  <2>1. Fifo!TypeOK'
    BY <1>12 DEF WriteWoken, TypeOK, Fifo!TypeOK
  <2>2. TypeOK'
    BY <1>12, <2>1 DEF WriteWoken, TypeOK, Places
  <2>3. Places'
    BY <1>12 DEF WriteWoken, TypeOK, Fifo!TypeOK, Places
  <2>4. WakeUp'
    BY <1>12 DEF WriteWoken, TypeOK, Fifo!TypeOK, Places, WakeUp
  <2> QED
    BY <2>2, <2>3, <2>4
<1>13. CASE DrainCalled
  <2>1. Fifo!TypeOK'
    BY <1>13 DEF DrainCalled, TypeOK, Fifo!TypeOK
  <2>2. TypeOK'
    BY <1>13, <2>1 DEF DrainCalled, TypeOK, Places
  <2>3. Places'
    BY <1>13 DEF DrainCalled, TypeOK, Fifo!TypeOK, Places
  <2>4. WakeUp'
    BY <1>13 DEF DrainCalled, TypeOK, Fifo!TypeOK, Places, WakeUp
  <2> QED
    BY <2>2, <2>3, <2>4
<1>14. CASE DrainReturns
  <2>1. Fifo!TypeOK'
    BY <1>14 DEF DrainReturns, TypeOK, Fifo!TypeOK
  <2>2. TypeOK'
    BY <1>14, <2>1 DEF DrainReturns, TypeOK, Places
  <2>3. Places'
    BY <1>14 DEF DrainReturns, TypeOK, Fifo!TypeOK, Places
  <2>4. WakeUp'
    BY <1>14 DEF DrainReturns, TypeOK, Fifo!TypeOK, Places, WakeUp
  <2> QED
    BY <2>2, <2>3, <2>4
<1>15. CASE OtherPut
  <2>1. Fifo!TypeOK'
    BY <1>15 DEF OtherPut, TypeOK, Fifo!TypeOK, Fifo!ToCharCheck
  <2>2. TypeOK'
    BY <1>15, <2>1 DEF OtherPut, TypeOK, Places, Fifo!ToCharCheck
  <2>3. Places'
    BY <1>15 DEF OtherPut, TypeOK, Fifo!TypeOK, Places, Fifo!ToCharCheck
  <2>4. WakeUp'
    BY <1>15 DEF OtherPut, TypeOK, Fifo!TypeOK, Places, WakeUp, Fifo!ToCharCheck
  <2> QED
    BY <2>2, <2>3, <2>4
<1>16. CASE OtherStore
  <2>1. Fifo!TypeOK'
    BY <1>16 DEF OtherStore, TypeOK, Fifo!TypeOK, Fifo!ToCharStore
  <2>2. TypeOK'
    BY <1>16, <2>1 DEF OtherStore, TypeOK, Places, Fifo!ToCharStore
  <2>3. Places'
    BY <1>16 DEF OtherStore, TypeOK, Fifo!TypeOK, Places, Fifo!ToCharStore
  <2>4. WakeUp'
    BY <1>16 DEF OtherStore, TypeOK, Fifo!TypeOK, Places, WakeUp, Fifo!ToCharStore
  <2> QED
    BY <2>2, <2>3, <2>4
<1>17. CASE FlushBuffer
  <2>1. Fifo!TypeOK'
    BY <1>17 DEF FlushBuffer, TypeOK, Fifo!TypeOK, Flushed, Fifo!TtyFlushBuffer, Fifo!Flush
  <2>2. TypeOK'
    BY <1>17, <2>1 DEF FlushBuffer, TypeOK, Places, Flushed, Fifo!TtyFlushBuffer, Fifo!Flush
  <2>3. Places'
    BY <1>17 DEF FlushBuffer, TypeOK, Fifo!TypeOK, Places, Flushed, Fifo!TtyFlushBuffer, Fifo!Flush
  <2>4. WakeUp'
    BY <1>17 DEF FlushBuffer, TypeOK, Fifo!TypeOK, Places, WakeUp, Flushed, Fifo!TtyFlushBuffer, Fifo!Flush
  <2> QED
    BY <2>2, <2>3, <2>4
<1>18. CASE BgStart
  <2>1. Fifo!TypeOK'
    BY <1>18 DEF BgStart, TypeOK, Fifo!TypeOK
  <2>2. TypeOK'
    BY <1>18, <2>1 DEF BgStart, TypeOK, Places
  <2>3. Places'
    BY <1>18 DEF BgStart, TypeOK, Fifo!TypeOK, Places
  <2>4. WakeUp'
    BY <1>18 DEF BgStart, TypeOK, Fifo!TypeOK, Places, WakeUp
  <2> QED
    BY <2>2, <2>3, <2>4
<1>19. CASE CoreSends
  <2>1. Fifo!TypeOK'
    BY <1>19 DEF CoreSends, TypeOK, Fifo!TypeOK
  <2>2. TypeOK'
    BY <1>19, <2>1 DEF CoreSends, TypeOK, Places
  <2>3. Places'
    BY <1>19 DEF CoreSends, TypeOK, Fifo!TypeOK, Places
  <2>4. WakeUp'
    BY <1>19 DEF CoreSends, TypeOK, Fifo!TypeOK, Places, WakeUp
  <2> QED
    BY <2>2, <2>3, <2>4
<1>20. CASE CoreHangsUp
  <2>1. Fifo!TypeOK'
    BY <1>20 DEF CoreHangsUp, TypeOK, Fifo!TypeOK, Flushed, Fifo!CoreFlush, Fifo!Flush
  <2>2. TypeOK'
    <3>1. drained' \in BOOLEAN /\ flushed' \in BOOLEAN /\ crossed' = crossed
      BY <1>20 DEF CoreHangsUp, TypeOK, Flushed
    <3>2. UNCHANGED <<writer, pump, wakeup>>
      BY <1>20 DEF CoreHangsUp
    <3> QED
      BY <2>1, <3>1, <3>2 DEF TypeOK
  <2>3. Places'
    BY <1>20 DEF CoreHangsUp, TypeOK, Fifo!TypeOK, Places, Flushed, Fifo!CoreFlush, Fifo!Flush
  <2>4. WakeUp'
    BY <1>20 DEF CoreHangsUp, TypeOK, Fifo!TypeOK, Places, WakeUp, Flushed, Fifo!CoreFlush, Fifo!Flush
  <2> QED
    BY <2>2, <2>3, <2>4
<1>21. CASE HardReset
  <2>1. Fifo!TypeOK'
    BY <1>21 DEF HardReset, TypeOK, Fifo!TypeOK
  <2>2. TypeOK'
    <3>1. /\ acuLoop' \in BOOLEAN
          /\ UNCHANGED <<writer, rpc, wrote, free, wakeup>>
          /\ UNCHANGED <<drained, crossed, flushed>>
      BY <1>21 DEF HardReset
    <3> QED
      BY <2>1, <3>1 DEF TypeOK
  <2>3. Places'
    BY <1>21 DEF HardReset, TypeOK, Fifo!TypeOK, Places
  <2>4. WakeUp'
    BY <1>21 DEF HardReset, TypeOK, Fifo!TypeOK, Places, WakeUp
  <2> QED
    BY <2>2, <2>3, <2>4
<1>22. CASE RxStart
  <2>1. Fifo!TypeOK'
    BY <1>22 DEF RxStart, TypeOK, Fifo!TypeOK
  <2>2. TypeOK'
    BY <1>22, <2>1 DEF RxStart, TypeOK, Places
  <2>3. Places'
    BY <1>22 DEF RxStart, TypeOK, Fifo!TypeOK, Places
  <2>4. WakeUp'
    BY <1>22 DEF RxStart, TypeOK, Fifo!TypeOK, Places, WakeUp
  <2> QED
    BY <2>2, <2>3, <2>4
<1>23. CASE RxNum
  <2>1. Fifo!TypeOK'
    BY <1>23 DEF RxNum, TypeOK, Fifo!TypeOK
  <2>2. TypeOK'
    BY <1>23, <2>1 DEF RxNum, TypeOK, Places
  <2>3. Places'
    BY <1>23 DEF RxNum, TypeOK, Fifo!TypeOK, Places
  <2>4. WakeUp'
    BY <1>23 DEF RxNum, TypeOK, Fifo!TypeOK, Places, WakeUp
  <2> QED
    BY <2>2, <2>3, <2>4
<1>24. CASE RxCharEmpty
  <2>1. Fifo!TypeOK'
    BY <1>24 DEF RxCharEmpty, TypeOK, Fifo!TypeOK, Received, Fifo!FromCharEmpty
  <2>2. TypeOK'
    BY <1>24, <2>1 DEF RxCharEmpty, TypeOK, Places, Received, Fifo!FromCharEmpty
  <2>3. Places'
    BY <1>24 DEF RxCharEmpty, TypeOK, Fifo!TypeOK, Places, Received, Fifo!FromCharEmpty
  <2>4. WakeUp'
    BY <1>24 DEF RxCharEmpty, TypeOK, Fifo!TypeOK, Places, WakeUp, Received, Fifo!FromCharEmpty
  <2> QED
    BY <2>2, <2>3, <2>4
<1>25. CASE RxCharCheck
  <2>1. Fifo!TypeOK'
    BY <1>25 DEF RxCharCheck, TypeOK, Fifo!TypeOK, Fifo!FromCharCheck
  <2>2. TypeOK'
    BY <1>25, <2>1 DEF RxCharCheck, TypeOK, Places, Fifo!FromCharCheck
  <2>3. Places'
    BY <1>25 DEF RxCharCheck, TypeOK, Fifo!TypeOK, Places, Fifo!FromCharCheck
  <2>4. WakeUp'
    BY <1>25 DEF RxCharCheck, TypeOK, Fifo!TypeOK, Places, WakeUp, Fifo!FromCharCheck
  <2> QED
    BY <2>2, <2>3, <2>4
<1>26. CASE RxCharTake
  <2>1. Fifo!TypeOK'
    BY <1>26 DEF RxCharTake, TypeOK, Fifo!TypeOK, Received, Fifo!FromCharTake
  <2>2. TypeOK'
    BY <1>26, <2>1 DEF RxCharTake, TypeOK, Places, Received, Fifo!FromCharTake
  <2>3. Places'
    BY <1>26 DEF RxCharTake, TypeOK, Fifo!TypeOK, Places, Received, Fifo!FromCharTake
  <2>4. WakeUp'
    BY <1>26 DEF RxCharTake, TypeOK, Fifo!TypeOK, Places, WakeUp, Received, Fifo!FromCharTake
  <2> QED
    BY <2>2, <2>3, <2>4
<1>27. CASE RxEvent
  <2>1. TypeOK' /\ Places'
    <3>1. Fifo!TypeOK'
      BY <1>27 DEF RxEvent, TypeOK, Fifo!TypeOK
    <3>2. event' \in BOOLEAN /\ rpc' \in {"queue", "idle"} /\ wrote' \in BOOLEAN
      BY <1>27 DEF RxEvent, TypeOK
    <3>3. TypeOK'
      BY <1>27, <3>1, <3>2 DEF RxEvent, TypeOK
    <3> QED
      BY <1>27, <3>3 DEF RxEvent, TypeOK, Fifo!TypeOK, Places
  <2>2. WakeUp'
    <3>1. CASE count >= 0 /\ count < Wakeup
      <4>1. Fifo!ToNum < Wakeup
        BY <3>1, NumIsCount
      <4> QED
        BY <1>27, <3>1, <4>1 DEF RxEvent, TypeOK, WakeUp
    <3>2. CASE ~(count >= 0 /\ count < Wakeup)
      BY <1>27, <3>2 DEF RxEvent, TypeOK, Fifo!TypeOK, WakeUp
    <3> QED
      BY <3>1, <3>2
  <2> QED
    BY <2>1, <2>2
<1>28. CASE RxQueue
  <2>1. Fifo!TypeOK'
    BY <1>28 DEF RxQueue, TypeOK, Fifo!TypeOK
  <2>2. TypeOK'
    BY <1>28, <2>1 DEF RxQueue, TypeOK, Places
  <2>3. Places'
    BY <1>28 DEF RxQueue, TypeOK, Fifo!TypeOK, Places
  <2>4. WakeUp'
    BY <1>28 DEF RxQueue, TypeOK, Fifo!TypeOK, Places, WakeUp
  <2> QED
    BY <2>2, <2>3, <2>4
<1>29. CASE HandlerStart
  <2>1. Fifo!TypeOK'
    BY <1>29 DEF HandlerStart, TypeOK, Fifo!TypeOK
  <2>2. TypeOK'
    <3>1. event' \in BOOLEAN /\ bgWork' \in BOOLEAN
      BY <1>29 DEF HandlerStart, TypeOK
    <3>2. hpc' \in {"idle", "test", "wake"}
      BY <1>29 DEF HandlerStart
    <3> QED
      BY <1>29, <2>1, <3>1, <3>2 DEF HandlerStart, TypeOK
  <2>3. Places'
    BY <1>29 DEF HandlerStart, TypeOK, Fifo!TypeOK, Places
  <2>4. WakeUp'
    BY <1>29 DEF HandlerStart, TypeOK, Fifo!TypeOK, Places, WakeUp
  <2> QED
    BY <2>2, <2>3, <2>4
<1>30. CASE HandlerTest
  <2>1. Fifo!TypeOK'
    BY <1>30 DEF HandlerTest, TypeOK, Fifo!TypeOK
  <2>2. TypeOK'
    <3>1. event' \in BOOLEAN /\ bgWork' \in BOOLEAN
      BY <1>30 DEF HandlerTest, TypeOK
    <3>2. hpc' \in {"idle", "test", "wake"}
      BY <1>30 DEF HandlerTest
    <3> QED
      BY <1>30, <2>1, <3>1, <3>2 DEF HandlerTest, TypeOK
  <2>3. Places'
    BY <1>30 DEF HandlerTest, TypeOK, Fifo!TypeOK, Places
  <2>4. WakeUp'
    BY <1>30 DEF HandlerTest, TypeOK, Fifo!TypeOK, Places, WakeUp
  <2> QED
    BY <2>2, <2>3, <2>4
<1>31. CASE HandlerWake
  <2>1. Fifo!TypeOK'
    BY <1>31 DEF HandlerWake, TypeOK, Fifo!TypeOK
  <2>2. TypeOK'
    BY <1>31, <2>1 DEF HandlerWake, TypeOK, Places
  <2>3. Places'
    BY <1>31 DEF HandlerWake, TypeOK, Fifo!TypeOK, Places
  <2>4. WakeUp'
    BY <1>31 DEF HandlerWake, TypeOK, Fifo!TypeOK, Places, WakeUp
  <2> QED
    BY <2>2, <2>3, <2>4
<1>32. CASE DrainGivesUp
  <2>1. Fifo!TypeOK'
    BY <1>32 DEF DrainGivesUp, TypeOK, Fifo!TypeOK
  <2>2. TypeOK'
    BY <1>32, <2>1 DEF DrainGivesUp, TypeOK, Places
  <2>3. Places'
    BY <1>32 DEF DrainGivesUp, TypeOK, Fifo!TypeOK, Places
  <2>4. WakeUp'
    BY <1>32 DEF DrainGivesUp, TypeOK, Fifo!TypeOK, Places, WakeUp
  <2> QED
    BY <2>2, <2>3, <2>4
<1>33. CASE CoreRaisesCts
  <2>1. Fifo!TypeOK'
    BY <1>33 DEF CoreRaisesCts, TypeOK, Fifo!TypeOK
  <2>2. TypeOK'
    <3>1. event' \in BOOLEAN /\ rpc' = "cts"
      BY <1>33 DEF CoreRaisesCts, TypeOK
    <3> QED
      BY <1>33, <2>1, <3>1 DEF CoreRaisesCts, TypeOK
  <2>3. Places'
    BY <1>33 DEF CoreRaisesCts, TypeOK, Fifo!TypeOK, Places
  <2>4. WakeUp'
    BY <1>33 DEF CoreRaisesCts, TypeOK, Fifo!TypeOK, Places, WakeUp
  <2> QED
    BY <2>2, <2>3, <2>4
<1>34. CASE CtsQueue
  <2>1. Fifo!TypeOK'
    BY <1>34 DEF CtsQueue, TypeOK, Fifo!TypeOK
  <2>2. TypeOK'
    <3>1. bgWork' \in BOOLEAN /\ rpc' = "main"
      BY <1>34 DEF CtsQueue, TypeOK
    <3> QED
      BY <1>34, <2>1, <3>1 DEF CtsQueue, TypeOK
  <2>3. Places'
    BY <1>34 DEF CtsQueue, TypeOK, Fifo!TypeOK, Places
  <2>4. WakeUp'
    BY <1>34 DEF CtsQueue, TypeOK, Fifo!TypeOK, Places, WakeUp
  <2> QED
    BY <2>2, <2>3, <2>4
<1>35. CASE UNCHANGED vars
  BY <1>35 DEF vars, TypeOK, Fifo!TypeOK, Places, WakeUp
<1> QED
  BY <1>1, <1>2, <1>3, <1>4, <1>5, <1>6, <1>7, <1>8, <1>9, <1>10, <1>11, <1>12, <1>13, <1>14, <1>15, <1>16, <1>17, <1>18, <1>19, <1>20, <1>21, <1>22, <1>23, <1>24, <1>25, <1>26, <1>27, <1>28, <1>29, <1>30, <1>31, <1>32, <1>33, <1>34, <1>35
     DEF Next, softserial_write, clm_rx_int, background_event_handler

\* The invariant holds in every reachable state.
THEOREM TxInvariance == Spec => []TxInv
<1> QED
  BY TxInitInv, TxNextInv, PTL DEF Spec

\* The types hold: among them, the core's buffer is never asked for room it does
\* not have, and the copy of softserial_write never has a negative size.
THEOREM TxTypeCorrect == Spec => []TypeOK
<1>1. TxInv => TypeOK
  BY DEF TxInv
<1> QED
  BY <1>1, TxInvariance, PTL

\* A process asleep on a full FIFO has its wake-up under way as soon as the
\* background leaves fewer than WAKEUP_CHARS characters, whatever the sizes.
THEOREM WriteWakeupNotLost == Spec => []NoLostWriteWakeup
<1>1. TxInv => NoLostWriteWakeup
  <2> SUFFICES ASSUME TxInv PROVE NoLostWriteWakeup
    OBVIOUS
  <2> QED
    BY TxAssumption
       DEF TxInv, NoLostWriteWakeup, WakeUp, Waiting, Moving, Pending, TypeOK,
           Fifo!TypeOK
<1> QED
  BY <1>1, TxInvariance, PTL

-----------------------------------------------------------------------------
(* The FIFO is UartFifo's.                                                 *)

FP == INSTANCE UartFifoProofs

\* The FIFO of the transmit path starts as UartFifo's does...
LEMMA StartIsFP == Init => FP!Init
  BY DEF Init, Fifo!Init, FP!Init

\* ... and every step of the path is a step of UartFifo, or leaves it alone.
LEMMA StepIsFP == [Next]_vars => [FP!Next]_(FP!vars)
<1> SUFFICES ASSUME [Next]_vars PROVE [FP!Next]_(FP!vars)
  OBVIOUS
<1> USE DEF fifo, FP!vars, FP!fifo, Fifo!fifo
<1>1. CASE UNCHANGED vars
  BY <1>1 DEF vars
<1>2. CASE OtherPut
  BY <1>2 DEF OtherPut, FP!Next, Producers, Fifo!ToCharCheck, FP!ToCharCheck, Fifo!ToFree, FP!ToFree
<1>3. CASE OtherStore
  BY <1>3 DEF OtherStore, FP!Next, Producers, Fifo!ToCharStore, FP!ToCharStore
<1>4. CASE WritePut
  BY <1>4 DEF WritePut, FP!Next, Producers, Fifo!ToCharCheck, FP!ToCharCheck, Fifo!ToFree, FP!ToFree
<1>5. CASE WriteStore
  BY <1>5 DEF WriteStore, FP!Next, Producers, Fifo!ToCharStore, FP!ToCharStore
<1>6. CASE FlushBuffer
  BY <1>6 DEF FlushBuffer, FP!Next, Fifo!TtyFlushBuffer, FP!TtyFlushBuffer, Fifo!Flush, FP!Flush
<1>7. CASE CoreHangsUp
  BY <1>7 DEF CoreHangsUp, FP!Next, Fifo!CoreFlush, FP!CoreFlush, Fifo!Flush, FP!Flush
<1>8. CASE RxCharEmpty
  BY <1>8 DEF RxCharEmpty, FP!Next, Fifo!FromCharEmpty, FP!FromCharEmpty
<1>9. CASE RxCharCheck
  BY <1>9 DEF RxCharCheck, FP!Next, Fifo!FromCharCheck, FP!FromCharCheck
<1>10. CASE RxCharTake
  BY <1>10 DEF RxCharTake, FP!Next, Fifo!FromCharTake, FP!FromCharTake
<1>11. CASE WriteCalled \/ DrainCalled \/ DrainReturns \/ DrainGivesUp \/ WriteLoop \/ WriteCopy
           \/ WriteWild \/ WriteEnd \/ WriteBatchEnd \/ WriteNextChar
           \/ WritePutFull \/ WriteReturns \/ WriteWoken
  BY <1>11 DEF WriteCalled, DrainCalled, DrainReturns, DrainGivesUp, WriteLoop, WriteCopy,
     WriteWild, WriteEnd, WriteBatchEnd, WriteNextChar, WritePutFull,
     WriteReturns, WriteWoken
<1>12. CASE BgStart \/ CoreSends \/ CoreRaisesCts \/ CtsQueue \/ HardReset \/ RxStart
            \/ RxNum \/ RxEvent \/ RxQueue \/ background_event_handler
  BY <1>12 DEF BgStart, CoreSends, CoreRaisesCts, CtsQueue, HardReset, RxStart, RxNum,
     RxEvent, RxQueue, background_event_handler, HandlerStart, HandlerTest, HandlerWake
<1> QED
  BY <1>1, <1>2, <1>3, <1>4, <1>5, <1>6, <1>7, <1>8, <1>9, <1>10, <1>11, <1>12
     DEF Next, softserial_write, clm_rx_int

\* The put index, the get index and the count of uart_tx_fifo stay in step through
\* every interleaving of the writers, the flushes and the background, because
\* UartFifo's invariant (UartFifoProofs) holds of it; a flush that meets a take
\* leaves the count at -1, and nothing leaves it lower.
THEOREM CountersStaySound == Spec => []CountersSound
<1>1. Init => FP!FifoInv
  BY StartIsFP, FP!InitInv, TxAssumption
<1>2. FP!FifoInv /\ [Next]_vars => FP!FifoInv'
  BY StepIsFP, FP!NextInv, TxAssumption
<1>3. FP!FifoInv => IndexCount
  BY DEF FP!FifoInv, FP!IndexCount, IndexCount, Fifo!IndexCount
<1>4. TxInv => UnderflowBound
  BY DEF TxInv, Places, UnderflowBound, Fifo!UnderflowBound
<1> QED
  BY <1>1, <1>2, <1>3, <1>4, TxInvariance, PTL DEF Spec, CountersSound

-----------------------------------------------------------------------------
(* A call of softserial_write.                                             *)

\* The model's bound on what the FIFO is filled to when the unsigned room is
\* read as an int: room above a full FIFO reads as a negative number.
SmallCounts == MaxCount \in 0..(N + (UIntMod \div 2) - 2)

\* How far above MaxCount the producers that have seen room can fill the FIFO.
Bounded ==
    /\ count <= MaxCount + 2
    /\ \A p \in Producers : ppc[p] = "store" => count <= MaxCount + 1
    /\ (\A p \in Producers : ppc[p] = "store") => count <= MaxCount

\* Inside write, no more is copied than was asked for.
InBatch ==
    /\ wpc \in Copying => i <= copied /\ copied <= asked
    /\ wpc \in {"put", "store"} => i < copied

\* While nobody else stores or flushes, what was counted was stored, and the
\* room that softserial_write saw is still there for the rest of the copy.
RoomKept ==
    ~crossed /\ ~flushed =>
        /\ wpc \in {"space", "return"} => stored = written
        /\ wpc \in Copying => stored = written + i /\ count + copied - i <= N

\* While no character leaves, there is one copy at most: it takes all that was
\* asked, or it fills the FIFO.
OneCopy ==
    ~drained =>
        /\ wpc \in {"space", "return"} => written <= asked
        /\ wpc = "space" => written \in {0, asked} \/ count >= N
        /\ wpc \in Copying =>
              /\ written = 0
              /\ copied = asked \/ count + copied - i >= N

CallInv == TxInv /\ Bounded /\ InBatch /\ RoomKept /\ OneCopy

\* The int softserial_write sees is the room when the FIFO is not full, and not
\* positive when it is.
LEMMA SpaceIsRoom ==
    ASSUME SmallCounts, TypeOK, Places, Bounded, softcore_space > 0
    PROVE  count < N /\ softcore_space = N - count /\ Fifo!ToFree = N - count
<1> USE TxAssumption DEF SmallCounts
<1> DEFINE half == UIntMod \div 2
<1>1. half \in Nat /\ 2 * half <= UIntMod
  OBVIOUS
<1>2. count \in Int /\ count >= -1
  BY DEF TypeOK, Fifo!TypeOK, Places
<1>3. CASE count < N
  <2>1. N - count \in 0..UIntMod-1
    BY <1>2, <1>3
  <2>2. Fifo!ToFree = N - count
    BY <2>1, ModSmall DEF Fifo!ToFree
  <2> QED
    BY <1>2, <1>3, <2>2 DEF softcore_space
<1>4. CASE count = N
  <2>1. Fifo!ToFree = 0
    BY <1>4, ModSmall DEF Fifo!ToFree
  <2> QED
    BY <2>1, <1>1 DEF softcore_space
<1>5. CASE count > N
  <2>1. count <= N + half
    BY <1>2 DEF Bounded
  <2>2. N - count + UIntMod \in 0..UIntMod-1 /\ N - count + UIntMod >= half
    BY <1>1, <1>2, <1>5, <2>1
  <2>3. (N - count) % UIntMod = N - count + UIntMod
    <3>1. (N - count + UIntMod) % UIntMod = N - count + UIntMod
      BY <2>2, ModSmall
    <3> QED
      BY <3>1, <1>2
  <2> QED
    BY <2>2, <2>3 DEF softcore_space, Fifo!ToFree
<1> QED
  BY <1>2, <1>3, <1>4, <1>5

\* No call is under way at the start.
LEMMA CallInitInv == SmallCounts /\ Init => CallInv
  BY TxAssumption, TxInitInv
     DEF Init, Fifo!Init, SmallCounts, CallInv, Bounded, InBatch, RoomKept, OneCopy, Copying,
         Producers

\* Every step keeps the invariant of a call.
LEMMA CallNextInv == SmallCounts /\ CallInv /\ [Next]_vars => CallInv'
<1> SUFFICES ASSUME SmallCounts, CallInv, [Next]_vars PROVE Bounded' /\ InBatch' /\ RoomKept' /\ OneCopy'
  BY TxNextInv DEF CallInv
<1> USE TxAssumption
<1>0. /\ TypeOK /\ Places
      /\ count \in Int /\ count >= -1
      /\ ppc \in [Producers -> {"idle", "store"}]
      /\ i \in Nat /\ copied \in Nat /\ asked \in Nat /\ written \in Nat /\ stored \in Nat
  BY DEF CallInv, TxInv, TypeOK, Fifo!TypeOK, Places
<1> USE DEF CallInv, Bounded, InBatch, RoomKept, OneCopy, fifo, call, writer, pump, wakeup, seen, Calling, Copying, Producers, Fifo!fifo
<1>1. CASE UNCHANGED vars
  BY <1>1 DEF vars
<1>2. CASE WriteCalled \/ DrainCalled \/ DrainReturns \/ DrainGivesUp \/ WriteWild
            \/ WriteEnd \/ WriteWoken
  BY <1>0, <1>2 DEF WriteCalled, DrainCalled, DrainReturns, DrainGivesUp, WriteWild,
     WriteEnd, WriteWoken
<1>3. CASE WriteLoop
  BY <1>0, <1>3 DEF WriteLoop
<1>4. CASE WriteCopy
  <2>1. softcore_space = N - count /\ count < N
    BY <1>0, <1>4, SpaceIsRoom DEF WriteCopy
  <2>2. copied' \in Nat /\ copied' <= asked /\ copied' <= N - count
        /\ (copied' = asked \/ copied' = N - count)
    BY <1>0, <2>1, <1>4 DEF WriteCopy, CopySize
  <2> QED
    BY <1>0, <1>4, <2>1, <2>2 DEF WriteCopy
<1>5. CASE WriteBatchEnd
  <2>1. i = copied \/ count >= N
    BY <1>0, <1>5, NoRoomMeansFull DEF WriteBatchEnd
  <2> QED
    BY <1>0, <1>5, <2>1 DEF WriteBatchEnd
<1>6. CASE WriteNextChar
  BY <1>0, <1>6 DEF WriteNextChar
<1>7. CASE WritePut
  BY <1>0, <1>7 DEF WritePut, Fifo!ToCharCheck
<1>8. CASE WritePutFull
  <2>1. count >= N
    BY <1>0, <1>8, NoRoomMeansFull DEF WritePutFull
  <2> QED
    BY <1>0, <1>8, <2>1 DEF WritePutFull
<1>9. CASE WriteStore
  BY <1>0, <1>9 DEF WriteStore, Fifo!ToCharStore
<1>10. CASE WriteReturns
  BY <1>0, <1>10 DEF WriteReturns
<1>11. CASE OtherPut
  BY <1>0, <1>11 DEF OtherPut, Fifo!ToCharCheck
<1>12. CASE OtherStore
  <2>1. crossed' = (crossed \/ wpc \in Calling) /\ crossed \in BOOLEAN
    BY <1>12 DEF OtherStore, TxInv, TypeOK
  <2>2. ~crossed' => wpc \notin Calling
    BY <2>1, Zenon
  <2>3. /\ ppc["other"] = "store" /\ ppc' = [ppc EXCEPT !["other"] = "idle"]
        /\ count' = count + 1
        /\ UNCHANGED <<wpc, asked, written, copied, i, stored, drained>>
    BY <1>12 DEF OtherStore, Fifo!ToCharStore
  <2>4. Bounded'
    BY <1>0, <2>3
  <2> QED
    BY <1>0, <2>2, <2>3, <2>4
<1>13. CASE FlushBuffer
  <2>1. drained' = (drained \/ wpc \in Calling) /\ drained \in BOOLEAN
    BY <1>13 DEF FlushBuffer, Flushed, TxInv, TypeOK
  <2>2. flushed' = (flushed \/ wpc \in Calling \cup {"sleep"}) /\ flushed \in BOOLEAN
    BY <1>13 DEF FlushBuffer, Flushed, TxInv, TypeOK
  <2>3. (~drained' \/ ~flushed') => wpc \notin Calling
    BY <2>1, <2>2, Zenon
  <2>4. count' = 0 /\ UNCHANGED <<ppc, wpc, asked, written, copied, i, stored>>
    BY <1>13 DEF FlushBuffer, Fifo!TtyFlushBuffer, Fifo!Flush
  <2>5. Bounded'
    BY <1>0, <2>4 DEF SmallCounts
  <2> QED
    BY <1>0, <2>3, <2>4, <2>5
<1>14. CASE CoreHangsUp
  <2>1. drained' = (drained \/ wpc \in Calling) /\ drained \in BOOLEAN
    BY <1>14 DEF CoreHangsUp, Flushed, TxInv, TypeOK
  <2>2. flushed' = (flushed \/ wpc \in Calling \cup {"sleep"}) /\ flushed \in BOOLEAN
    BY <1>14 DEF CoreHangsUp, Flushed, TxInv, TypeOK
  <2>3. (~drained' \/ ~flushed') => wpc \notin Calling
    BY <2>1, <2>2, Zenon
  <2>4. count' = 0 /\ UNCHANGED <<ppc, wpc, asked, written, copied, i, stored>>
    BY <1>14 DEF CoreHangsUp, Fifo!CoreFlush, Fifo!Flush
  <2>5. Bounded'
    BY <1>0, <2>4 DEF SmallCounts
  <2> QED
    BY <1>0, <2>3, <2>4, <2>5
<1>15. CASE RxCharEmpty \/ RxCharCheck
  BY <1>0, <1>15 DEF RxCharEmpty, RxCharCheck, Received, Fifo!FromCharEmpty, Fifo!FromCharCheck
<1>16. CASE RxCharTake
  <2>1. drained' = (drained \/ wpc \in Calling) /\ drained \in BOOLEAN
    BY <1>16 DEF RxCharTake, TxInv, TypeOK
  <2>2. ~drained' => wpc \notin Calling
    BY <2>1, Zenon
  <2>3. /\ count' = count - 1
        /\ UNCHANGED <<ppc, wpc, asked, written, copied, i, stored, crossed, flushed>>
    BY <1>16 DEF RxCharTake, Received, Fifo!FromCharTake
  <2> QED
    BY <1>0, <2>2, <2>3
<1>17. CASE BgStart \/ CoreSends \/ CoreRaisesCts \/ CtsQueue \/ HardReset \/ RxStart
            \/ RxNum \/ RxEvent \/ RxQueue \/ background_event_handler
  BY <1>17 DEF BgStart, CoreSends, CoreRaisesCts, CtsQueue, HardReset, RxStart, RxNum,
     RxEvent, RxQueue, background_event_handler, HandlerStart, HandlerTest, HandlerWake
<1> QED
  BY <1>1, <1>2, <1>3, <1>4, <1>5, <1>6, <1>7, <1>8, <1>9, <1>10, <1>11, <1>12,
     <1>13, <1>14, <1>15, <1>16, <1>17
     DEF Next, softserial_write, clm_rx_int

\* The invariant of a call of softserial_write.
THEOREM CallInvariance == ASSUME SmallCounts PROVE Spec => []CallInv
<1>1. Init => CallInv
  BY CallInitInv
<1>2. CallInv /\ [Next]_vars => CallInv'
  BY CallNextInv
<1> QED
  BY <1>1, <1>2, PTL DEF Spec

\* What softserial_write reports as written is in the FIFO, however the consumer
\* and the writer interleave, unless others store or flush meanwhile.
THEOREM WriteLosesNothing == ASSUME SmallCounts PROVE Spec => []NothingLost
<1>1. CallInv => NothingLost
  BY DEF CallInv, RoomKept, NothingLost
<1> QED
  BY <1>1, CallInvariance, PTL

\* No copy goes past the characters softserial_write was given while no character
\* leaves the FIFO, although each copy is bounded by all that was asked.
THEOREM WriteOverrunsNothing == ASSUME SmallCounts PROVE Spec => []NoOverrun
<1>1. CallInv => NoOverrun
  BY DEF CallInv, InBatch, OneCopy, NoOverrun, TxInv, TypeOK
<1> QED
  BY <1>1, CallInvariance, PTL

-----------------------------------------------------------------------------
(* A process that writes alone: no throttle, XON/XOFF or put_char meanwhile.  *)

\* Then the process is the only producer of the FIFO.
Alone == INSTANCE UartFifoProofs WITH
             Producers <- {"tty"},
             ppc <- [p \in {"tty"} |-> ppc[p]],
             pch <- [p \in {"tty"} |-> pch[p]]

LEMMA StartIsAlone == Init => Alone!Init
  BY DEF Init, Fifo!Init, Alone!Init, Producers

\* The other context, which has not begun to store, never does.
OtherIdle == ppc["other"] = "idle"

LEMMA StepIsAlone ==
    ASSUME ~Others, TypeOK, OtherIdle, [Next]_vars
    PROVE  OtherIdle' /\ [Alone!Next]_(Alone!vars)
<1> USE DEF OtherIdle, TypeOK, Fifo!TypeOK, fifo, Alone!vars, Alone!fifo, Fifo!fifo, Producers
<1>1. CASE UNCHANGED vars
  BY <1>1 DEF vars
<1>2. ~OtherPut /\ ~OtherStore
  BY DEF OtherPut, OtherStore, Fifo!ToCharStore
<1>4. CASE WritePut
  BY <1>4 DEF WritePut, Alone!Next, Fifo!ToCharCheck, Alone!ToCharCheck, Fifo!ToFree, Alone!ToFree
<1>5. CASE WriteStore
  BY <1>5 DEF WriteStore, Alone!Next, Fifo!ToCharStore, Alone!ToCharStore
<1>6. CASE FlushBuffer
  BY <1>6 DEF FlushBuffer, Alone!Next, Fifo!TtyFlushBuffer, Alone!TtyFlushBuffer,
              Fifo!Flush, Alone!Flush
<1>7. CASE CoreHangsUp
  BY <1>7 DEF CoreHangsUp, Alone!Next, Fifo!CoreFlush, Alone!CoreFlush, Fifo!Flush, Alone!Flush
<1>8. CASE RxCharEmpty
  BY <1>8 DEF RxCharEmpty, Alone!Next, Fifo!FromCharEmpty, Alone!FromCharEmpty
<1>9. CASE RxCharCheck
  BY <1>9 DEF RxCharCheck, Alone!Next, Fifo!FromCharCheck, Alone!FromCharCheck
<1>10. CASE RxCharTake
  BY <1>10 DEF RxCharTake, Alone!Next, Fifo!FromCharTake, Alone!FromCharTake
<1>11. CASE WriteCalled \/ DrainCalled \/ DrainReturns \/ DrainGivesUp \/ WriteLoop \/ WriteCopy
           \/ WriteWild \/ WriteEnd \/ WriteBatchEnd \/ WriteNextChar
           \/ WritePutFull \/ WriteReturns \/ WriteWoken
  BY <1>11 DEF WriteCalled, DrainCalled, DrainReturns, DrainGivesUp, WriteLoop, WriteCopy,
     WriteWild, WriteEnd, WriteBatchEnd, WriteNextChar, WritePutFull,
     WriteReturns, WriteWoken
<1>12. CASE BgStart \/ CoreSends \/ CoreRaisesCts \/ CtsQueue \/ HardReset \/ RxStart
            \/ RxNum \/ RxEvent \/ RxQueue \/ background_event_handler
  BY <1>12 DEF BgStart, CoreSends, CoreRaisesCts, CtsQueue, HardReset, RxStart, RxNum,
     RxEvent, RxQueue, background_event_handler, HandlerStart, HandlerTest, HandlerWake
<1> QED
  BY <1>1, <1>2, <1>4, <1>5, <1>6, <1>7, <1>8, <1>9, <1>10, <1>11, <1>12
     DEF Next, softserial_write, clm_rx_int

\* So what UartFifoProofs shows of a FIFO with one producer holds of the path.
THEOREM TxAloneUsesFifo == ASSUME ~Others PROVE Spec => Alone!Spec
<1>1. Init => Alone!Init /\ OtherIdle
  BY StartIsAlone DEF Init, Fifo!Init, OtherIdle, Producers
<1>2. TypeOK /\ OtherIdle /\ [Next]_vars => OtherIdle' /\ [Alone!Next]_(Alone!vars)
  BY StepIsAlone
<1> QED
  BY <1>1, <1>2, TxTypeCorrect, PTL DEF Spec, Alone!Spec

\* Unless processes flush, the process and the core see a bounded queue: what is
\* written is taken once, in order, and nothing else, until the core hangs up.
THEOREM TxAloneIsQueue == ASSUME ~Others, ~TtyFlush PROVE Spec => Alone!QueueSpec
<1>1. Alone!Spec => Alone!QueueSpec
  <2>1. Alone!SingleProducer
    BY DEF Alone!SingleProducer
  <2> QED
    BY <2>1, TxAssumption, Alone!FifoIsQueue
<1> QED
  BY <1>1, TxAloneUsesFifo

\* The FIFO is so small that its room is the same number as an int.
SmallFifo == N + 1 < UIntMod \div 2

LEMMA RoomNotNegative ==
    ASSUME SmallFifo, TypeOK, Places, count <= N
    PROVE  softcore_space >= 0
<1> USE TxAssumption
<1>1. N - count \in 0..N+1
  BY DEF TypeOK, Fifo!TypeOK, Places
<1>2. Fifo!ToFree = N - count
  BY <1>1, ModSmall DEF Fifo!ToFree
<1> QED
  BY <1>1, <1>2 DEF softcore_space, SmallFifo

\* Whoever flushes, a process that writes alone is never told of a negative room,
\* so no memcpy of softserial_write is given a negative size.
NeverWild == wpc # "wild"

\* By NoOverflow of UartFifo the ring is not overfilled, and the room not below 0.
THEOREM AloneIsNeverWild ==
    ASSUME SmallFifo, ~Others
    PROVE  Spec => []NeverWild
<1>1. Spec => []Alone!NoOverflow
  <2>1. Alone!Spec => []Alone!NoOverflow
    BY TxAssumption, Alone!OneProducerNeverOverflows
  <2> QED
    BY <2>1, TxAloneUsesFifo
<1>2. Init => NeverWild
  BY DEF Init, NeverWild
<1>3. TxInv /\ Alone!NoOverflow /\ NeverWild /\ [Next]_vars => NeverWild'
  <2> SUFFICES ASSUME TxInv, Alone!NoOverflow, NeverWild, [Next]_vars
               PROVE  NeverWild'
    OBVIOUS
  <2>1. softcore_space >= 0
    BY RoomNotNegative DEF Alone!NoOverflow, Alone!SingleProducer, TxInv
  <2>2. ~WriteWild
    BY <2>1, TxAssumption
       DEF WriteWild, softcore_space, Fifo!ToFree, TxInv, TypeOK, Fifo!TypeOK
  <2> USE DEF NeverWild
  <2>3. CASE softserial_write
    BY <2>2, <2>3 DEF softserial_write, WriteLoop, WriteCopy, WriteEnd, WriteBatchEnd,
       WriteNextChar, WritePut, WritePutFull, WriteStore, WriteReturns, WriteWoken
  <2>4. CASE WriteCalled \/ DrainCalled \/ DrainReturns \/ DrainGivesUp
    BY <2>4 DEF WriteCalled, DrainCalled, DrainReturns, DrainGivesUp
  <2>5. CASE OtherPut \/ OtherStore \/ FlushBuffer \/ BgStart \/ CoreSends \/ CoreRaisesCts
             \/ CtsQueue \/ CoreHangsUp \/ HardReset \/ clm_rx_int \/ background_event_handler
             \/ UNCHANGED vars
    BY <2>5 DEF OtherPut, OtherStore, FlushBuffer, BgStart, CoreSends, CoreRaisesCts,
       CtsQueue, CoreHangsUp, HardReset, clm_rx_int, RxStart, RxNum, RxCharEmpty,
       RxCharCheck, RxCharTake, RxEvent, RxQueue, Received, background_event_handler,
       HandlerStart, HandlerTest, HandlerWake, writer, vars
  <2> QED
    BY <2>3, <2>4, <2>5 DEF Next
<1> QED
  BY <1>1, <1>2, <1>3, TxInvariance, PTL DEF Spec
=============================================================================
