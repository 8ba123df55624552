------------------------------ MODULE UartFifo ------------------------------
(***************************************************************************)
(* One character FIFO of the software UART (uart.c).  The file holds two   *)
(* copies of the same code: uart_tx_fifo and the UART_dce_ routines, from  *)
(* the tty to the modem, under Lock_PortQIn, and uart_rx_fifo and the      *)
(* UART_dte_ routines, from the modem to the tty, under Lock_PortQOut.     *)
(* The module is written after the dce copy.                               *)
(*                                                                         *)
(* put, get and count are separate atomic counters.  The room check of a   *)
(* producer and the data check of the consumer read count BEFORE they take *)
(* the lock, so both are steps of their own here; a section under the lock *)
(* is one step, because whoever does not hold the lock reads only count.   *)
(***************************************************************************)
EXTENDS Integers

CONSTANTS
    N,          \* sizeof(uart_tx_fifo)
    Chars,      \* characters the producers send
    Nul,        \* the character 0, returned when there is no data
    Producers,  \* contexts that may be inside UART_dce_to_char at once
    TtyFlush,   \* TRUE if a process may call softserial_flush_buffer at any time
    UIntMod,    \* 2 ^ width of unsigned int
    MaxCount    \* model bound: no character is accepted at a greater count

ASSUME FifoAssumption ==
    /\ N \in Nat \ {0}
    /\ Nul \notin Chars
    /\ TtyFlush \in BOOLEAN
    /\ UIntMod \in Nat /\ UIntMod > N + 1
    /\ MaxCount \in Int

VARIABLES
    buf,     \* uart_tx_fifo
    put,     \* uart_tx_put_index
    get,     \* uart_tx_get_index
    count,   \* uart_tx_count, a signed atomic_t
    ppc,     \* ppc[p]: "idle", or "store" once p has seen room
    pch,     \* pch[p]: the character p is about to store
    cpc,     \* "idle", or "take" once the consumer has seen data
    ch       \* the last result of UART_dce_from_char

fifo == <<buf, put, get, count>>
vars == <<fifo, ppc, pch, cpc, ch>>

TypeOK ==
    /\ buf \in [0..N-1 -> Chars \cup {Nul}]
    /\ put \in 0..N-1
    /\ get \in 0..N-1
    /\ count \in Int
    /\ ppc \in [Producers -> {"idle", "store"}]
    /\ pch \in [Producers -> Chars \cup {Nul}]
    /\ \A p \in Producers : ppc[p] = "store" => pch[p] \in Chars
    /\ cpc \in {"idle", "take"}
    /\ ch \in Chars \cup {Nul}

Init ==
    /\ buf = [i \in 0..N-1 |-> Nul]
    /\ put = 0
    /\ get = 0
    /\ count = 0
    /\ ppc = [p \in Producers |-> "idle"]
    /\ pch = [p \in Producers |-> Nul]
    /\ cpc = "idle"
    /\ ch = Nul

-----------------------------------------------------------------------------

\* What free would be if a full FIFO counted as having room for one more.
ToFreeOffByOne == (N + 1 - count) % UIntMod

\* UART_dce_to_num and UART_dce_to_free return unsigned int.
ToNum == count % UIntMod
ToFree == (N - count) % UIntMod

\* UART_dce_to_char up to the acquisition of the lock: there is room.  A full
\* FIFO makes the routine return 1 and change nothing.
ToCharCheck(p, c) ==
    /\ ppc[p] = "idle"
    /\ count <= MaxCount
    /\ ToFree > 0
    /\ ppc' = [ppc EXCEPT ![p] = "store"]
    /\ pch' = [pch EXCEPT ![p] = c]
    /\ UNCHANGED <<fifo, cpc, ch>>

\* UART_dce_to_char under the lock.
ToCharStore(p) ==
    /\ ppc[p] = "store"
    /\ buf' = [buf EXCEPT ![put] = pch[p]]
    /\ put' = (put + 1) % N
    /\ count' = count + 1
    /\ ppc' = [ppc EXCEPT ![p] = "idle"]
    /\ pch' = [pch EXCEPT ![p] = Nul]
    /\ UNCHANGED <<get, cpc, ch>>

\* UART_dce_from_char when it sees no data.
FromCharEmpty ==
    /\ cpc = "idle"
    /\ ~(count > 0)
    /\ ch' = Nul
    /\ UNCHANGED <<fifo, ppc, pch, cpc>>

\* UART_dce_from_char up to the acquisition of the lock: there is data.
FromCharCheck ==
    /\ cpc = "idle"
    /\ count > 0
    /\ cpc' = "take"
    /\ UNCHANGED <<fifo, ppc, pch, ch>>

\* The take if the index were advanced before the character is read.
FromCharTakeLate ==
    /\ cpc = "take"
    /\ get' = (get + 1) % N
    /\ ch' = buf[get']
    /\ count' = count - 1
    /\ cpc' = "idle"
    /\ UNCHANGED <<buf, put, ppc, pch>>

\* UART_dce_from_char under the lock.
FromCharTake ==
    /\ cpc = "take"
    /\ ch' = buf[get]
    /\ get' = (get + 1) % N
    /\ count' = count - 1
    /\ cpc' = "idle"
    /\ UNCHANGED <<buf, put, ppc, pch>>

\* The flush if it forgot one of the three counters.
FlushKeepsGet ==
    /\ put' = 0
    /\ count' = 0
    /\ UNCHANGED <<get, buf, ppc, pch, cpc, ch>>

\* UART_dce_flush.
Flush ==
    /\ put' = 0
    /\ get' = 0
    /\ count' = 0
    /\ UNCHANGED <<buf, ppc, pch, cpc, ch>>

\* The modem core flushes the FIFO when it hangs up.  It runs in clm_bg, as the
\* consumer clm_rx_int does, so the consumer is not inside UART_dce_from_char.
CoreFlush ==
    /\ cpc = "idle"
    /\ Flush

\* softserial_flush_buffer, in the context of any process.
TtyFlushBuffer ==
    /\ TtyFlush
    /\ Flush

Next ==
    \/ \E p \in Producers, c \in Chars : ToCharCheck(p, c)
    \/ \E p \in Producers : ToCharStore(p)
    \/ FromCharEmpty
    \/ FromCharCheck
    \/ FromCharTake
    \/ CoreFlush
    \/ TtyFlushBuffer

Spec == Init /\ [][Next]_vars

-----------------------------------------------------------------------------

SingleProducer == \A p, r \in Producers : p = r

\* The three counters stay consistent, whoever races with whom: the distance
\* from get to put, round the buffer, is the number of characters it holds.
\* This is what the lock around each update is for (MT_AcquireLock_PortQIn).
IndexCount == put = (get + count) % N

\* As long as one context at a time sends, the room check made before the lock
\* is still true under it, whatever the consumer and the flushers do, so an
\* unread character is never overwritten.
NoOverflow == SingleProducer => count <= N

\* If only the modem core flushes, the consumer never takes from an empty FIFO.
NoUnderflow == ~TtyFlush => count >= 0

\* Both, for the copy that nobody but the core stores in and flushes.
InBounds == NoOverflow /\ NoUnderflow

\* A process that flushes while the consumer is between its check and the lock
\* makes count negative, but the damage does not accumulate: count stays at -1,
\* because the consumer's own check is signed and fails until the next store.
UnderflowBound == count >= -1

\* With one producer and no flush from the tty the FIFO is a bounded queue:
\* nothing is lost, duplicated, reordered or overwritten.
unread == [i \in 1..count |-> buf[(get + i - 1) % N]]
Queue == INSTANCE CharQueue WITH q <- unread, got <- ch
QueueSpec == Queue!QSpec

-----------------------------------------------------------------------------

\* uart.c:679, before the room check: "If room in the buffer, transmit the
\* character".  The buffer has room for N.
StoredOnlyWithRoom == count <= N
=============================================================================
