--------------------------- MODULE UartFifoProofs ---------------------------
(***************************************************************************)
(* The safety of UartFifo for every size of the FIFO, every number of      *)
(* producers and every interleaving of their checks with the locked        *)
(* sections of the others.                                                 *)
(***************************************************************************)
EXTENDS UartFifo, Sequences, SequenceTheorems, TLAPS

(***************************************************************************)
(* Arithmetic modulo N.                                                    *)
(***************************************************************************)

\* An integer is its quotient times N plus its remainder.
LEMMA DivMod ==
    ASSUME NEW n \in Nat \ {0}, NEW x \in Int
    PROVE  /\ x \div n \in Int
           /\ x % n \in 0..n-1
           /\ x = n * (x \div n) + (x % n)
  OBVIOUS

\* The remainder is unique.
LEMMA ModUnique ==
    ASSUME NEW n \in Nat \ {0}, NEW k \in Int, NEW r \in 0..n-1
    PROVE  (n * k + r) % n = r
  OBVIOUS

\* A remainder may be taken before an addition.
LEMMA ModAdd ==
    ASSUME NEW n \in Nat \ {0}, NEW x \in Int, NEW y \in Int
    PROVE  ((x % n) + y) % n = (x + y) % n
<1> DEFINE k == x \div n
           r == x % n
           j == (r + y) \div n
           s == (r + y) % n
<1>1. k \in Int /\ r \in 0..n-1 /\ x = n * k + r
  BY DivMod
<1>2. r + y \in Int
  BY <1>1
<1>3. j \in Int /\ s \in 0..n-1 /\ r + y = n * j + s
  BY <1>2, DivMod
<1> HIDE DEF k, r, j, s
<1>4. x + y = n * (k + j) + s
  BY <1>1, <1>3
<1>5. (n * (k + j) + s) % n = s
  BY <1>1, <1>3, ModUnique
<1> QED
  BY <1>4, <1>5 DEF r, s

(***************************************************************************)
(* The inductive invariant.  NoOverflow needs what a producer has checked  *)
(* to be still true when it stores, and NoUnderflow and UnderflowBound the *)
(* same of the consumer when it takes.                                     *)
(***************************************************************************)

CheckedRoom ==
    SingleProducer => \A p \in Producers : ppc[p] = "store" => count < N

CheckedData ==
    cpc = "take" => /\ count >= 0
                    /\ ~TtyFlush => count > 0

FifoInv ==
    /\ TypeOK
    /\ IndexCount
    /\ NoOverflow
    /\ CheckedRoom
    /\ NoUnderflow
    /\ UnderflowBound
    /\ CheckedData

\* The FIFO is empty and idle at the start.
LEMMA InitInv == Init => FifoInv
<1> SUFFICES ASSUME Init PROVE FifoInv
  OBVIOUS
<1> USE FifoAssumption
<1>1. TypeOK
  BY DEF Init, TypeOK
<1>2. IndexCount
  BY DEF Init, IndexCount
<1> QED
  BY <1>1, <1>2
     DEF Init, FifoInv, NoOverflow, CheckedRoom, NoUnderflow, UnderflowBound,
         CheckedData

\* The room check, unsigned as it is, passes only when count differs from N.
LEMMA RoomMeansNotFull ==
    ASSUME count \in Int, ToFree > 0
    PROVE  count # N
  BY FifoAssumption DEF ToFree

\* Every step keeps the invariant.
LEMMA NextInv == FifoInv /\ [Next]_vars => FifoInv'
<1> SUFFICES ASSUME FifoInv, [Next]_vars PROVE FifoInv'
  OBVIOUS
<1> USE FifoAssumption
<1> USE DEF FifoInv, fifo
<1>1. ASSUME NEW p \in Producers, NEW c \in Chars, ToCharCheck(p, c)
      PROVE  FifoInv'
  <2>1. TypeOK'
    BY <1>1 DEF TypeOK, ToCharCheck
  <2>2. count # N /\ count \in Int
    BY <1>1, RoomMeansNotFull DEF ToCharCheck, TypeOK
  <2>3. CheckedRoom'
    BY <1>1, <2>2 DEF ToCharCheck, CheckedRoom, NoOverflow, SingleProducer, TypeOK
  <2> QED
    BY <1>1, <2>1, <2>3
       DEF ToCharCheck, IndexCount, NoOverflow, NoUnderflow, UnderflowBound,
           CheckedData
<1>2. ASSUME NEW p \in Producers, ToCharStore(p)
      PROVE  FifoInv'
  <2>1. TypeOK'
    BY <1>2 DEF TypeOK, ToCharStore
  <2>2. IndexCount'
    <3>1. put' = (((get + count) % N) + 1) % N
      BY <1>2 DEF ToCharStore, IndexCount
    <3>2. get + count \in Int
      BY DEF TypeOK
    <3>3. put' = ((get + count) + 1) % N
      BY <3>1, <3>2, ModAdd
    <3>4. get' + count' = (get + count) + 1
      BY <1>2 DEF ToCharStore, TypeOK
    <3> QED
      BY <3>3, <3>4 DEF IndexCount
  <2>3. NoOverflow' /\ CheckedRoom'
    BY <1>2 DEF ToCharStore, NoOverflow, CheckedRoom, SingleProducer, TypeOK
  <2>4. NoUnderflow' /\ UnderflowBound' /\ CheckedData'
    BY <1>2 DEF ToCharStore, NoUnderflow, UnderflowBound, CheckedData, TypeOK
  <2> QED
    BY <2>1, <2>2, <2>3, <2>4
<1>3. CASE FromCharEmpty
  <2>1. TypeOK'
    BY <1>3 DEF TypeOK, FromCharEmpty
  <2> QED
    BY <1>3, <2>1
       DEF FromCharEmpty, IndexCount, NoOverflow, CheckedRoom, NoUnderflow,
           UnderflowBound, CheckedData
<1>4. CASE FromCharCheck
  <2>1. TypeOK'
    BY <1>4 DEF TypeOK, FromCharCheck
  <2> QED
    BY <1>4, <2>1
       DEF FromCharCheck, IndexCount, NoOverflow, CheckedRoom, NoUnderflow,
           UnderflowBound, CheckedData, TypeOK
<1>5. CASE FromCharTake
  <2>1. TypeOK'
    BY <1>5 DEF TypeOK, FromCharTake
  <2>2. IndexCount'
    <3>1. (get' + count') % N = ((get + 1) + (count - 1)) % N
      <4>1. get' + count' = ((get + 1) % N) + (count - 1)
        BY <1>5 DEF FromCharTake
      <4>2. get + 1 \in Int /\ count - 1 \in Int
        BY DEF TypeOK
      <4> QED
        BY <4>1, <4>2, ModAdd
    <3>2. (get + 1) + (count - 1) = get + count
      BY DEF TypeOK
    <3> QED
      BY <1>5, <3>1, <3>2 DEF FromCharTake, IndexCount
  <2>3. NoOverflow' /\ CheckedRoom'
    BY <1>5 DEF FromCharTake, NoOverflow, CheckedRoom, SingleProducer, TypeOK
  <2>4. NoUnderflow' /\ UnderflowBound' /\ CheckedData'
    BY <1>5 DEF FromCharTake, NoUnderflow, UnderflowBound, CheckedData, TypeOK
  <2> QED
    BY <2>1, <2>2, <2>3, <2>4
<1>6. CASE CoreFlush \/ TtyFlushBuffer
  <2>1. TypeOK'
    BY <1>6 DEF TypeOK, CoreFlush, TtyFlushBuffer, Flush
  <2>2. IndexCount'
    BY <1>6 DEF CoreFlush, TtyFlushBuffer, Flush, IndexCount
  <2>3. NoOverflow' /\ CheckedRoom' /\ NoUnderflow' /\ UnderflowBound'
    BY <1>6
       DEF CoreFlush, TtyFlushBuffer, Flush, NoOverflow, CheckedRoom,
           NoUnderflow, UnderflowBound
  <2>4. CheckedData'
    BY <1>6 DEF CoreFlush, TtyFlushBuffer, Flush, CheckedData
  <2> QED
    BY <2>1, <2>2, <2>3, <2>4
<1>7. CASE UNCHANGED vars
  BY <1>7
     DEF vars, TypeOK, IndexCount, NoOverflow, CheckedRoom, NoUnderflow,
         UnderflowBound, CheckedData
<1> QED
  BY <1>1, <1>2, <1>3, <1>4, <1>5, <1>6, <1>7 DEF Next

\* FifoInv holds in every reachable state.
THEOREM Invariance == Spec => []FifoInv
<1>1. Init => FifoInv
  BY InitInv
<1>2. FifoInv /\ [Next]_vars => FifoInv'
  BY NextInv
<1> QED
  BY <1>1, <1>2, PTL DEF Spec

\* The variables keep their types, in particular both indices stay inside the
\* array, whoever races with whom.
THEOREM TypeCorrect == Spec => []TypeOK
  BY Invariance, PTL DEF FifoInv

\* The two indices and the counter stay consistent, whoever races with whom.
THEOREM IndicesConsistent == Spec => []IndexCount
  BY Invariance, PTL DEF FifoInv

\* A FIFO with one producer at a time never holds more than N characters,
\* with any flushing.
THEOREM OneProducerNeverOverflows == Spec => []NoOverflow
  BY Invariance, PTL DEF FifoInv

\* Without a flush from the tty, count is never negative.
THEOREM CoreFlushNeverUnderflows == Spec => []NoUnderflow
  BY Invariance, PTL DEF FifoInv

\* So the count of a FIFO that only its one producer and the core use is always
\* that of what it holds.
THEOREM CountInBounds == Spec => []InBounds
<1>1. FifoInv => InBounds
  BY DEF FifoInv, InBounds
<1> QED
  BY <1>1, Invariance, PTL

\* With a flush from the tty, count never falls below -1.
THEOREM UnderflowIsBounded == Spec => []UnderflowBound
  BY Invariance, PTL DEF FifoInv

(***************************************************************************)
(* With one producer and no flush from the tty, UartFifo implements        *)
(* CharQueue.                                                              *)
(***************************************************************************)

\* Two positions less than n apart are different slots.
LEMMA ModDistinct ==
    ASSUME NEW n \in Nat \ {0}, NEW x \in Int, NEW y \in Int, x < y, y < x + n
    PROVE  x % n # y % n
<1> DEFINE k == x \div n
           j == y \div n
<1>1. /\ k \in Int /\ x % n \in 0..n-1 /\ x = n * k + (x % n)
      /\ j \in Int /\ y % n \in 0..n-1 /\ y = n * j + (y % n)
  BY DivMod
<1> HIDE DEF k, j
<1>2. SUFFICES ASSUME x % n = y % n PROVE FALSE
  OBVIOUS
<1>3. y - x = n * (j - k)
  BY <1>1, <1>2
<1>4. CASE j - k <= 0
  BY <1>1, <1>3, <1>4
<1>5. CASE j - k >= 1
  BY <1>1, <1>3, <1>5
<1> QED
  BY <1>1, <1>4, <1>5

\* What a FIFO holds is a sequence of count elements.
LEMMA UnreadSeq ==
    ASSUME TypeOK, count >= 0
    PROVE  /\ unread \in Seq(Chars \cup {Nul})
           /\ Len(unread) = count
           /\ \A i \in 1..count : unread[i] = buf[(get + i - 1) % N]
<1>1. \A i \in 1..count : buf[(get + i - 1) % N] \in Chars \cup {Nul}
  BY FifoAssumption DEF TypeOK
<1> QED
  BY <1>1 DEF unread, TypeOK

LEMMA StoreIsPut ==
    ASSUME FifoInv, FifoInv', SingleProducer, ~TtyFlush,
           NEW p \in Producers, ToCharStore(p)
    PROVE  Queue!Put(pch[p])
<1> USE FifoAssumption
<1> USE DEF FifoInv
<1>1. /\ count \in 0..N-1
      /\ count' = count + 1
      /\ get' = get
      /\ put \in 0..N-1
      /\ put = (get + count) % N
      /\ get \in 0..N-1
  BY DEF ToCharStore, CheckedRoom, NoUnderflow, TypeOK, IndexCount
<1>2. buf' = [buf EXCEPT ![put] = pch[p]] /\ buf \in [0..N-1 -> Chars \cup {Nul}]
  BY DEF ToCharStore, TypeOK
<1>3. /\ unread \in Seq(Chars \cup {Nul})
      /\ Len(unread) = count
      /\ \A i \in 1..count : unread[i] = buf[(get + i - 1) % N]
  BY <1>1, UnreadSeq
<1>4. unread' = [i \in 1..count+1 |-> buf'[(get + i - 1) % N]]
  BY <1>1 DEF unread
<1>5. ASSUME NEW i \in 1..count
      PROVE  buf'[(get + i - 1) % N] = unread[i]
  <2>1. (get + i - 1) % N # (get + count) % N
    <3>1. /\ get + i - 1 \in Int /\ get + count \in Int
          /\ get + i - 1 < get + count /\ get + count < get + i - 1 + N
      BY <1>1
    <3> QED
      BY <3>1, ModDistinct
  <2>2. (get + i - 1) % N \in 0..N-1
    BY <1>1
  <2> QED
    BY <1>1, <1>2, <1>3, <2>1, <2>2
<1>6. buf'[(get + (count + 1) - 1) % N] = pch[p]
  <2>1. get + (count + 1) - 1 = get + count
    BY <1>1
  <2> QED
    BY <1>1, <1>2, <2>1
<1>7. Append(unread, pch[p])
        = [i \in 1..count+1 |-> IF i <= count THEN unread[i] ELSE pch[p]]
  BY <1>1, <1>3
<1>8. unread' = Append(unread, pch[p])
  <2> SUFFICES ASSUME NEW i \in 1..count+1
               PROVE  buf'[(get + i - 1) % N]
                        = IF i <= count THEN unread[i] ELSE pch[p]
    BY <1>4, <1>7
  <2> QED
    BY <1>1, <1>5, <1>6
<1> QED
  BY <1>1, <1>3, <1>8 DEF Queue!Put, ToCharStore

LEMMA TakeIsTake ==
    ASSUME FifoInv, FifoInv', ~TtyFlush, FromCharTake
    PROVE  Queue!Take
<1> USE FifoAssumption
<1> USE DEF FifoInv
<1>1. /\ count \in Nat \ {0}
      /\ count' = count - 1
      /\ get \in 0..N-1
      /\ get' = (get + 1) % N
      /\ buf' = buf
      /\ ch' = buf[get]
  BY DEF FromCharTake, CheckedData, TypeOK
<1>2. /\ unread \in Seq(Chars \cup {Nul})
      /\ Len(unread) = count
      /\ \A i \in 1..count : unread[i] = buf[(get + i - 1) % N]
  BY <1>1, UnreadSeq
<1>3. unread # <<>> /\ ch' = Head(unread)
  <2>1. (get + 1 - 1) % N = get
    BY <1>1
  <2>2. unread[1] = buf[get]
    BY <1>1, <1>2, <2>1
  <2> QED
    BY <1>1, <1>2, <2>2
<1>4. unread' = [i \in 1..count-1 |-> buf[(((get + 1) % N) + i - 1) % N]]
  BY <1>1 DEF unread
<1>5. /\ Tail(unread) \in Seq(Chars \cup {Nul})
      /\ Len(Tail(unread)) = count - 1
      /\ \A i \in 1..count-1 : Tail(unread)[i] = unread[i+1]
  BY <1>1, <1>2, <1>3, HeadTailProperties
<1>6. ASSUME NEW i \in 1..count-1
      PROVE  buf[(((get + 1) % N) + i - 1) % N] = unread[i+1]
  <2>1. get + 1 \in Int /\ i - 1 \in Int /\ i + 1 \in 1..count
    BY <1>1
  <2>2. (((get + 1) % N) + (i - 1)) % N = ((get + 1) + (i - 1)) % N
    BY <2>1, ModAdd
  <2>3. ((get + 1) % N) + i - 1 = ((get + 1) % N) + (i - 1)
    BY <1>1
  <2>4. (get + 1) + (i - 1) = get + (i + 1) - 1
    BY <1>1
  <2>5. unread[i+1] = buf[(get + (i + 1) - 1) % N]
    BY <1>2, <2>1
  <2> QED
    BY <2>2, <2>3, <2>4, <2>5
<1>7. \A i \in 1..count-1 : unread[i+1] \in Chars \cup {Nul}
  BY <1>1, <1>2
<1>8. /\ unread' \in Seq(Chars \cup {Nul})
      /\ Len(unread') = count - 1
      /\ \A i \in 1..count-1 : unread'[i] = unread[i+1]
  <2>1. unread' = [i \in 1..count-1 |-> unread[i+1]]
    BY <1>4, <1>6
  <2>2. count - 1 \in Nat
    BY <1>1
  <2> QED
    BY <1>7, <2>1, <2>2
<1>9. unread' = Tail(unread)
  BY <1>5, <1>8, SeqEqual
<1> QED
  BY <1>3, <1>9 DEF Queue!Take

\* Every step of the FIFO is a step of the queue, or changes neither the
\* characters held nor the last one delivered.
LEMMA StepRefines ==
    ASSUME FifoInv, FifoInv', SingleProducer, ~TtyFlush, [Next]_vars
    PROVE  [Queue!QNext]_(Queue!qvars)
<1> USE DEF FifoInv
<1>1. ASSUME NEW p \in Producers, NEW c \in Chars, ToCharCheck(p, c)
      PROVE  UNCHANGED Queue!qvars
  BY <1>1 DEF ToCharCheck, fifo, Queue!qvars, unread
<1>2. ASSUME NEW p \in Producers, ToCharStore(p)
      PROVE  Queue!QNext
  <2>1. pch[p] \in Chars
    BY <1>2 DEF ToCharStore, TypeOK
  <2> QED
    BY <1>2, <2>1, StoreIsPut DEF Queue!QNext
<1>3. CASE FromCharEmpty
  <2>1. count = 0
    BY <1>3 DEF FromCharEmpty, NoUnderflow, TypeOK
  <2>2. unread = <<>>
    BY <2>1 DEF unread
  <2> QED
    BY <1>3, <2>2 DEF FromCharEmpty, fifo, unread, Queue!QNext, Queue!TakeNothing
<1>4. CASE FromCharCheck
  BY <1>4 DEF FromCharCheck, fifo, Queue!qvars, unread
<1>5. CASE FromCharTake
  BY <1>5, TakeIsTake DEF Queue!QNext
<1>6. CASE CoreFlush \/ TtyFlushBuffer
  <2>1. count' = 0 /\ ch' = ch
    BY <1>6 DEF CoreFlush, TtyFlushBuffer, Flush
  <2>2. unread' = <<>>
    BY <2>1 DEF unread
  <2> QED
    BY <2>1, <2>2 DEF Queue!QNext, Queue!Empty
<1>7. CASE UNCHANGED vars
  BY <1>7 DEF vars, fifo, Queue!qvars, unread
<1> QED
  BY <1>1, <1>2, <1>3, <1>4, <1>5, <1>6, <1>7 DEF Next

\* One producer and no flush from the tty: the FIFO is a bounded queue, for
\* every size.  The lock covers too little (both checks are made outside it),
\* and this says when that is harmless.
THEOREM FifoIsQueue ==
    ASSUME SingleProducer, ~TtyFlush
    PROVE  Spec => QueueSpec
<1>1. Init => Queue!QInit
  BY DEF Init, Queue!QInit, unread
<1>2. FifoInv /\ FifoInv' /\ [Next]_vars => [Queue!QNext]_(Queue!qvars)
  BY StepRefines
<1> QED
  BY <1>1, <1>2, Invariance, PTL DEF Spec, QueueSpec, Queue!QSpec
=============================================================================
