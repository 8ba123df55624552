---------------------------- MODULE RxPathProofs ----------------------------
(***************************************************************************)
(* The receive path keeps the order of the characters and leaves none      *)
(* uncommitted, for every size of the FIFO and of the tty's buffer and     *)
(* every limit.                                                            *)
(*                                                                         *)
(* Every step of RxPath is a step of UartFifo or leaves the FIFO alone, so *)
(* what UartFifoProofs shows of the FIFO holds here (FifoKept), and since  *)
(* the core is its only producer the receive FIFO is a CharQueue.          *)
(***************************************************************************)
EXTENDS RxPath, UartFifoProofs

AnyChar == Chars \cup {Nul}

\* What the position of send_data_to_user says: there is data to read, since
\* nobody else takes any, there is room under the limit, and as long as nothing
\* was accepted there is nothing to push.
Position ==
    /\ rpc = "read" => count > 0
    /\ rpc \in {"read", "insert"} => accepted < Limit
    /\ (rpc = "out" \/ accepted = 0) => commit = Len(flip)

RxInv == FifoInv /\ RxTypeOK /\ Position

\* Each action is one of the FIFO, or leaves the FIFO alone.
LEMMA FifoKept == RxNext => [Next]_vars
  BY DEF RxNext, CoreStores, RxFlush, SendCalled, send_data_to_user, SendTest,
         SendRead, SendTake, SendInsert, SendPush, FlushToLdisc, Next

\* An unsigned number that is not 0 comes from a count that is not 0.
LEMMA ToNumMeansData ==
    ASSUME count \in Int, ToNum > 0
    PROVE  count # 0
  BY FifoAssumption DEF ToNum

LEMMA RxInitInv == RxInit => RxInv
<1> SUFFICES ASSUME RxInit PROVE RxInv
  OBVIOUS
<1>1. FifoInv
  BY InitInv DEF RxInit
<1>2. RxTypeOK
  BY <1>1, RxAssumption DEF RxInit, Init, RxTypeOK, FifoInv
<1> QED
  BY <1>1, <1>2 DEF RxInit, RxInv, Position

LEMMA RxNextInv == RxInv /\ [RxNext]_rxvars => RxInv'
<1> SUFFICES ASSUME RxInv, [RxNext]_rxvars PROVE RxInv'
  OBVIOUS
<1> USE FifoAssumption, RxAssumption
<1> USE DEF RxInv
<1>1. FifoInv'
  BY FifoKept, NextInv DEF rxvars
<1>2. TypeOK /\ TypeOK' /\ count >= 0 /\ count \in Int /\ ch' \in AnyChar
  BY <1>1 DEF FifoInv, NoUnderflow, TypeOK, AnyChar
<1>3. CASE CoreStores
  <2>1. count' \in {count, count + 1} /\ cpc' = cpc /\ UNCHANGED rx
    BY <1>3 DEF CoreStores, ToCharCheck, ToCharStore, fifo
  <2> QED
    BY <1>1, <1>2, <2>1 DEF RxTypeOK, Position, rx
<1>4. CASE RxFlush
  <2>1. rpc = "out" /\ cpc = "idle" /\ cpc' = cpc /\ UNCHANGED rx
    BY <1>4 DEF RxFlush, CoreFlush, Flush
  <2> QED
    BY <1>1, <1>2, <2>1 DEF RxTypeOK, Position, rx
<1>5. CASE SendCalled
  BY <1>1, <1>2, <1>5 DEF SendCalled, RxTypeOK, Position, vars, fifo
<1>6. CASE SendTest
  <2>1. ToNum > 0 => count > 0
    BY <1>2, ToNumMeansData
  <2> QED
    BY <1>1, <1>2, <1>6, <2>1 DEF SendTest, RxTypeOK, Position, vars, fifo
<1>7. CASE SendRead
  BY <1>1, <1>2, <1>7
     DEF SendRead, FromCharCheck, fifo, RxTypeOK, Position
<1>8. CASE SendTake
  BY <1>1, <1>2, <1>8 DEF SendTake, FromCharTake, RxTypeOK, Position
<1>9. CASE SendInsert
  <2>1. CASE Len(flip) < FlipSize
    <3>1. /\ flip' = Append(flip, ch) /\ accepted' = accepted + 1
          /\ commit' \in {commit, Len(flip)}
          /\ rpc' = "test" /\ rpc = "insert" /\ UNCHANGED vars
      BY <1>9, <2>1 DEF SendInsert
    <3>2. /\ flip' \in Seq(AnyChar)
          /\ Len(flip') = Len(flip) + 1
      BY <1>2, <3>1 DEF RxTypeOK, vars, AnyChar
    <3> QED
      BY <1>1, <1>2, <2>1, <3>1, <3>2 DEF RxTypeOK, Position, vars, AnyChar
  <2>2. CASE ~(Len(flip) < FlipSize)
    BY <1>1, <1>2, <1>9, <2>2 DEF SendInsert, RxTypeOK, Position, vars
  <2> QED
    BY <2>1, <2>2
<1>10. CASE SendPush
  BY <1>1, <1>2, <1>10 DEF SendPush, RxTypeOK, Position, vars
<1>11. CASE FlushToLdisc
  <2>1. PICK n \in 1..commit : /\ flip' = SubSeq(flip, n + 1, Len(flip))
                               /\ commit' = commit - n
    BY <1>11 DEF FlushToLdisc
  <2>2. flip' \in Seq(AnyChar) /\ Len(flip') = Len(flip) - n
    BY <2>1 DEF RxTypeOK, AnyChar
  <2>3. UNCHANGED <<vars, rpc, accepted>>
    BY <1>11 DEF FlushToLdisc
  <2> QED
    BY <1>1, <1>2, <2>1, <2>2, <2>3 DEF RxTypeOK, Position, vars, fifo, AnyChar
<1>12. CASE UNCHANGED rxvars
  BY <1>1, <1>2, <1>12 DEF rxvars, rx, vars, fifo, RxTypeOK, Position
<1> QED
  BY <1>3, <1>4, <1>5, <1>6, <1>7, <1>8, <1>9, <1>10, <1>11, <1>12
     DEF RxNext, send_data_to_user

\* RxInv holds in every reachable state.
THEOREM RxInvariance == RxSpec => []RxInv
<1>1. RxInv /\ [RxNext]_rxvars => RxInv'
  BY RxNextInv
<1> QED
  BY <1>1, RxInitInv, PTL DEF RxSpec

\* The variables keep their types; in particular send_data_to_user moves no more
\* than the limit in one call.
THEOREM RxTypeCorrect == RxSpec => []RxTypeOK
  BY RxInvariance, PTL DEF RxInv

\* Nothing that was accepted stays uncommitted when send_data_to_user returns.
THEOREM AllIsPushed == RxSpec => []AllPushed
<1>1. RxInv => AllPushed
  BY DEF RxInv, Position, AllPushed
<1> QED
  BY <1>1, RxInvariance, PTL

\* The receive path uses the FIFO as UartFifo says it is used, so the theorems
\* about the FIFO are theorems about its receive copy.
THEOREM RxUsesFifo == RxSpec => Spec
<1>1. RxInit => Init
  BY DEF RxInit
<1>2. [RxNext]_rxvars => [Next]_vars
  BY FifoKept DEF rxvars
<1> QED
  BY <1>1, <1>2, PTL DEF RxSpec, Spec

\* So the receive FIFO is a bounded queue, without a condition: the core is its
\* only producer, and the tty cannot flush it.
THEOREM RxFifoIsQueue == RxSpec => QueueSpec
<1>1. Spec => QueueSpec
  BY FifoIsQueue, RxAssumption
<1> QED
  BY <1>1, RxUsesFifo

(***************************************************************************)
(* The order of the characters.                                            *)
(***************************************************************************)

\* Dropping no more than what is in s1 from a concatenation drops it from s1.
LEMMA DropFromFirst ==
    ASSUME NEW S, NEW s1 \in Seq(S), NEW s2 \in Seq(S), NEW n \in 0..Len(s1)
    PROVE  SubSeq(s1, n + 1, Len(s1)) \o s2
             = SubSeq(s1 \o s2, n + 1, Len(s1 \o s2))
<1> DEFINE t == SubSeq(s1, n + 1, Len(s1))
           u == SubSeq(s1 \o s2, n + 1, Len(s1 \o s2))
<1>1. /\ s1 \o s2 \in Seq(S)
      /\ Len(s1 \o s2) = Len(s1) + Len(s2)
      /\ \A i \in 1 .. Len(s1) + Len(s2) :
            (s1 \o s2)[i] = IF i <= Len(s1) THEN s1[i] ELSE s2[i - Len(s1)]
  BY ConcatProperties
<1>2. Len(s1) \in Nat /\ Len(s2) \in Nat
  OBVIOUS
<1>3. /\ t \in Seq(S)
      /\ Len(t) = Len(s1) - n
      /\ \A i \in 1..Len(s1) - n : t[i] = s1[n + i]
  BY <1>2
<1>4. /\ u \in Seq(S)
      /\ Len(u) = Len(s1) + Len(s2) - n
      /\ \A i \in 1..Len(s1) + Len(s2) - n : u[i] = (s1 \o s2)[n + i]
  BY <1>1, <1>2
<1> HIDE DEF t, u
<1>5. /\ t \o s2 \in Seq(S)
      /\ Len(t \o s2) = Len(t) + Len(s2)
      /\ \A i \in 1 .. Len(t) + Len(s2) :
            (t \o s2)[i] = IF i <= Len(t) THEN t[i] ELSE s2[i - Len(t)]
  BY <1>3, ConcatProperties
<1>6. ASSUME NEW i \in 1..Len(s1) + Len(s2) - n
      PROVE  (t \o s2)[i] = u[i]
  <2>1. n + i \in 1..Len(s1) + Len(s2)
    BY <1>2
  <2>2. CASE i <= Len(s1) - n
    <3>1. i \in 1..Len(s1) - n /\ n + i <= Len(s1)
      BY <1>2, <2>2
    <3>2. (t \o s2)[i] = t[i]
      BY <1>2, <1>3, <1>5, <3>1
    <3>3. t[i] = s1[n + i]
      BY <1>3, <3>1
    <3>4. (s1 \o s2)[n + i] = s1[n + i]
      BY <1>1, <2>1, <3>1
    <3> QED
      BY <1>4, <3>2, <3>3, <3>4
  <2>3. CASE i > Len(s1) - n
    <3>1. i - (Len(s1) - n) = (n + i) - Len(s1)
      BY <1>2
    <3>2. (t \o s2)[i] = s2[i - (Len(s1) - n)]
      BY <1>2, <1>3, <1>5, <2>3
    <3>3. (s1 \o s2)[n + i] = s2[(n + i) - Len(s1)]
      BY <1>1, <1>2, <2>1, <2>3
    <3> QED
      BY <1>4, <3>1, <3>2, <3>3
  <2>4. i <= Len(s1) - n \/ i > Len(s1) - n
    BY <1>2
  <2> QED
    BY <2>2, <2>3, <2>4
<1>7. Len(t \o s2) = Len(u)
  BY <1>2, <1>3, <1>4, <1>5
<1>8. \A i \in 1..Len(t \o s2) : (t \o s2)[i] = u[i]
  BY <1>4, <1>6, <1>7
<1>9. t \o s2 = u
  BY <1>4, <1>5, <1>7, <1>8, SeqEqual
<1> QED
  BY <1>9 DEF t, u

\* The three parts of the stream are sequences of characters.
LEMMA StreamParts ==
    ASSUME RxInv
    PROVE  /\ flip \in Seq(AnyChar)
           /\ hand \in Seq(AnyChar)
           /\ unread \in Seq(AnyChar)
           /\ Len(unread) = count
           /\ stream = flip \o (hand \o unread)
<1>1. TypeOK /\ count >= 0
  BY RxAssumption DEF RxInv, FifoInv, NoUnderflow
<1>2. unread \in Seq(AnyChar) /\ Len(unread) = count
  BY <1>1, UnreadSeq DEF AnyChar
<1>3. flip \in Seq(AnyChar) /\ ch \in AnyChar
  BY <1>1 DEF RxInv, RxTypeOK, TypeOK, AnyChar
<1>4. hand \in Seq(AnyChar)
  BY <1>3 DEF hand
<1> QED
  BY <1>2, <1>3, <1>4, ConcatAssociative DEF stream

\* What leaves the FIFO and its result alone leaves unread alone.
LEMMA UnreadKept ==
    ASSUME UNCHANGED vars
    PROVE  unread' = unread /\ ch' = ch
  BY DEF vars, fifo, unread

OrderStep ==
    \/ stream' = stream
    \/ \E c \in Chars : stream' = Append(stream, c)
    \/ \E n \in 1..commit : stream' = SubSeq(stream, n + 1, Len(stream))
    \/ rpc = "out" /\ stream' = flip
    \/ rpc = "insert" /\ Len(flip) = FlipSize /\ stream' = flip \o unread

LEMMA StepKeepsOrder ==
    ASSUME RxInv, RxInv', [RxNext]_rxvars
    PROVE  OrderStep \/ UNCHANGED rxvars
<1> USE FifoAssumption, RxAssumption
<1>0. /\ FifoInv /\ FifoInv' /\ RxTypeOK /\ TypeOK
      /\ count \in Nat /\ commit \in Nat
  BY DEF RxInv, FifoInv, NoUnderflow, TypeOK, RxTypeOK
<1>1. /\ flip \in Seq(AnyChar) /\ hand \in Seq(AnyChar)
      /\ unread \in Seq(AnyChar)
      /\ stream = flip \o (hand \o unread)
      /\ hand \o unread \in Seq(AnyChar)
  BY StreamParts, ConcatProperties
<1>2. ASSUME NEW p \in Producers, NEW c \in Chars, ToCharCheck(p, c),
             UNCHANGED rx
      PROVE  OrderStep
  <2>1. unread' = unread /\ hand' = hand /\ flip' = flip
    BY <1>2 DEF ToCharCheck, fifo, unread, hand, rx
  <2> QED
    BY <2>1 DEF OrderStep, stream
<1>3. ASSUME NEW p \in Producers, ToCharStore(p), UNCHANGED rx
      PROVE  OrderStep
  <2>1. unread' = Append(unread, pch[p]) /\ pch[p] \in Chars
    BY <1>0, <1>3, StoreIsPut DEF Queue!Put, TypeOK, ToCharStore
  <2>2. hand' = hand /\ flip' = flip
    BY <1>3 DEF ToCharStore, hand, rx
  <2>3. stream' = (flip \o hand) \o (unread \o <<pch[p]>>)
    <3>1. pch[p] \in AnyChar
      BY <2>1 DEF AnyChar
    <3>2. unread' = unread \o <<pch[p]>>
      BY <1>1, <2>1, <3>1, AppendIsConcat
    <3> QED
      BY <2>2, <3>2 DEF stream
  <2>4. /\ flip \o hand \in Seq(AnyChar)
        /\ <<pch[p]>> \in Seq(AnyChar)
        /\ stream \in Seq(AnyChar)
    BY <1>1, <2>1, ConcatProperties DEF AnyChar
  <2>5. stream' = stream \o <<pch[p]>>
    BY <1>1, <2>3, <2>4, ConcatAssociative DEF stream
  <2>6. stream' = Append(stream, pch[p])
    BY <2>1, <2>4, <2>5, AppendIsConcat DEF AnyChar
  <2> QED
    BY <2>1, <2>6 DEF OrderStep
<1>4. CASE RxFlush
  <2>1. count' = 0 /\ rpc = "out" /\ rpc' = "out" /\ flip' = flip
    BY <1>4 DEF RxFlush, CoreFlush, Flush, rx
  <2>2. unread' = <<>> /\ hand' = <<>>
    BY <2>1 DEF unread, hand
  <2>3. stream' = flip
    BY <1>1, <2>1, <2>2, ConcatEmptySeq DEF stream
  <2> QED
    BY <2>1, <2>3 DEF OrderStep
<1>5. CASE SendCalled \/ SendTest \/ SendPush
  <2>1. unread' = unread /\ flip' = flip
    BY <1>5, UnreadKept DEF SendCalled, SendTest, SendPush
  <2>2. hand' = hand
    BY <1>5 DEF SendCalled, SendTest, SendPush, hand
  <2> QED
    BY <2>1, <2>2 DEF OrderStep, stream
<1>6. CASE SendRead
  <2>1. rpc = "read" /\ count > 0
    BY <1>6 DEF SendRead, RxInv, Position
  <2>2. /\ unread' = unread /\ hand' = hand /\ flip' = flip
    BY <1>6, <2>1 DEF SendRead, FromCharCheck, fifo, unread, hand
  <2> QED
    BY <2>2 DEF OrderStep, stream
<1>7. CASE SendTake
  <2>1. unread # <<>> /\ ch' = Head(unread) /\ unread' = Tail(unread)
    BY <1>0, <1>7, TakeIsTake DEF SendTake, Queue!Take
  <2>2. hand = <<>> /\ hand' = <<ch'>> /\ flip' = flip
    BY <1>7 DEF SendTake, hand
  <2>3. unread = <<ch'>> \o unread'
    BY <1>1, <2>1
  <2>4. unread' \in Seq(AnyChar) /\ ch' \in AnyChar
    BY <1>1, <2>1, HeadTailProperties
  <2>5. hand \o unread = unread
    BY <1>1, <2>2, ConcatEmptySeq
  <2>6. stream' = flip \o (<<ch'>> \o unread')
    BY <1>1, <2>2, <2>4, ConcatAssociative DEF stream
  <2> QED
    BY <1>1, <2>3, <2>5, <2>6 DEF OrderStep
<1>8. CASE SendInsert
  <2>1. /\ rpc = "insert" /\ rpc' = "test"
        /\ unread' = unread /\ ch' = ch
        /\ hand = <<ch>> /\ hand' = <<>>
    BY <1>8, UnreadKept DEF SendInsert, hand
  <2>2. CASE Len(flip) < FlipSize
    <3>0. ch \in AnyChar
      BY <1>0 DEF TypeOK, AnyChar
    <3>1. flip' = flip \o <<ch>>
      BY <1>1, <1>8, <2>2, <3>0, AppendIsConcat DEF SendInsert
    <3>2. flip' \in Seq(AnyChar)
      BY <1>1, <2>1, <3>1, ConcatProperties
    <3>3. stream' = flip' \o unread
      BY <2>1, <3>2, ConcatEmptySeq DEF stream
    <3> QED
      BY <2>1, <3>1, <3>3 DEF OrderStep, stream
  <2>3. CASE ~(Len(flip) < FlipSize)
    <3>1. flip' = flip /\ Len(flip) = FlipSize
      BY <1>0, <1>8, <2>3 DEF SendInsert, RxTypeOK
    <3>2. stream' = flip \o unread
      BY <1>1, <2>1, <3>1, ConcatEmptySeq DEF stream
    <3> QED
      BY <2>1, <3>1, <3>2 DEF OrderStep
  <2> QED
    BY <2>2, <2>3
<1>9. CASE FlushToLdisc
  <2>1. PICK n \in 1..commit : flip' = SubSeq(flip, n + 1, Len(flip))
    BY <1>9 DEF FlushToLdisc
  <2>2. unread' = unread /\ hand' = hand
    BY <1>9, UnreadKept DEF FlushToLdisc, hand
  <2>3. n \in 0..Len(flip)
    BY <1>0, <2>1 DEF RxTypeOK
  <2>4. SubSeq(flip, n + 1, Len(flip)) \o (hand \o unread)
          = SubSeq(stream, n + 1, Len(stream))
    BY <1>1, <2>3, DropFromFirst
  <2>5. stream' = flip' \o (hand \o unread)
    <3>1. flip' \in Seq(AnyChar)
      BY <1>1, <2>1, <2>3
    <3>2. hand \in Seq(AnyChar) /\ unread \in Seq(AnyChar)
      BY <1>1
    <3>3. stream' = (flip' \o hand) \o unread
      BY <2>2 DEF stream
    <3> QED
      BY <3>1, <3>2, <3>3, ConcatAssociative
  <2> QED
    BY <2>1, <2>4, <2>5 DEF OrderStep
<1>10. CASE UNCHANGED rxvars
  BY <1>10
<1> QED
  BY <1>2, <1>3, <1>4, <1>5, <1>6, <1>7, <1>8, <1>9, <1>10
     DEF RxNext, CoreStores, send_data_to_user

\* Characters reach the line discipline in the order in which the core sent them,
\* none made up or repeated, and none lost but for a flush and a full tty.
THEOREM OrderIsKept == RxSpec => RxOrder
<1>1. RxInv /\ RxInv' /\ [RxNext]_rxvars => [OrderStep]_rxvars
  BY StepKeepsOrder
<1> QED
  BY <1>1, RxInvariance, PTL DEF RxSpec, RxOrder, OrderStep
=============================================================================
