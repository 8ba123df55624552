------------------------------- MODULE RxPath -------------------------------
(***************************************************************************)
(* The way of a character from the modem core to a process: the core stores*)
(* it in the receive FIFO (UartFifo, here the dte copy of the code), clm_bg*)
(* calls send_data_to_user (coredrv.c), which moves the FIFO to the tty's  *)
(* flip buffer, at most Limit characters a call, and pushes what it has    *)
(* moved; the kernel then gives what was pushed to the line discipline.    *)
(*                                                                         *)
(* A character is taken from the FIFO before it is offered to the tty,     *)
(* which refuses it when nobody reads and its memory is used up.           *)
(***************************************************************************)
EXTENDS UartFifo, Sequences

CONSTANTS
    Limit,     \* TTY_FLIP_BUFFER_SIZE: what a call may move
    FlipSize   \* what the tty keeps for a process that does not read

ASSUME RxAssumption ==
    /\ Limit \in Nat \ {0}
    /\ FlipSize \in Nat \ {0}
    /\ SingleProducer
    /\ ~TtyFlush

VARIABLES
    rpc,       \* where send_data_to_user is
    accepted,  \* i: how many characters the tty accepted in this call
    flip,      \* the characters in the tty's flip buffer
    commit     \* how many of them the line discipline may have

rx == <<rpc, accepted, flip, commit>>
rxvars == <<vars, rx>>

\* The character send_data_to_user has taken and not yet offered to the tty.
hand == IF rpc = "insert" THEN <<ch>> ELSE <<>>

\* What the modem core has sent and the line discipline has not had.
stream == flip \o hand \o unread

RxTypeOK ==
    /\ TypeOK
    /\ rpc \in {"out", "test", "read", "insert", "push"}
    /\ cpc = "take" => rpc = "read"
    /\ accepted \in 0..Limit
    /\ flip \in Seq(Chars \cup {Nul})
    /\ Len(flip) <= FlipSize
    /\ commit \in 0..Len(flip)

RxInit ==
    /\ Init
    /\ rpc = "out"
    /\ accepted = 0
    /\ flip = <<>>
    /\ commit = 0

-----------------------------------------------------------------------------
(* The modem core, in clm_bg or in an interrupt.                           *)

CoreStores ==
    /\ \/ \E p \in Producers, c \in Chars : ToCharCheck(p, c)
       \/ \E p \in Producers : ToCharStore(p)
    /\ UNCHANGED rx

\* The flush if it did not share a thread with the consumer.
RxFlushAnyTime ==
    /\ Flush
    /\ UNCHANGED rx

\* UART_dte_flush, called by the core inside ACU_Main and by clm_terminate once
\* clm_bg has ended.
RxFlush ==
    /\ rpc = "out"
    /\ CoreFlush
    /\ UNCHANGED rx

-----------------------------------------------------------------------------
(* send_data_to_user.                                                      *)

SendCalled ==
    /\ rpc = "out"
    /\ rpc' = "test"
    /\ accepted' = 0
    /\ UNCHANGED <<vars, flip, commit>>

\* The test of the loop if it allowed one character more.
SendTestOneMore ==
    /\ rpc = "test"
    /\ rpc' = IF ToNum > 0 /\ accepted <= Limit THEN "read" ELSE "push"
    /\ UNCHANGED <<vars, accepted, flip, commit>>

SendTest ==
    /\ rpc = "test"
    /\ rpc' = IF ToNum > 0 /\ accepted < Limit THEN "read" ELSE "push"
    /\ UNCHANGED <<vars, accepted, flip, commit>>

\* UART_dte_from_char up to the lock, or without it if there is no data.
SendRead ==
    /\ rpc = "read"
    /\ IF count > 0
         THEN FromCharCheck /\ UNCHANGED rpc
         ELSE FromCharEmpty /\ rpc' = "insert"
    /\ UNCHANGED <<accepted, flip, commit>>

SendTake ==
    /\ rpc = "read"
    /\ FromCharTake
    /\ rpc' = "insert"
    /\ UNCHANGED <<accepted, flip, commit>>

\* The insertion if its result were not added to i.
SendInsertNotCounted ==
    /\ rpc = "insert"
    /\ flip' = IF Len(flip) < FlipSize THEN Append(flip, ch) ELSE flip
    /\ rpc' = "test"
    /\ UNCHANGED <<vars, accepted, commit>>

\* tty_insert_flip_char returns how many characters it accepted, 1 or 0.  When it
\* goes on to another page the kernel commits what is in the one before.
SendInsert ==
    /\ rpc = "insert"
    /\ IF Len(flip) < FlipSize
         THEN /\ flip' = Append(flip, ch)
              /\ accepted' = accepted + 1
              /\ commit' \in {commit, Len(flip)}
         ELSE UNCHANGED <<flip, accepted, commit>>
    /\ rpc' = "test"
    /\ UNCHANGED vars

\* The end of the call if it pushed only what fills the limit.
SendPushFull ==
    /\ rpc = "push"
    /\ commit' = IF accepted = Limit THEN Len(flip) ELSE commit
    /\ rpc' = "out"
    /\ UNCHANGED <<vars, accepted, flip>>

\* tty_flip_buffer_push, if anything was accepted.
SendPush ==
    /\ rpc = "push"
    /\ commit' = IF accepted > 0 THEN Len(flip) ELSE commit
    /\ rpc' = "out"
    /\ UNCHANGED <<vars, accepted, flip>>

send_data_to_user ==
    \/ SendTest
    \/ SendRead
    \/ SendTake
    \/ SendInsert
    \/ SendPush

\* flush_to_ldisc, later and in a thread of the kernel: the line discipline takes
\* what it has room for, of what was committed.
FlushToLdisc ==
    /\ commit > 0
    /\ \E n \in 1..commit :
          /\ flip' = SubSeq(flip, n + 1, Len(flip))
          /\ commit' = commit - n
    /\ UNCHANGED <<vars, rpc, accepted>>

RxNext ==
    \/ CoreStores
    \/ RxFlush
    \/ SendCalled
    \/ send_data_to_user
    \/ FlushToLdisc

RxSpec == RxInit /\ [][RxNext]_rxvars

\* clm_bg is run again and again (Rts!BackgroundRuns), what has begun goes on,
\* and a process reads.
RxFairSpec ==
    /\ RxSpec
    /\ WF_rxvars(SendCalled)
    /\ WF_rxvars(send_data_to_user)
    /\ WF_rxvars(FlushToLdisc)

-----------------------------------------------------------------------------

\* From the core to the line discipline characters keep their order, and none is
\* made up, repeated or lost, except that the core flushes the FIFO and that
\* send_data_to_user drops the character it has taken when the tty is full.  The
\* line discipline has only what was committed.
RxOrder ==
    [][ \/ stream' = stream
        \/ \E c \in Chars : stream' = Append(stream, c)
        \/ \E n \in 1..commit : stream' = SubSeq(stream, n + 1, Len(stream))
        \/ rpc = "out" /\ stream' = flip
        \/ rpc = "insert" /\ Len(flip) = FlipSize /\ stream' = flip \o unread
      ]_rxvars

\* No character stays in the flip buffer uncommitted when send_data_to_user has
\* returned, though it pushes only if it counted an accepted character: nothing
\* else would show the last characters of a burst to the process that reads.
AllPushed == rpc = "out" => commit = Len(flip)

\* send_data_to_user returns, however fast the core sends meanwhile, as long as
\* a process reads: it runs under Lock_clm_bg, before the modem's own work.
SendReturns == rpc = "test" ~> rpc = "out"
=============================================================================
