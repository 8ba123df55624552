------------------------------ MODULE CharQueue ------------------------------
(***************************************************************************)
(* What one character FIFO of the software UART promises its users: a      *)
(* bounded first-in first-out queue.  UartFifo is shown to implement it.   *)
(***************************************************************************)
EXTENDS Naturals, Sequences

CONSTANTS
    N,       \* capacity of the queue
    Chars,   \* the characters that may be sent
    Nul      \* what a reader of an empty queue is given

VARIABLES
    q,       \* the characters accepted and not yet taken, oldest first
    got      \* the result of the last take

qvars == <<q, got>>

QTypeOK ==
    /\ q \in Seq(Chars)
    /\ Len(q) <= N
    /\ got \in Chars \cup {Nul}

QInit ==
    /\ q = <<>>
    /\ got = Nul

Put(c) ==
    /\ Len(q) < N
    /\ q' = Append(q, c)
    /\ UNCHANGED got

Take ==
    /\ q # <<>>
    /\ got' = Head(q)
    /\ q' = Tail(q)

TakeNothing ==
    /\ q = <<>>
    /\ got' = Nul
    /\ UNCHANGED q

Empty ==
    /\ q' = <<>>
    /\ UNCHANGED got

QNext ==
    \/ \E c \in Chars : Put(c)
    \/ Take
    \/ TakeNothing
    \/ Empty

QSpec == QInit /\ [][QNext]_qvars
=============================================================================
