----------------------------- MODULE MCTermios -----------------------------
EXTENDS Termios

\* 921600 has no case in softserial_set_ldisc.
MCSpeeds == {0, 115200, 921600}
MCKnownSpeeds == MCSpeeds \ {921600}

\* Two stop bits, otherwise what an open sets; and a size, a parity and a
\* speed of its own.
MCRequests ==
    {[InitCflag EXCEPT !.stop = TRUE],
     [speed |-> 921600, size |-> 7, parity |-> {"PARENB", "PARODD"}, stop |-> FALSE]}
=============================================================================
