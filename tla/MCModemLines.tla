---------------------------- MODULE MCModemLines ----------------------------
(* Small instances of ModemLines for TLC. *)
EXTENDS ModemLines

TwoStatus == <<"RINGING", "CTS">>

\* Both lines at a time, and the RTS that throttle and unthrottle drop.
SomeCalls ==
    LET rts(b) == [line |-> "RTS", on |-> b]
        dtr(b) == [line |-> "DTR", on |-> b]
    IN {<<rts(TRUE), dtr(TRUE)>>, <<rts(FALSE), dtr(FALSE)>>, <<rts(FALSE)>>}
=============================================================================
