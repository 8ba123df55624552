------------------------------ MODULE Termios ------------------------------
(***************************************************************************)
(* The line settings: speed, character size, parity and stop bits.  They   *)
(* are kept twice, in c_cflag of the tty, which processes read and write,  *)
(* and in uart (uart.c), which the modem core reads.  The first open sets  *)
(* both, c_cflag at once and uart when the device starts.  After that      *)
(* softserial_set_termios carries a change of c_cflag to uart, and         *)
(* softserial_set_ldisc rewrites c_cflag from uart and dce_stop_bits when  *)
(* the line discipline changes.                                            *)
(*                                                                         *)
(* The kernel runs one softserial_set_termios at a time (termios_mutex)    *)
(* and one softserial_set_ldisc at a time (ldisc_mutex), but lets them     *)
(* overlap; so each has one program counter, whoever calls it.             *)
(***************************************************************************)
EXTENDS Integers

CONSTANTS
    Speeds,       \* the speeds of c_cflag; 0 is what is left of CBAUD cleared
    KnownSpeeds,  \* those that softserial_set_ldisc can put there
    Requests      \* what processes ask for

DefaultSpeed == 115200
Fields == {"speed", "size", "parity", "stop"}

\* The part of c_cflag that the driver looks at; stop is CSTOPB.
Cflags == [speed: Speeds, size: 5..8, parity: SUBSET {"PARENB", "PARODD", "CMSPAR"},
           stop: BOOLEAN]

ASSUME TermiosAssumption ==
    /\ KnownSpeeds \subseteq Speeds
    /\ {0, DefaultSpeed} \subseteq KnownSpeeds
    /\ Requests \subseteq Cflags

VARIABLES
    cflag,    \* ptty->termios->c_cflag
    uart,     \* baud_rate, data_bits, parity and stop_bits of uart
    dceStop,  \* dce_stop_bits
    up,       \* the device: "closed", "starting" or "open"
    tpc,      \* what softserial_set_termios does next, and with which field
    before,   \* its previous_termios
    want,     \* its baud, size, parity and stop_bits
    lpc,      \* what softserial_set_ldisc does next, and with which field
    got,      \* its baud, size, parity and stop_bits
    mixed     \* history: two calls, or a call and the first open, overlapped
              \* and no call has set everything since

\* Locals have their initial values whenever nothing will read them.
tvars == <<tpc, before, want>>
lvars == <<lpc, got>>
vars == <<cflag, uart, dceStop, up, tvars, lvars, mixed>>

Out == <<"out", "speed">>
Steps(phases) == (phases \X Fields) \cup {Out}

\* Where a call is after the step of phase p for field f: both routines go
\* through the fields in the same order.
Advance(p, f, next) ==
    CASE f = "speed"  -> <<p, "size">>
      [] f = "size"   -> <<p, "parity">>
      [] f = "parity" -> <<p, "stop">>
      [] f = "stop"   -> next

\* The values of UART_init(115200,8,0,1) and of c_cflag after an open.
InitUart == [speed |-> DefaultSpeed, size |-> 8, parity |-> 0, stop |-> 1]
InitCflag == [speed |-> DefaultSpeed, size |-> 8, parity |-> {}, stop |-> FALSE]

Settings == [speed: Speeds, size: 5..8, parity: 0..4, stop: 0..2]

TypeOK ==
    /\ cflag \in Cflags
    /\ uart \in Settings
    /\ dceStop \in 0..2
    /\ up \in {"closed", "starting", "open"}
    /\ tpc \in Steps({"compare", "enable", "read", "set"})
    /\ before \in Cflags
    /\ want \in [speed: Speeds, size: 5..8, parity: 0..8, stop: 0..2]
    /\ lpc \in Steps({"get", "clear", "put"})
    /\ got \in Settings
    /\ mixed \in BOOLEAN

Init ==
    /\ cflag = InitCflag
    /\ uart = [speed |-> 0, size |-> 8, parity |-> 0, stop |-> 0]
    /\ dceStop = 0
    /\ up = "closed"
    /\ tpc = Out
    /\ before = InitCflag
    /\ want = InitUart
    /\ lpc = Out
    /\ got = InitUart
    /\ mixed = FALSE

-----------------------------------------------------------------------------
(* The first open and the last close.                                      *)

\* softserial_open gives c_cflag its values; other processes have the tty
\* open from here on.
OpenCalled ==
    /\ up = "closed"
    /\ up' = "starting"
    /\ cflag' = InitCflag
    /\ mixed' = FALSE
    /\ UNCHANGED <<uart, dceStop, tvars, lvars>>

\* open of coredrv.c calls UART_init, which leaves dce_stop_bits alone.
OpenReady ==
    /\ up = "starting"
    /\ up' = "open"
    /\ uart' = InitUart
    /\ mixed' = (mixed \/ tpc # Out \/ lpc # Out)
    /\ UNCHANGED <<cflag, dceStop, tvars, lvars>>

\* The last close: nobody is inside a call on the tty.
Close ==
    /\ up = "open"
    /\ tpc = Out /\ lpc = Out
    /\ up' = "closed"
    /\ UNCHANGED <<cflag, uart, dceStop, tvars, lvars, mixed>>

-----------------------------------------------------------------------------
(* softserial_set_termios.                                                 *)

\* The tty layer stores what the process asks for and calls the driver with
\* what was there before.  A softserial_set_ldisc that runs may have read
\* c_cflag before the store and write it after, and the request is lost.
SetTermios(c) ==
    /\ up # "closed"
    /\ tpc = Out
    /\ tpc' = <<"compare", "speed">>
    /\ before' = cflag
    /\ cflag' \in {c} \cup (IF lpc = Out THEN {} ELSE {cflag})
    /\ want' = [speed |-> DefaultSpeed, size |-> 8, parity |-> 8, stop |-> 1]
    /\ mixed' = (mixed \/ lpc # Out \/ up = "starting")
    /\ UNCHANGED <<uart, dceStop, up, lvars>>

\* The comparison if its mask forgot CSTOPB.
SameButStop == [before EXCEPT !.stop = cflag.stop] = cflag

\* (previous_termios->c_cflag & mask) == (ptty->termios->c_cflag & mask), with
\* every field in mask.
SameSettings == before = cflag

Compare ==
    /\ tpc = <<"compare", "speed">>
    /\ before' = InitCflag
    /\ IF SameSettings
         THEN tpc' = Out /\ UNCHANGED mixed
         ELSE tpc' = <<"read", "speed">> /\ mixed' = (lpc # Out \/ up = "starting")
    /\ UNCHANGED <<cflag, uart, dceStop, up, want, lvars>>

\* What a field of c_cflag comes to.  PARENB & PARODD and PARENB & CMSPAR are 0,
\* so that odd and mark parity are never found and PARENB always gives 2.
Translate(c) ==
    [speed  |-> c.speed,
     size   |-> c.size,
     parity |-> IF "PARENB" \in c.parity THEN 2 ELSE 0,
     stop   |-> IF c.stop THEN 2 ELSE 1]

\* c_cflag is read again for each field.
ReadCflag(f) ==
    /\ tpc = <<"read", f>>
    /\ f # "parity"
    /\ tpc' = Advance("read", f, <<"set", "speed">>)
    /\ want' = [want EXCEPT ![f] = Translate(cflag)[f]]
    /\ UNCHANGED <<cflag, uart, dceStop, up, before, lvars, mixed>>

\* It is read twice for the parity, which stays 8 if PARENB is there the
\* first time and not the second.
ReadNoParity ==
    /\ tpc = <<"read", "parity">>
    /\ tpc' = <<"enable", "parity">>
    /\ want' = [want EXCEPT !.parity = IF "PARENB" \in cflag.parity THEN @ ELSE 0]
    /\ UNCHANGED <<cflag, uart, dceStop, up, before, lvars, mixed>>

ReadParity ==
    /\ tpc = <<"enable", "parity">>
    /\ tpc' = <<"read", "stop">>
    /\ want' = [want EXCEPT !.parity = IF "PARENB" \in cflag.parity THEN 2 ELSE @]
    /\ UNCHANGED <<cflag, uart, dceStop, up, before, lvars, mixed>>

\* UART_parity and UART_stop_bits if they stored whatever they are given.
AcceptsAny(f, v) == v >= 0

\* UART_parity and UART_stop_bits ignore what they do not know.
Accepts(f, v) == (f = "parity" => v \in 0..4) /\ (f = "stop" => v \in 0..2)

\* UART_set_baud, UART_data_bits, UART_parity, UART_stop_bits.
UartSet(f, v) == [uart EXCEPT ![f] = IF Accepts(f, v) THEN v ELSE @]

\* set_char of coredrv.c, one of its calls at a time.
SetChar(f) ==
    /\ tpc = <<"set", f>>
    /\ tpc' = Advance("set", f, Out)
    /\ uart' = UartSet(f, want[f])
    /\ dceStop' = IF f = "stop" THEN want[f] ELSE dceStop
    /\ want' = IF f = "stop" THEN InitUart ELSE want
    /\ UNCHANGED <<cflag, up, before, lvars, mixed>>

-----------------------------------------------------------------------------
(* softserial_set_ldisc.                                                   *)

SetLdisc ==
    /\ up # "closed"
    /\ lpc = Out
    /\ lpc' = <<"get", "speed">>
    /\ mixed' = (tpc # Out \/ up = "starting")
    /\ UNCHANGED <<cflag, uart, dceStop, up, tvars, got>>

\* get_char: the stop bits are dce_stop_bits, not those of uart.
GetChar(f) ==
    /\ lpc = <<"get", f>>
    /\ lpc' = Advance("get", f, <<"clear", "speed">>)
    /\ got' = [got EXCEPT ![f] = IF f = "stop" THEN dceStop ELSE uart[f]]
    /\ UNCHANGED <<cflag, uart, dceStop, up, tvars, mixed>>

\* c_cflag &= ~CBAUD, ~CSIZE, ~(PARENB | PARODD | CMSPAR), ~CSTOPB.
ClearedFlags == [speed |-> 0, size |-> 5, parity |-> {}, stop |-> FALSE]
ClearCflag(f) ==
    /\ lpc = <<"clear", f>>
    /\ lpc' = <<"put", f>>
    /\ cflag' = [cflag EXCEPT ![f] = ClearedFlags[f]]
    /\ UNCHANGED <<uart, dceStop, up, tvars, got, mixed>>

\* The flags for the settings s: a speed that has no case becomes 115200, and
\* a parity that has none becomes no parity.
Flags(s) ==
    [speed  |-> IF s.speed \in KnownSpeeds THEN s.speed ELSE DefaultSpeed,
     size   |-> s.size,
     parity |-> CASE s.parity = 1 -> {"PARENB", "PARODD"}
                  [] s.parity = 2 -> {"PARENB"}
                  [] s.parity = 3 -> {"PARENB", "CMSPAR"}
                  [] OTHER -> {},
     stop   |-> s.stop = 2]

PutCflag(f) ==
    /\ lpc = <<"put", f>>
    /\ lpc' = Advance("clear", f, Out)
    /\ cflag' = [cflag EXCEPT ![f] = Flags(got)[f]]
    /\ got' = IF f = "stop" THEN InitUart ELSE got
    /\ UNCHANGED <<uart, dceStop, up, tvars, mixed>>

-----------------------------------------------------------------------------

Next ==
    \/ OpenCalled
    \/ OpenReady
    \/ Close
    \/ \E c \in Requests : SetTermios(c)
    \/ Compare
    \/ ReadNoParity
    \/ ReadParity
    \/ SetLdisc
    \/ \E f \in Fields : ReadCflag(f) \/ SetChar(f) \/ GetChar(f) \/ ClearCflag(f)
                         \/ PutCflag(f)

Spec == Init /\ [][Next]_vars

-----------------------------------------------------------------------------

\* What c asks for, in the codes that uart.c:586 lists for the parity (1 odd, 2 even,
\* 3 mark) and that softserial_set_ldisc takes for these flags.  One stop bit is 1 as
\* in UART_init(115200,8,0,1); uart.c:566 has 0 for one and 1 for one and a half.
Asked(c) ==
    [speed  |-> c.speed,
     size   |-> c.size,
     parity |-> CASE "PARENB" \notin c.parity -> 0
                  [] "PARENB" \in c.parity /\ "CMSPAR" \in c.parity -> 3
                  [] c.parity = {"PARENB", "PARODD"} -> 1
                  [] c.parity = {"PARENB"} -> 2,
     stop   |-> IF c.stop THEN 2 ELSE 1]

\* c asks for odd or mark parity, and uart has even parity instead.
EvenInstead(c) == Asked(c).parity \in {1, 3} /\ uart.parity = 2

\* uart holds what c asks for, but for three fields: a speed that
\* softserial_set_ldisc does not know reads as 115200; two stop bits of an earlier
\* session read as two though UART_init has set one; and softserial_set_termios,
\* against uart.c:586, sets even parity where odd or mark parity is asked for.
Agrees(c) ==
    /\ \/ uart.speed = Asked(c).speed
       \/ uart.speed \notin KnownSpeeds /\ c.speed = DefaultSpeed
    /\ uart.size = Asked(c).size
    /\ uart.parity = Asked(c).parity \/ EvenInstead(c)
    /\ \/ uart.stop = Asked(c).stop
       \/ c.stop /\ dceStop = 2 /\ uart.stop = 1

\* When no call runs, uart holds what c_cflag asks for, with the exceptions Agrees
\* names (odd and mark parity are one), unless calls have overlapped and nothing was
\* set since: softserial_set_termios skips only a change that is none, and
\* softserial_set_ldisc writes back what was set.
InSync == up = "open" /\ tpc = Out /\ lpc = Out /\ ~mixed => Agrees(cflag)
=============================================================================
