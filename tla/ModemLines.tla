----------------------------- MODULE ModemLines -----------------------------
(***************************************************************************)
(* The modem lines of the software UART (uart.c).  Processes switch DTR and*)
(* RTS (softserial_ioctl.c, and softserial_throttle and _unthrottle), which*)
(* clm_external_int announces and clm_rx_int passes on to the modem core   *)
(* (clmmain.c).  The modem core switches the lines of the modem status; a  *)
(* process may wait for one of them to change (TIOCMIWAIT, UART_msr_wait). *)
(*                                                                         *)
(* No line and no flag has a lock, so every read and write of one is a     *)
(* step of its own.  The device is open.                                   *)
(***************************************************************************)
EXTENDS Integers, Sequences

CONSTANTS
    Setters,  \* contexts that may switch DTR and RTS at the same time
    Waiters,  \* processes that may be inside TIOCMIWAIT
    Core,     \* the modem core, in clm_bg
    Calls,    \* what a setter switches in one call: a sequence of switches
    Status,   \* the lines of the modem status, in the order TIOCMIWAIT reads them
    Masks     \* the sets of lines a process may wait for

Control == {"RTS", "DTR"}
Modem == {Status[n] : n \in DOMAIN Status}
Lines == Control \cup Modem
Switches(lines) == [line : lines, on : BOOLEAN]
Contexts == Setters \cup {Core}

ASSUME LinesAssumption ==
    /\ Core \notin Setters
    /\ Calls \subseteq Seq(Switches(Control))
    /\ Status \in Seq({"RINGING", "DSR", "RLSD", "CTS"}) /\ Status # <<>>
    /\ Masks \subseteq SUBSET Modem

VARIABLES
    on,       \* on[l]: line l is asserted
    lpc,      \* where a context is inside the switch of a line
    todo,     \* the switches a context has still to make, the current one first
    asleep,   \* the wait queue delta_msr_wait
    pending,  \* ext_intr_pending
    bpc,      \* where clm_rx_int is, when it looks at ext_intr_pending
    told,     \* told[l]: what the modem core last read of DTR and RTS
    wpc,      \* where a waiter is
    k,        \* how many lines the waiter has read
    mask,     \* the lines the waiter waits for
    old, new, \* what the waiter read of the lines before and after its wait
    early     \* history: lines that changed during the call while not on the queue

line == <<on, lpc, todo, asleep>>
ext == <<pending, bpc, told>>
waiter == <<wpc, k, mask, old, new>>
vars == <<line, ext, waiter, early>>

TypeOK ==
    /\ on \in [Lines -> BOOLEAN]
    /\ lpc \in [Contexts -> {"test", "set", "wake", "ext"}]
    /\ \A x \in Setters : todo[x] \in Seq(Switches(Control))
    /\ todo[Core] \in Seq(Switches(Modem))
    /\ DOMAIN todo = Contexts
    /\ \A x \in Contexts : lpc[x] # "test" => todo[x] # <<>>
    /\ asleep \subseteq Waiters
    /\ pending \in BOOLEAN
    /\ bpc \in {"idle", "clear", "call"}
    /\ told \in [Control -> BOOLEAN]
    /\ wpc \in [Waiters -> {"idle", "old", "prepare", "sleep", "new", "decide"}]
    /\ k \in [Waiters -> Nat]
    /\ mask \in [Waiters -> SUBSET Modem]
    /\ old \in [Waiters -> [Modem -> BOOLEAN]]
    /\ new \in [Waiters -> [Modem -> BOOLEAN]]
    /\ early \in [Waiters -> SUBSET Modem]

\* clm_initialize has asserted DTR and RTS, with nobody told yet.
Init ==
    /\ on = [l \in Lines |-> l \in Control]
    /\ lpc = [x \in Contexts |-> "test"]
    /\ todo = [x \in Contexts |-> <<>>]
    /\ asleep = {}
    /\ pending = TRUE
    /\ bpc = "idle"
    /\ told = [l \in Control |-> FALSE]
    /\ wpc = [p \in Waiters |-> "idle"]
    /\ k = [p \in Waiters |-> 0]
    /\ mask = [p \in Waiters |-> {}]
    /\ old = [p \in Waiters |-> [l \in Modem |-> FALSE]]
    /\ new = [p \in Waiters |-> [l \in Modem |-> FALSE]]
    /\ early = [p \in Waiters |-> {}]

-----------------------------------------------------------------------------
(* UART_dtr_on, UART_dtr_off and the same of the other lines.              *)

\* The lines whose change wakes a waiter if only an assertion did.
WakesOnRise(s) == s.on /\ s.line \in Modem

\* The switches that wake delta_msr_wait: every change of the modem status,
\* and DTR when it drops.
Wakes(s) == s.line \in Modem \/ s = [line |-> "DTR", on |-> FALSE]

\* The switches that are announced if a drop of DTR were not.
AnnouncesRts(s) == s.line = "RTS"

\* The switches that call clm_external_int: RTS both ways, DTR when it drops.
Announces(s) == s.line = "RTS" \/ s = [line |-> "DTR", on |-> FALSE]

\* The next switch if the context did not start it from its test.
NextSwitchUntested(x) ==
    /\ todo' = [todo EXCEPT ![x] = Tail(todo[x])]
    /\ UNCHANGED lpc

\* The context x goes on with its next switch.
NextSwitch(x) ==
    /\ todo' = [todo EXCEPT ![x] = Tail(todo[x])]
    /\ lpc' = [lpc EXCEPT ![x] = "test"]

GoTo(x, pc) ==
    /\ lpc' = [lpc EXCEPT ![x] = pc]
    /\ UNCHANGED todo

\* A line that is already as it should be is left alone, and nobody is woken.
SwitchTest(x) ==
    /\ lpc[x] = "test"
    /\ todo[x] # <<>>
    /\ IF on[Head(todo[x]).line] = Head(todo[x]).on THEN NextSwitch(x)
                                                    ELSE GoTo(x, "set")
    /\ UNCHANGED <<on, asleep, ext, waiter, early>>

SwitchSet(x) ==
    LET s == Head(todo[x]) IN
    /\ lpc[x] = "set"
    /\ on' = [on EXCEPT ![s.line] = s.on]
    /\ IF Wakes(s) THEN GoTo(x, "wake")
       ELSE IF Announces(s) THEN GoTo(x, "ext") ELSE NextSwitch(x)
    /\ early' = [p \in Waiters |->
                    IF wpc[p] \in {"idle", "sleep"} THEN early[p]
                                                    ELSE early[p] \cup ({s.line} \cap Modem)]
    /\ UNCHANGED <<asleep, ext, waiter>>

\* wake_up_interruptible(&delta_msr_wait).
SwitchWake(x) ==
    /\ lpc[x] = "wake"
    /\ asleep' = {}
    /\ IF Announces(Head(todo[x])) THEN GoTo(x, "ext") ELSE NextSwitch(x)
    /\ UNCHANGED <<on, ext, waiter, early>>

\* clm_external_int.
SwitchExt(x) ==
    /\ lpc[x] = "ext"
    /\ pending' = TRUE
    /\ NextSwitch(x)
    /\ UNCHANGED <<on, asleep, bpc, told, waiter, early>>

Switch(x) ==
    \/ SwitchTest(x)
    \/ SwitchSet(x)
    \/ SwitchWake(x)
    \/ SwitchExt(x)

\* TIOCMBIS, TIOCMBIC, TIOCMSET, throttle or unthrottle is called.
SetterCalled(x) ==
    /\ todo[x] = <<>>
    /\ \E c \in Calls : todo' = [todo EXCEPT ![x] = c]
    /\ UNCHANGED <<on, lpc, asleep, ext, waiter, early>>

\* The modem core switches a line of the modem status (UART_cts_on, ...).
CoreSwitches ==
    /\ todo[Core] = <<>>
    /\ bpc = "idle"
    /\ \E s \in Switches(Modem) : todo' = [todo EXCEPT ![Core] = <<s>>]
    /\ UNCHANGED <<on, lpc, asleep, ext, waiter, early>>

-----------------------------------------------------------------------------
(* The end of clm_rx_int, in the thread of the modem core.                 *)

ExtTest ==
    /\ bpc = "idle"
    /\ todo[Core] = <<>>
    /\ pending
    /\ bpc' = "clear"
    /\ UNCHANGED <<line, pending, told, waiter, early>>

ExtClear ==
    /\ bpc = "clear"
    /\ pending' = FALSE
    /\ bpc' = "call"
    /\ UNCHANGED <<line, told, waiter, early>>

\* acu_external_int or dte_external_int, which read the lines.
ExtCall ==
    /\ bpc = "call"
    /\ told' = [l \in Control |-> on[l]]
    /\ bpc' = "idle"
    /\ UNCHANGED <<line, pending, waiter, early>>

\* The handling if the flag were cleared after the core has been called.
CallThenClear ==
    \/ ExtTest
    \/ /\ bpc = "clear"
       /\ told' = [l \in Control |-> on[l]]
       /\ bpc' = "call"
       /\ UNCHANGED <<line, pending, waiter, early>>
    \/ /\ bpc = "call"
       /\ pending' = FALSE
       /\ bpc' = "idle"
       /\ UNCHANGED <<line, told, waiter, early>>

external_int == ExtTest \/ ExtClear \/ ExtCall

-----------------------------------------------------------------------------
(* TIOCMIWAIT, in the process p.                                           *)

WaitCalled(p) ==
    /\ wpc[p] = "idle"
    /\ \E lines \in Masks : mask' = [mask EXCEPT ![p] = lines]
    /\ wpc' = [wpc EXCEPT ![p] = "old"]
    /\ UNCHANGED <<line, ext, k, old, new, early>>

\* One of the cases 1 to 4 of get_line_status, with UART_line_status.
get_line_status(l) == on[l]

\* The lines are read one after the other, into the old or the new values.
WaitRead(p, pc, next) ==
    /\ wpc[p] = pc
    /\ LET l == Status[k[p] + 1]
       IN IF pc = "old"
            THEN old' = [old EXCEPT ![p][l] = get_line_status(l)] /\ UNCHANGED new
            ELSE new' = [new EXCEPT ![p][l] = get_line_status(l)] /\ UNCHANGED old
    /\ IF k[p] + 1 = Len(Status)
         THEN k' = [k EXCEPT ![p] = 0] /\ wpc' = [wpc EXCEPT ![p] = next]
         ELSE k' = [k EXCEPT ![p] = @ + 1] /\ UNCHANGED wpc
    /\ UNCHANGED <<line, ext, mask, early>>

\* UART_msr_wait: prepare_to_wait, whatever the lines are by now.
WaitPrepare(p) ==
    /\ wpc[p] = "prepare"
    /\ asleep' = asleep \cup {p}
    /\ wpc' = [wpc EXCEPT ![p] = "sleep"]
    /\ UNCHANGED <<on, lpc, todo, ext, k, mask, old, new, early>>

\* schedule returns once the process has been woken.
WaitWoken(p) ==
    /\ wpc[p] = "sleep"
    /\ p \notin asleep
    /\ wpc' = [wpc EXCEPT ![p] = "new"]
    /\ UNCHANGED <<line, ext, k, mask, old, new, early>>

WaitReturns(p) ==
    /\ wpc' = [wpc EXCEPT ![p] = "idle"]
    /\ mask' = [mask EXCEPT ![p] = {}]
    /\ old' = [old EXCEPT ![p] = [l \in Modem |-> FALSE]]
    /\ new' = [new EXCEPT ![p] = [l \in Modem |-> FALSE]]
    /\ early' = [early EXCEPT ![p] = {}]

\* ... or has received a signal: -ERESTARTSYS.
WaitSignal(p) ==
    /\ wpc[p] = "sleep"
    /\ asleep' = asleep \ {p}
    /\ WaitReturns(p)
    /\ UNCHANGED <<on, lpc, todo, ext, k>>

\* No line changed (-EIO), or one of the mask did (0): the call returns.
\* Otherwise it waits again, and compares with the old values again.
WaitDecide(p) ==
    /\ wpc[p] = "decide"
    /\ IF new[p] = old[p] \/ \E l \in mask[p] : new[p][l] # old[p][l]
         THEN WaitReturns(p)
         ELSE /\ wpc' = [wpc EXCEPT ![p] = "prepare"]
              /\ UNCHANGED <<mask, old, new, early>>
    /\ UNCHANGED <<line, ext, k>>

TIOCMIWAIT(p) ==
    \/ WaitRead(p, "old", "prepare")
    \/ WaitPrepare(p)
    \/ WaitWoken(p)
    \/ WaitRead(p, "new", "decide")
    \/ WaitDecide(p)

Next ==
    \/ \E x \in Contexts : Switch(x)
    \/ \E x \in Setters : SetterCalled(x)
    \/ CoreSwitches
    \/ external_int
    \/ \E p \in Waiters : WaitCalled(p) \/ WaitSignal(p) \/ TIOCMIWAIT(p)

Spec == Init /\ [][Next]_vars

\* Processes that can run do; the background is run again and again
\* (Rts!BackgroundRuns), and the core does not switch lines for ever in one run.
Fairness ==
    /\ \A x \in Contexts : WF_vars(Switch(x))
    /\ SF_vars(ExtTest)
    /\ WF_vars(ExtClear \/ ExtCall)
    /\ \A p \in Waiters : WF_vars(TIOCMIWAIT(p))

FairSpec == Spec /\ Fairness

-----------------------------------------------------------------------------

\* The modem core is never left with an outdated RTS, or with a DTR that has
\* dropped: as long as it has not read the present state, an external interrupt
\* is pending, being handled, or about to be announced.
ExternalIntKept ==
    \A l \in Control :
        (told[l] # on[l] /\ (l = "DTR" => ~on[l]))
            => \/ pending
               \/ bpc = "call"
               \/ \E x \in Setters : lpc[x] \in {"wake", "ext"} /\ Head(todo[x]).line = l

\* A process asleep in TIOCMIWAIT although a line it waits for has changed has
\* its wake-up under way, unless the line changed while the process was not on
\* the queue: UART_msr_wait tests nothing between joining it and the sleep.
NoMissedChange ==
    \A p \in asleep : \A l \in mask[p] \ early[p] :
        on[l] # old[p][l] => lpc[Core] = "wake"

\* A hang-up is seen: if DTR drops and stays down, the modem core reads so.
HangupSeen == <>[](~on["DTR"]) => <>[](~told["DTR"])
=============================================================================
