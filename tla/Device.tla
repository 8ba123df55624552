------------------------------- MODULE Device -------------------------------
(***************************************************************************)
(* Opening and closing the device: softserial_open and softserial_close    *)
(* (softserial.c), which count who has it open, and open and close of      *)
(* coredrv.c, which start and stop the modem for the first and the last,   *)
(* with the interrupt, the tasklet and the event handler that run between. *)
(*                                                                         *)
(* The kernel (2.6.32) calls open and close under its big lock, which a    *)
(* process gives up where it sleeps: each step here is what a process does *)
(* up to a call that may sleep.  When an open fails, the kernel closes the *)
(* file again; it frees the tty after the last close, once the work queued *)
(* so far has run.  Memory is never short.                                 *)
(***************************************************************************)
EXTENDS Integers, FiniteSets

CONSTANTS
    Procs,   \* processes that open and close the device
    RefMod,  \* 2 ^ width of G.refcount
    MaxIrqs  \* model bound: request_irq fails if that many handlers are registered

ASSUME DeviceAssumption ==
    /\ IsFiniteSet(Procs)
    /\ RefMod \in Nat /\ RefMod > 1
    /\ MaxIrqs \in Nat

VARIABLES
    refcount,   \* G.refcount
    pc,         \* pc[p]: where p is in opening or closing, or "open"
    page,       \* G.softcore.tx_fifo
    mapped,     \* pBaseAddress
    callback,   \* CRAM_CallBack is line_int, not NULL
    irqs,       \* how often interrupt_handler is registered
    services,   \* between clm_initialize and clm_terminate (Rts)
    tty,        \* softserial_async.tty: "none", or is what it points to freed?
    ptty,       \* G.softcore.ptty, the same
    isr,        \* inside interrupt_handler
    tasklet,    \* dpc_tasklet is scheduled
    calling,    \* dpc_function is inside CRAM_CallBack
    work,       \* softserial_bg_event_work is queued
    user,       \* the tty an event handler uses, or "none"
    trouble,    \* history: what has gone wrong, see below
    overtaken   \* history: the callback was cleared while it was being called

counts == <<refcount, pc, trouble>>
hardware == <<mapped, callback, irqs, services>>
ttys == <<page, tty, ptty>>
deferred == <<isr, tasklet, calling, work, user, overtaken>>
vars == <<counts, hardware, ttys, deferred>>

Pointers == {"none", "live", "freed"}
Starting == {"alloc", "enable", "map", "irq", "start", "startfail"}
Stopping == {"term", "freeirq", "unmap", "free"}

TypeOK ==
    /\ refcount \in 0..RefMod-1
    /\ pc \in [Procs -> Starting \cup Stopping \cup {"away", "open", "failed", "closed", "flush"}]
    /\ page \in BOOLEAN /\ mapped \in BOOLEAN /\ callback \in BOOLEAN
    /\ irqs \in Nat
    /\ services \in BOOLEAN
    /\ tty \in Pointers /\ ptty \in Pointers
    /\ isr \in BOOLEAN
    /\ tasklet \in BOOLEAN /\ calling \in BOOLEAN
    /\ work \in BOOLEAN
    /\ user \in Pointers
    \* An open failed and left what it had taken; others were counted in when it
    \* failed, or its close counted them out; the count wrapped round; the modem
    \* was being started by one process and stopped by another at the same time.
    /\ trouble \subseteq {"left", "miscounted", "wrapped", "crossed"}
    /\ overtaken \in BOOLEAN

Init ==
    /\ refcount = 0
    /\ pc = [p \in Procs |-> "away"]
    /\ page = FALSE /\ mapped = FALSE /\ callback = FALSE
    /\ irqs = 0
    /\ services = FALSE
    /\ tty = "none" /\ ptty = "none"
    /\ isr = FALSE
    /\ tasklet = FALSE /\ calling = FALSE
    /\ work = FALSE
    /\ user = "none"
    /\ trouble = {}
    /\ overtaken = FALSE

GoTo(p, place) == pc' = [pc EXCEPT ![p] = place]

-----------------------------------------------------------------------------
(* softserial_open and, for whoever finds the count at 0, open.            *)

\* The open if the first one were not counted.
OpenCountsOthers(p) ==
    /\ pc[p] = "away"
    /\ \A q \in Procs : pc[q] # "flush"
    /\ IF refcount # 0
         THEN GoTo(p, "open") /\ refcount' = (refcount + 1) % RefMod /\ UNCHANGED tty
         ELSE GoTo(p, "alloc") /\ tty' = "live" /\ UNCHANGED refcount
    /\ UNCHANGED <<trouble, hardware, page, ptty, deferred>>

\* if(G.refcount++) return 0.
OpenCount(p) ==
    /\ pc[p] = "away"
    /\ \A q \in Procs : pc[q] # "flush"
    /\ refcount' = (refcount + 1) % RefMod
    /\ IF refcount # 0
         THEN /\ GoTo(p, "open")
              /\ trouble' = trouble \cup (IF refcount' = 0 THEN {"wrapped"} ELSE {})
              /\ UNCHANGED tty
         ELSE /\ GoTo(p, "alloc")
              /\ tty' = "live"
              /\ trouble' = trouble \cup
                     (IF \E q \in Procs : pc[q] \in Stopping THEN {"crossed"} ELSE {})
    /\ UNCHANGED <<hardware, page, ptty, deferred>>

\* The start if it forgot the tty of the core.
OpenAllocOldTty(p) ==
    /\ pc[p] = "alloc"
    /\ page' = TRUE
    /\ GoTo(p, "enable")
    /\ UNCHANGED <<refcount, trouble, hardware, tty, ptty, deferred>>

\* get_zeroed_page, G.softcore.ptty = ptty
OpenAlloc(p) ==
    /\ pc[p] = "alloc"
    /\ page' = TRUE
    /\ ptty' = "live"
    /\ GoTo(p, "enable")
    /\ UNCHANGED <<refcount, trouble, hardware, tty, deferred>>

\* open has returned an error: G.refcount-- and -EFAULT.
OpenFails(p) ==
    /\ refcount' = (refcount - 1) % RefMod
    /\ trouble' = trouble \cup {"left"}
                          \cup (IF refcount # 1 THEN {"miscounted"} ELSE {})
    /\ GoTo(p, "failed")

\* pci_enable_device
OpenEnable(p) ==
    /\ pc[p] = "enable"
    /\ \/ GoTo(p, "map") /\ UNCHANGED <<refcount, trouble>>
       \/ OpenFails(p)
    /\ UNCHANGED <<hardware, ttys, deferred>>

\* ioremap, clm_configure, dspdrv_SetCramISRCallBack(line_int)
OpenMap(p) ==
    /\ pc[p] = "map"
    /\ mapped' = TRUE
    /\ callback' = TRUE
    /\ GoTo(p, "irq")
    /\ UNCHANGED <<refcount, trouble, irqs, services, ttys, deferred>>

\* request_irq, whose failure is returned only after all has been started.
OpenIrq(p) ==
    /\ pc[p] = "irq"
    /\ \/ irqs < MaxIrqs /\ irqs' = irqs + 1 /\ GoTo(p, "start")
       \/ GoTo(p, "startfail") /\ UNCHANGED irqs
    /\ UNCHANGED <<refcount, trouble, mapped, callback, services, ttys, deferred>>

\* UART_init, clm_initialize
OpenStart(p) ==
    /\ services' = TRUE
    /\ \/ pc[p] = "start" /\ GoTo(p, "open") /\ UNCHANGED <<refcount, trouble>>
       \/ pc[p] = "startfail" /\ OpenFails(p)
    /\ UNCHANGED <<mapped, callback, irqs, ttys, deferred>>

softserial_open(p) ==
    \/ OpenCount(p)
    \/ OpenAlloc(p)
    \/ OpenEnable(p)
    \/ OpenMap(p)
    \/ OpenIrq(p)
    \/ OpenStart(p)

-----------------------------------------------------------------------------
(* softserial_close and, for whoever takes the count to 0, close.          *)

\* The close if every close stopped the modem.
CloseStopsAlways(p) ==
    /\ pc[p] \in {"open", "failed"}
    /\ IF refcount = 0
         THEN GoTo(p, "closed") /\ UNCHANGED refcount
         ELSE GoTo(p, "term") /\ refcount' = refcount - 1
    /\ UNCHANGED <<trouble, hardware, ttys, deferred>>

\* The close if it did not look whether the device is open at all.
CloseUnchecked(p) ==
    /\ pc[p] \in {"open", "failed"}
    /\ refcount' = refcount - 1
    /\ GoTo(p, IF refcount' = 0 THEN "term" ELSE "closed")
    /\ UNCHANGED <<trouble, hardware, ttys, deferred>>

CloseCount(p) ==
    /\ pc[p] \in {"open", "failed"}
    /\ IF refcount = 0
         THEN GoTo(p, "closed") /\ UNCHANGED <<refcount, trouble>>
         ELSE /\ refcount' = refcount - 1
              /\ GoTo(p, IF refcount' = 0 THEN "term" ELSE "closed")
              /\ trouble' = trouble
                     \cup (IF pc[p] = "failed" THEN {"miscounted"} ELSE {})
                     \cup (IF refcount' = 0 /\ \E q \in Procs : pc[q] \in Starting
                             THEN {"crossed"} ELSE {})
    /\ UNCHANGED <<hardware, ttys, deferred>>

\* clm_terminate, which sleeps in RTS_Task_Terminate and then stops all.
CloseTerm(p) ==
    /\ pc[p] = "term"
    /\ services' = FALSE
    /\ callback' = FALSE
    /\ overtaken' = (overtaken \/ calling)
    /\ GoTo(p, "freeirq")
    /\ UNCHANGED <<refcount, trouble, mapped, irqs, ttys, isr, tasklet, calling, work, user>>

\* The close if it forgot to release the interrupt.
CloseKeepsIrq(p) ==
    /\ pc[p] = "freeirq"
    /\ GoTo(p, "unmap")
    /\ UNCHANGED <<refcount, trouble, hardware, ttys, deferred>>

\* free_irq, which waits for a handler that runs.
CloseFreeIrq(p) ==
    /\ pc[p] = "freeirq"
    /\ ~isr
    /\ irqs' = IF irqs > 0 THEN irqs - 1 ELSE 0
    /\ GoTo(p, "unmap")
    /\ UNCHANGED <<refcount, trouble, mapped, callback, services, ttys, deferred>>

\* vfree(pBaseAddress)
CloseUnmap(p) ==
    /\ pc[p] = "unmap"
    /\ mapped' = FALSE
    /\ GoTo(p, "free")
    /\ UNCHANGED <<refcount, trouble, callback, irqs, services, ttys, deferred>>

\* free_page, s->tty = NULL
CloseFree(p) ==
    /\ pc[p] = "free"
    /\ page' = FALSE
    /\ tty' = "none"
    /\ GoTo(p, "closed")
    /\ UNCHANGED <<refcount, trouble, hardware, ptty, deferred>>

softserial_close(p) ==
    \/ CloseCount(p)
    \/ CloseTerm(p)
    \/ CloseFreeIrq(p)
    \/ CloseUnmap(p)
    \/ CloseFree(p)

-----------------------------------------------------------------------------
(* What the kernel does with the tty, external.                            *)

TtyRelease(p) ==
    /\ pc[p] = "closed"
    /\ GoTo(p, IF \A q \in Procs \ {p} : pc[q] = "away" THEN "flush" ELSE "away")
    /\ UNCHANGED <<refcount, trouble, hardware, ttys, deferred>>

\* flush_scheduled_work has returned, and the tty is freed.
TtyFree(p) ==
    LET free(pointer) == IF pointer = "live" THEN "freed" ELSE pointer IN
    /\ pc[p] = "flush"
    /\ ~work /\ user = "none"
    /\ tty' = free(tty)
    /\ ptty' = free(ptty)
    /\ GoTo(p, "away")
    /\ UNCHANGED <<refcount, trouble, hardware, page, deferred>>

-----------------------------------------------------------------------------
(* The interrupt, the tasklet and the event handler.                       *)

Interrupt ==
    /\ irqs > 0
    /\ ~isr
    /\ isr' = TRUE
    /\ UNCHANGED <<counts, hardware, ttys, tasklet, calling, work, user, overtaken>>

\* interrupt_handler finds that the interrupt is another device's, or clears it
\* and schedules the tasklet.
InterruptEnd ==
    /\ isr
    /\ isr' = FALSE
    /\ tasklet' \in {tasklet, TRUE}
    /\ UNCHANGED <<counts, hardware, ttys, calling, work, user, overtaken>>

\* dpc_function
DpcTest ==
    /\ tasklet /\ ~calling
    /\ tasklet' = FALSE
    /\ calling' = callback
    /\ UNCHANGED <<counts, hardware, ttys, isr, work, user, overtaken>>

DpcCall ==
    /\ calling
    /\ calling' = FALSE
    /\ overtaken' = FALSE
    /\ UNCHANGED <<counts, hardware, ttys, isr, tasklet, work, user>>

\* The background calls schedule_background_event, through G.softcore.ptty.
ScheduleEvent ==
    /\ services
    /\ work' = TRUE
    /\ UNCHANGED <<counts, hardware, ttys, isr, tasklet, calling, user, overtaken>>

\* softserial_background_event_handler
HandlerStart ==
    /\ work /\ user = "none"
    /\ work' = FALSE
    /\ user' = tty
    /\ UNCHANGED <<counts, hardware, ttys, isr, tasklet, calling, overtaken>>

HandlerEnd ==
    /\ user # "none"
    /\ user' = "none"
    /\ UNCHANGED <<counts, hardware, ttys, isr, tasklet, calling, work, overtaken>>

Next ==
    \/ \E p \in Procs : softserial_open(p) \/ softserial_close(p)
    \/ \E p \in Procs : TtyRelease(p) \/ TtyFree(p)
    \/ Interrupt \/ InterruptEnd
    \/ DpcTest \/ DpcCall
    \/ ScheduleEvent
    \/ HandlerStart \/ HandlerEnd

Spec == Init /\ [][Next]_vars

-----------------------------------------------------------------------------

Changing == \E p \in Procs : pc[p] \in Starting \cup Stopping

\* As long as a process has the device open, the modem is on once it has been
\* started, whoever came, went or failed to open it, unless it was started and
\* stopped at the same time, or the count went wrong.
OnWhileOpen ==
    ((\E p \in Procs : pc[p] = "open") /\ ~Changing /\ trouble \subseteq {"left"})
        => /\ services /\ callback /\ mapped /\ page
           /\ irqs = 1
           /\ tty = "live" /\ ptty = "live"

\* Once nobody has the device open any more, everything has been given back,
\* unless an open failed, which gives nothing back (softserial_open).
OffWhenClosed ==
    ((\A p \in Procs : pc[p] = "away") /\ trouble = {})
        => /\ ~services /\ ~callback /\ ~mapped /\ ~page
           /\ irqs = 0 /\ ~isr
           /\ tty = "none"
           /\ ~work /\ user = "none"

\* interrupt_handler reads registers of the DSP, so they are mapped while it
\* runs, even if opens have failed and were miscounted.
HandlerMapped == (isr /\ trouble \subseteq {"left", "miscounted"}) => mapped

\* So they are while the tasklet is inside CRAM_CallBack, unless the modem was
\* stopped during the call: close does not wait for it.
CallbackMapped ==
    (calling /\ ~overtaken /\ trouble \subseteq {"left", "miscounted"}) => mapped

\* Whoever runs in the interrupt finds the registers.
RegistersMapped == HandlerMapped /\ CallbackMapped

\* Neither the event handler nor the background uses a tty that was freed.
TtyAlive ==
    trouble = {} => user # "freed" /\ (services => ptty = "live")

\* The processes share the modem as SharedModem says, failed opens included, until
\* a count goes wrong or a start and a stop meet: nobody has a modem that is being
\* stopped, and it is stopped for the last one only.
Lost == ~(trouble \subseteq {"left"})
Users == IF Lost THEN {} ELSE {p \in Procs : pc[p] = "open"}
Power ==
    IF Lost THEN "lost"
    ELSE IF refcount = 0
      THEN IF \E p \in Procs : pc[p] \in Stopping THEN "stopping" ELSE "off"
      ELSE IF \E p \in Procs : pc[p] \in Starting THEN "starting" ELSE "on"
Shared == INSTANCE SharedModem WITH power <- Power, users <- Users
ModemShared == Shared!SSpec

\* "if not last one open, just return": the modem is stopped only when no other
\* process has the device open.
LastOneStops ==
    [][\A p \in Procs : (pc[p] # "term" /\ pc'[p] = "term")
           => \A q \in Procs \ {p} : pc[q] # "open"]_vars
=============================================================================
