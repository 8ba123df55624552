------------------------------- MODULE Persist -------------------------------
(***************************************************************************)
(* The persistent settings (coredrv.c).  The modem core asks the process   *)
(* hamregistry for them: Exec_Linux_Persist, in the library, puts a request*)
(* in one global packet and waits, with timeouts, on the two queues of this*)
(* file; hamregistry reads /proc/ham, which blocks until there is a packet,*)
(* writes the answer there, and reads again.  The first request that fails *)
(* sets noAppRunning, and every later one fails at once.                   *)
(*                                                                         *)
(* clm_initialize asks in the process that opens the device, before it     *)
(* starts the background; from then on only clm_bg asks: there is one      *)
(* request at a time.  In atomic context, where clm_bg is in a kernel that *)
(* counts spin locks (CONFIG_PREEMPT), the waits and the wake-up are put   *)
(* off to the work queue clm_bg itself runs on.                            *)
(*                                                                         *)
(* A step of one thread is a read or a write of one flag the others see.   *)
(***************************************************************************)
EXTENDS Naturals

CONSTANTS
    Preempt,      \* TRUE if the kernel counts the spin lock of clm_bg
    MaxRequests   \* model bound: requests made while the module is loaded

ASSUME PersistAssumption == Preempt \in BOOLEAN /\ MaxRequests \in Nat

VARIABLES
    waitForApp,   \* wait_for_app: hamregistry is not waiting for a packet
    pktToApp,     \* pkt_to_app: hamregistry has not taken the packet
    pktFromApp,   \* pkt_from_app: hamregistry has answered
    noAppRunning, \* noAppRunning
    pkt,          \* global_reg_pkt
    readQSem,     \* readQSem: the reader of persistReadQ has to sleep
    writeQSem,    \* writeQSem: the waiter on persistWriteQ has to sleep
    epc,          \* where Exec_Linux_Persist is
    ctx,          \* who asks: "open" or "bg"
    req,          \* the number of the request
    wakeWork,     \* wait_wq is queued
    waitWork,     \* wait_wq2: "idle", "queued", or "asleep" in WakeTask2
    target,       \* what pkt_to_app1 points to
    hpc,          \* where hamregistry is
    got,          \* the packet hamregistry has read
    reached,      \* history: hamregistry was asleep when the request woke it
    fault         \* history: hamregistry was interrupted, died, or could not write

flags == <<waitForApp, pktToApp, pktFromApp>>
sems == <<readQSem, writeQSem>>
exec == <<epc, ctx, req, noAppRunning>>
work == <<wakeWork, waitWork, target>>
ham == <<hpc, got>>
seen == <<reached, fault>>
vars == <<flags, sems, pkt, exec, work, ham, seen>>

Packets == [kind : {"none", "request", "answer", "fail"}, id : 0..MaxRequests]

\* hamregistry is at work on what its read returned.
WithPacket == {"copy", "take", "leave", "wake", "again", "have", "answer", "ack"}
\* No request is under way.
Ended == {"idle", "answered", "failed"}

TypeOK ==
    /\ waitForApp \in BOOLEAN /\ pktToApp \in BOOLEAN /\ pktFromApp \in BOOLEAN
    /\ noAppRunning \in BOOLEAN
    /\ pkt \in Packets /\ got \in Packets
    /\ readQSem \in BOOLEAN /\ writeQSem \in BOOLEAN
    /\ epc \in Ended \cup {"test", "clear", "to", "wait", "waitsleep", "waitspin",
                           "wake", "read", "readsleep", "readspin", "taken",
                           "write", "writeset", "writesleep", "writespin", "last",
                           "fail"}
    /\ ctx \in {"open", "bg"}
    /\ req \in 0..MaxRequests
    /\ wakeWork \in BOOLEAN
    /\ waitWork \in {"idle", "queued", "asleep"}
    /\ target \in {"none", "wait_for_app", "pkt_to_app"}
    /\ hpc \in WithPacket \cup {"off", "run", "arrive", "set", "sleep"}
    /\ reached \in BOOLEAN /\ fault \in BOOLEAN

NoPacket == [kind |-> "none", id |-> 0]

Init ==
    /\ waitForApp = TRUE /\ pktToApp = FALSE /\ pktFromApp = FALSE
    /\ noAppRunning = FALSE
    /\ pkt = NoPacket /\ got = NoPacket
    /\ readQSem = FALSE /\ writeQSem = FALSE
    /\ epc = "idle" /\ ctx = "open" /\ req = 0
    /\ wakeWork = FALSE /\ waitWork = "idle" /\ target = "none"
    /\ hpc = "off"
    /\ reached = FALSE /\ fault = FALSE

-----------------------------------------------------------------------------
(* Exec_Linux_Persist and the waits it calls.                              *)

\* in_atomic() in the context of the request.
Atomic == Preempt /\ ctx = "bg"

\* hamregistry holds no packet, and no wake-up is on its way to it.
Resting ==
    /\ ~wakeWork
    /\ hpc \in {"off", "run", "arrive", "set"} \/ (hpc = "sleep" /\ readQSem)

\* The core fills the packet and calls Exec_Linux_Persist.
Request ==
    /\ epc \in Ended
    /\ req < MaxRequests
    /\ req' = req + 1
    /\ ctx' \in {"open", "bg"}
    /\ pkt' = [kind |-> "request", id |-> req']
    /\ epc' = "test"
    /\ reached' = FALSE
    /\ fault' = (fault /\ ~Resting)
    /\ UNCHANGED <<flags, sems, noAppRunning, work, ham>>

ExecGoto(from, to) ==
    /\ epc = from
    /\ epc' = to
    /\ UNCHANGED <<ctx, req>>

\* A step that changes no more than that.
ExecStep(from, to) ==
    /\ ExecGoto(from, to)
    /\ UNCHANGED <<noAppRunning, flags, sems, pkt, work, ham, seen>>

ExecTest ==
    /\ ExecGoto("test", IF noAppRunning THEN "failed" ELSE "clear")
    /\ pkt' = IF noAppRunning THEN [pkt EXCEPT !.kind = "fail"] ELSE pkt
    /\ UNCHANGED <<noAppRunning, flags, sems, work, ham, seen>>

ExecClear ==
    /\ ExecGoto("clear", "to")
    /\ pktFromApp' = FALSE
    /\ UNCHANGED <<noAppRunning, waitForApp, pktToApp, sems, pkt, work, ham, seen>>

ExecTo ==
    /\ ExecGoto("to", "wait")
    /\ pktToApp' = TRUE
    /\ UNCHANGED <<noAppRunning, waitForApp, pktFromApp, sems, pkt, work, ham, seen>>

\* The wait in atomic context if its two parameters were kept the wrong way round.
WaitDeferredSwapped(from, flagName, to) ==
    /\ Atomic
    /\ ExecGoto(from, to)
    /\ target' = "timeout"
    /\ waitWork' = IF waitWork = "idle" THEN "queued" ELSE waitWork
    /\ UNCHANGED <<noAppRunning, flags, sems, pkt, wakeWork, ham, seen>>

\* interruptible_sleep_on_timeout_persistReadQ in atomic context: the wait is put
\* off, the core goes on at once.  The work is queued once however often.
WaitDeferred(from, flagName, to) ==
    /\ Atomic
    /\ ExecGoto(from, to)
    /\ target' = flagName
    /\ waitWork' = IF waitWork = "idle" THEN "queued" ELSE waitWork
    /\ UNCHANGED <<noAppRunning, flags, sems, pkt, wakeWork, ham, seen>>

\* Elsewhere it tests the flag, and sleeps on a condition that is never true.
WaitTest(from, flag, sleep, to) ==
    /\ ~Atomic
    /\ ExecStep(from, IF flag THEN sleep ELSE to)

\* The sleep ends with the timeout, and with it the loop ...
WaitTimeout(sleep, to) == ExecStep(sleep, to)

\* ... or with a signal: -ERESTARTSYS in an unsigned timeout is a large number,
\* and the loop turns without sleeping until the flag changes.
WaitSignal(sleep, spin) ==
    /\ ctx = "open"
    /\ ExecStep(sleep, spin)

WaitSpin(spin, flag, to) ==
    /\ ExecStep(spin, to)
    /\ ~flag

\* The wake-up if it did not ask in which context it is called.
ExecWakeAtOnce ==
    /\ ExecGoto("wake", "read")
    /\ readQSem' = FALSE
    /\ reached' = (hpc = "sleep")
    /\ UNCHANGED <<noAppRunning, flags, writeQSem, pkt, work, ham, fault>>

\* wake_up_interruptible_persistReadQ.
ExecWake ==
    /\ ExecGoto("wake", "read")
    /\ IF Atomic
         THEN wakeWork' = TRUE /\ UNCHANGED <<readQSem, reached>>
         ELSE readQSem' = FALSE /\ reached' = (hpc = "sleep") /\ UNCHANGED wakeWork
    /\ UNCHANGED <<noAppRunning, flags, writeQSem, pkt, waitWork, target, ham, fault>>

\* The core gives up if the packet is still there.
ExecTaken == ExecStep("taken", IF pktToApp THEN "fail" ELSE "write")

\* interruptible_sleep_on_timeout_persistWriteQ: test the flag, ...
AnswerTest == ExecStep("write", IF pktFromApp THEN "last" ELSE "writeset")

\* ... set writeQSem, over a wake-up that came in between, ...
AnswerSleeps ==
    /\ ExecGoto("writeset", "writesleep")
    /\ writeQSem' = TRUE
    /\ UNCHANGED <<noAppRunning, flags, readQSem, pkt, work, ham, seen>>

\* ... and sleep until writeQSem is cleared, then look again ...
AnswerWoken ==
    /\ ~writeQSem
    /\ ExecStep("writesleep", "write")

\* The end of the sleep if what is left of the timeout were not kept.
AnswerTimeoutAgain == WaitTimeout("writesleep", "write")

\* ... or until the timeout or a signal.
AnswerTimeout == WaitTimeout("writesleep", "last")

ExecLast == ExecStep("last", IF pktFromApp THEN "answered" ELSE "fail")

ExecFail ==
    /\ ExecGoto("fail", "failed")
    /\ pkt' = [pkt EXCEPT !.kind = "fail"]
    /\ noAppRunning' = TRUE
    /\ UNCHANGED <<flags, sems, work, ham, seen>>

Exec_Linux_Persist ==
    \/ ExecTest
    \/ ExecClear
    \/ ExecTo
    \/ WaitDeferred("wait", "wait_for_app", "wake")
    \/ WaitTest("wait", waitForApp, "waitsleep", "wake")
    \/ WaitTimeout("waitsleep", "wake")
    \/ WaitSpin("waitspin", waitForApp, "wake")
    \/ ExecWake
    \/ WaitDeferred("read", "pkt_to_app", "taken")
    \/ WaitTest("read", pktToApp, "readsleep", "taken")
    \/ WaitTimeout("readsleep", "taken")
    \/ WaitSpin("readspin", pktToApp, "taken")
    \/ ExecTaken
    \/ AnswerTest
    \/ AnswerSleeps
    \/ AnswerWoken
    \/ AnswerTimeout
    \/ WaitSpin("writespin", ~pktFromApp, "last")
    \/ ExecLast
    \/ ExecFail

Signalled ==
    \/ WaitSignal("waitsleep", "waitspin")
    \/ WaitSignal("readsleep", "readspin")
    \/ WaitSignal("writesleep", "writespin")

-----------------------------------------------------------------------------
(* The work clm_bg put off.  It runs on the queue of the processor clm_bg   *)
(* runs on, so after clm_bg, and in the order it was queued.               *)

ClmBgDone == ctx = "bg" => epc \in Ended

\* The flag pkt_to_app1 points to.
Pending == IF target = "wait_for_app" THEN waitForApp ELSE pktToApp

WakeTask2 ==
    /\ ClmBgDone
    /\ waitWork = "queued"
    /\ waitWork' = IF Pending THEN "asleep" ELSE "idle"
    /\ UNCHANGED <<flags, sems, pkt, exec, wakeWork, target, ham, seen>>

\* The end of the sleep if the work waited for the flag alone.
WakeTask2Waits ==
    /\ waitWork = "asleep"
    /\ ~Pending
    /\ waitWork' = "idle"
    /\ UNCHANGED <<flags, sems, pkt, exec, wakeWork, target, ham, seen>>

WakeTask2Timeout ==
    /\ waitWork = "asleep"
    /\ waitWork' = "idle"
    /\ UNCHANGED <<flags, sems, pkt, exec, wakeWork, target, ham, seen>>

WakeTask ==
    /\ ClmBgDone
    /\ wakeWork /\ waitWork = "idle"
    /\ wakeWork' = FALSE
    /\ readQSem' = FALSE
    /\ UNCHANGED <<flags, writeQSem, pkt, exec, waitWork, target, ham, seen>>

Work == WakeTask2 \/ WakeTask2Timeout \/ WakeTask

-----------------------------------------------------------------------------
(* hamregistry: it reads a packet, answers it and reads the next.          *)

HamGoto(from, to) ==
    /\ hpc = from
    /\ hpc' = to

HamStep(from, to) ==
    /\ HamGoto(from, to)
    /\ UNCHANGED <<flags, sems, pkt, exec, work, got, seen>>

HamStart == HamStep("off", "run")

\* It may be killed, or end, outside its read.
HamDies ==
    /\ hpc \in {"run", "have"}
    /\ hpc' = "off"
    /\ fault' = TRUE
    /\ UNCHANGED <<flags, sems, pkt, exec, work, got, reached>>

\* hamproc_read, from the start of the file: persist_hamproc_read.
HamRead ==
    /\ HamGoto("run", "arrive")
    /\ waitForApp' = FALSE
    /\ UNCHANGED <<pktToApp, pktFromApp, sems, pkt, exec, work, got, seen>>

HamArrives ==
    /\ HamGoto("arrive", "set")
    /\ readQSem' = FALSE
    /\ UNCHANGED <<flags, writeQSem, pkt, exec, work, got, seen>>

\* The sleep if readQSem were left to whoever wakes.
HamSleepsUnset == HamStep("set", "sleep")

\* interruptible_sleep_on_persistReadQ sets readQSem itself, then sleeps.
HamSleeps ==
    /\ HamGoto("set", "sleep")
    /\ readQSem' = TRUE
    /\ UNCHANGED <<flags, writeQSem, pkt, exec, work, got, seen>>

HamWoken ==
    /\ HamStep("sleep", "copy")
    /\ ~readQSem

\* A signal that stops or kills it ends its sleep too, and the read goes on.
HamInterrupted ==
    /\ HamGoto("sleep", "copy")
    /\ fault' = TRUE
    /\ UNCHANGED <<flags, sems, pkt, exec, work, got, reached>>

HamCopies ==
    /\ HamGoto("copy", "take")
    /\ got' = pkt
    /\ UNCHANGED <<flags, sems, pkt, exec, work, seen>>

HamTakes ==
    /\ HamGoto("take", "leave")
    /\ pktToApp' = FALSE
    /\ UNCHANGED <<waitForApp, pktFromApp, sems, pkt, exec, work, got, seen>>

HamLeaves ==
    /\ HamGoto("leave", "wake")
    /\ waitForApp' = TRUE
    /\ UNCHANGED <<pktToApp, pktFromApp, sems, pkt, exec, work, got, seen>>

HamWakes ==
    /\ HamGoto("wake", "again")
    /\ readQSem' = FALSE
    /\ UNCHANGED <<flags, writeQSem, pkt, exec, work, got, seen>>

\* The second call if hamproc_read did not look at the offset.
HamReadsAgain ==
    /\ HamGoto("again", "arrive")
    /\ waitForApp' = FALSE
    /\ UNCHANGED <<pktToApp, pktFromApp, sems, pkt, exec, work, got, seen>>

\* The packet is shorter than what hamregistry asked for: /proc calls
\* hamproc_read again, behind the start of the file, where it reports the end.
HamEndOfFile == HamStep("again", "have")

\* hamregistry answers a request, again if it reads it again, ignores what it
\* does not know, and ends on a packet that was never filled.
HamIgnores ==
    /\ HamStep("have", IF got.kind = "none" THEN "off" ELSE "run")
    /\ got.kind \in {"none", "fail"}

\* hamproc_write: there may be no memory for the copy ...
HamWriteFails ==
    /\ HamGoto("have", "run")
    /\ got.kind \in {"request", "answer"}
    /\ fault' = TRUE
    /\ UNCHANGED <<flags, sems, pkt, exec, work, got, reached>>

\* ... or persist_hamproc_write puts the answer where the request was.
HamWrite ==
    /\ HamGoto("have", "answer")
    /\ got.kind \in {"request", "answer"}
    /\ pkt' = [kind |-> "answer", id |-> got.id]
    /\ UNCHANGED <<flags, sems, exec, work, got, seen>>

HamAnswers ==
    /\ HamGoto("answer", "ack")
    /\ pktFromApp' = TRUE
    /\ UNCHANGED <<waitForApp, pktToApp, sems, pkt, exec, work, got, seen>>

HamAcks ==
    /\ HamGoto("ack", "run")
    /\ writeQSem' = FALSE
    /\ UNCHANGED <<flags, readQSem, pkt, exec, work, got, seen>>

hamproc_read ==
    \/ HamRead
    \/ HamArrives
    \/ HamSleeps
    \/ HamWoken
    \/ HamCopies
    \/ HamTakes
    \/ HamLeaves
    \/ HamWakes
    \/ HamEndOfFile

hamproc_write == HamWrite \/ HamAnswers \/ HamAcks

Next ==
    \/ Request
    \/ Exec_Linux_Persist
    \/ Signalled
    \/ Work
    \/ hamproc_read
    \/ hamproc_write
    \/ HamStart
    \/ HamDies
    \/ HamInterrupted
    \/ HamIgnores
    \/ HamWriteFails

Spec == Init /\ [][Next]_vars

\* A thread that can run does, a timeout passes, and a work item that waits is
\* run once the one before it is done; nobody need ask, start or stop hamregistry.
Fairness ==
    /\ WF_vars(Exec_Linux_Persist)
    /\ SF_vars(Work)
    /\ WF_vars(hamproc_read)
    /\ WF_vars(hamproc_write \/ HamIgnores)

FairSpec == Spec /\ Fairness

-----------------------------------------------------------------------------

\* A request that ends well holds the answer to it, not the answer to one that
\* was given up, unless hamregistry was interrupted in its sleep and so had a
\* packet nobody had given it.
AnswerMatches ==
    epc = "answered" => pkt = [kind |-> "answer", id |-> req] \/ fault

\* The core gives up while hamregistry sleeps, for good, in its read only if it
\* had not yet been asleep when the core woke it: the wake-up came before
\* readQSem was set, or hamregistry arrived later.
GivesUpOnlyUnreached ==
    [][epc # "fail" /\ epc' = "fail" /\ hpc = "sleep" /\ readQSem
          => ~reached \/ fault]_vars

\* A request made in atomic context is never answered: the core looks for the answer
\* before the work queue has run the wake-up it put off, even when hamregistry is
\* asleep in its read and ready, unless a signal wakes hamregistry.
UnservedInAtomic == epc = "answered" /\ Atomic => fault

\* A request ends, with hamregistry or without, unless a signal hits the process
\* that opens the device: it then turns in the loop until hamregistry comes.
RequestEnds ==
    epc = "test" ~> epc \in Ended \cup {"waitspin", "readspin", "writespin"}

\* The wake-up that was put off reaches hamregistry, although the wait queued
\* before it waits for what hamregistry would do.
WakeReaches == wakeWork /\ hpc = "sleep" ~> hpc # "sleep"
=============================================================================
