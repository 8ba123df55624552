-------------------------------- MODULE Rts --------------------------------
(***************************************************************************)
(* Real-Time Services (rts.c), which run the modem: a kernel timer (softirq*)
(* RTS_Timer) counts 10 ms ticks and, every rts_timeout, calls             *)
(* RTS_Task_Schedule, which queues RTS_Task on the kernel work queue or    *)
(* resumes it if the modem core gave up the processor inside it            *)
(* (RSATaskYield, task.c).  RTS_Task runs clm_bg (clmmain.c) under the spin*)
(* lock Lock_clm_bg.  clm_initialize starts the services when the device is*)
(* opened, clm_terminate stops them when it is closed.                     *)
(*                                                                         *)
(* The flags are volatile bytes with no lock of their own, so every read   *)
(* of a flag and every write of one that another thread reads is a step.   *)
(***************************************************************************)
EXTENDS Integers

CONSTANTS
    Workers,     \* kernel work queue threads, one per processor
    NoWorker,    \* not a worker
    Timeouts,    \* the values clm_bg gives rts_timeout, in ms
    JiffyMs,     \* length of a jiffy, in ms
    MaxLate,     \* model bound: jiffies from one run of RTS_Timer to the next
    SameCpu      \* TRUE if close runs on the processor whose timer is armed

TickMs == 10     \* the period RTS_Timer counts in
AsyncTimer == 10 \* RTS_ASYNC_TIMER

ASSUME RtsAssumption ==
    /\ NoWorker \notin Workers \cup {"app", "timer"}
    /\ Timeouts \subseteq Nat
    /\ JiffyMs \in Nat \ {0}
    /\ MaxLate \in Nat \ {0}
    /\ SameCpu \in BOOLEAN

VARIABLES
    timerRunning,  \* rs_timer_running
    taskEnabled,   \* rs_task_enabled
    taskRunning,   \* rs_task_running
    taskYielded,   \* rs_task_yielded
    rtsTimeout,    \* rts_timeout
    rtsTimer,      \* rts_timer
    time,          \* RTS_Timer's static time, in ms
    armed,         \* rs_timer is pending
    timerLock,     \* holder of Lock_timer_task: "free", "timer" or "app"
    tpc,           \* where RTS_Timer is
    queued,        \* the worker whose queue holds rs_wq, or NoWorker
    bgLock,        \* holder of Lock_clm_bg, or NoWorker
    sleepers,      \* workers on yield_wq that nobody has woken
    wpc,           \* where each worker is
    apc,           \* where the process that opens and closes the device is
    gaveUp,        \* history: this close stopped waiting for a running task
    clean          \* history: no RTS_Task was left over when services started

flags == <<timerRunning, taskEnabled, taskRunning, taskYielded>>
clock == <<rtsTimeout, rtsTimer, time>>
work == <<queued, bgLock, sleepers, wpc>>
app == <<apc, gaveUp, clean>>
vars == <<flags, clock, armed, timerLock, tpc, work, app>>

\* A worker inside clm_bg; asleep there or not, it holds Lock_clm_bg.
InBg == {"bg", "prepare", "test", "sleep"}
\* A worker inside RTS_Task that has not yet cleared rs_task_running.
Busy == {"enabled", "running", "lock", "done"} \cup InBg

TypeOK ==
    /\ timerRunning \in BOOLEAN /\ taskEnabled \in BOOLEAN
    /\ taskRunning \in BOOLEAN /\ taskYielded \in BOOLEAN
    /\ rtsTimeout \in Nat /\ rtsTimer \in Nat /\ time \in Nat
    /\ armed \in BOOLEAN
    /\ timerLock \in {"free", "timer", "app"}
    /\ tpc \in {"idle", "lock", "check", "loop", "enabled", "running", "start",
                "queue", "yielded", "resume", "wake", "unlock"}
    /\ queued \in Workers \cup {NoWorker}
    /\ bgLock \in Workers \cup {NoWorker}
    /\ sleepers \subseteq Workers
    /\ wpc \in [Workers -> Busy \cup {"idle", "wake"}]
    /\ apc \in {"closed", "enable", "opening", "open", "term", "disable",
                "dellock", "delsync", "teardown"}
    /\ gaveUp \in BOOLEAN /\ clean \in BOOLEAN

Init ==
    /\ timerRunning = FALSE /\ taskEnabled = FALSE
    /\ taskRunning = FALSE /\ taskYielded = FALSE
    /\ rtsTimeout = 0 /\ rtsTimer = 0 /\ time = 0
    /\ armed = FALSE
    /\ timerLock = "free"
    /\ tpc = "idle"
    /\ queued = NoWorker
    /\ bgLock = NoWorker
    /\ sleepers = {}
    /\ wpc = [w \in Workers |-> "idle"]
    /\ apc = "closed"
    /\ gaveUp = FALSE /\ clean = TRUE

-----------------------------------------------------------------------------
(* RTS_Timer and the RTS_Task_Schedule it calls.                           *)

\* The kernel runs the timer.  spin_lock_bh keeps softirqs off the processor of
\* whoever holds Lock_timer_task, but not off the others.
TimerFire ==
    /\ armed /\ tpc = "idle"
    /\ ~(SameCpu /\ timerLock = "app")
    /\ armed' = FALSE
    /\ tpc' = "lock"
    /\ UNCHANGED <<flags, clock, timerLock, work, app>>

TimerLock ==
    /\ tpc = "lock"
    /\ timerLock = "free"
    /\ timerLock' = "timer"
    /\ tpc' = "check"
    /\ UNCHANGED <<flags, clock, armed, work, app>>

TimerCheck ==
    /\ tpc = "check"
    /\ IF timerRunning
         THEN /\ \E d \in 1..MaxLate : time' = time + JiffyMs * d
              /\ tpc' = "loop"
         ELSE /\ tpc' = "unlock"
              /\ UNCHANGED time
    /\ UNCHANGED <<flags, rtsTimeout, rtsTimer, armed, timerLock, work, app>>

\* The turn if rts_timer were decremented without the test.
TimerTickNoFloor ==
    /\ tpc = "loop"
    /\ time >= TickMs
    /\ time' = time - TickMs
    /\ rtsTimer' = rtsTimer - TickMs
    /\ tpc' = IF rtsTimer' = 0 THEN "enabled" ELSE "loop"
    /\ UNCHANGED <<flags, rtsTimeout, armed, timerLock, work, app>>

\* One turn of the loop, up to the call of RTS_Task_Schedule.
TimerTick ==
    /\ tpc = "loop"
    /\ time >= TickMs
    /\ time' = time - TickMs
    /\ rtsTimer' = IF rtsTimer >= TickMs THEN rtsTimer - TickMs ELSE 0
    /\ tpc' = IF rtsTimer' = 0 THEN "enabled" ELSE "loop"
    /\ UNCHANGED <<flags, rtsTimeout, armed, timerLock, work, app>>

\* The end of the handler if it did not arm the timer again.
TimerNotRearmed ==
    /\ tpc = "loop"
    /\ time < TickMs
    /\ tpc' = "unlock"
    /\ UNCHANGED <<flags, clock, armed, timerLock, work, app>>

\* mod_timer.
TimerRearm ==
    /\ tpc = "loop"
    /\ time < TickMs
    /\ armed' = TRUE
    /\ tpc' = "unlock"
    /\ UNCHANGED <<flags, clock, timerLock, work, app>>

TimerUnlock ==
    /\ tpc = "unlock"
    /\ timerLock' = "free"
    /\ tpc' = "idle"
    /\ UNCHANGED <<flags, clock, armed, work, app>>

\* RTS_Task_Schedule reads rs_task_enabled, rs_task_running, rs_task_yielded.
ScheduleTest(from, flag, then, else) ==
    /\ tpc = from
    /\ tpc' = IF flag THEN then ELSE else
    /\ UNCHANGED <<flags, clock, armed, timerLock, work, app>>

\* The task is not running: start it.
ScheduleStart ==
    /\ tpc = "start"
    /\ rtsTimer' = rtsTimeout
    /\ taskRunning' = TRUE
    /\ tpc' = "queue"
    /\ UNCHANGED <<timerRunning, taskEnabled, taskYielded, rtsTimeout, time,
                   armed, timerLock, work, app>>

\* schedule_work does nothing if the work is already queued.
ScheduleQueue ==
    /\ tpc = "queue"
    /\ IF queued = NoWorker THEN \E w \in Workers : queued' = w
                            ELSE UNCHANGED queued
    /\ tpc' = "loop"
    /\ UNCHANGED <<flags, clock, armed, timerLock, bgLock, sleepers, wpc, app>>

\* The resumption if it only cleared the flag.
ScheduleResumeNoWake ==
    /\ tpc = "resume"
    /\ rtsTimer' = rtsTimeout
    /\ taskYielded' = FALSE
    /\ tpc' = "loop"
    /\ UNCHANGED <<timerRunning, taskEnabled, taskRunning, rtsTimeout, time,
                   armed, timerLock, work, app>>

\* The task has yielded: resume it.
ScheduleResume ==
    /\ tpc = "resume"
    /\ rtsTimer' = rtsTimeout
    /\ taskYielded' = FALSE
    /\ tpc' = "wake"
    /\ UNCHANGED <<timerRunning, taskEnabled, taskRunning, rtsTimeout, time,
                   armed, timerLock, work, app>>

ScheduleWake ==
    /\ tpc = "wake"
    /\ sleepers' = {}
    /\ tpc' = "loop"
    /\ UNCHANGED <<flags, clock, armed, timerLock, queued, bgLock, wpc, app>>

RTS_Task_Schedule ==
    \/ ScheduleTest("enabled", taskEnabled, "running", "loop")
    \/ ScheduleTest("running", taskRunning, "yielded", "start")
    \/ ScheduleTest("yielded", taskYielded, "resume", "loop")
    \/ ScheduleStart
    \/ ScheduleQueue
    \/ ScheduleResume
    \/ ScheduleWake

RTS_Timer ==
    \/ TimerLock
    \/ TimerCheck
    \/ TimerTick
    \/ RTS_Task_Schedule
    \/ TimerRearm
    \/ TimerUnlock

-----------------------------------------------------------------------------
(* RTS_Task, clm_bg and RSATaskYield, on a worker w.                       *)

Goto(w, from, to) ==
    /\ wpc[w] = from
    /\ wpc' = [wpc EXCEPT ![w] = to]

\* The kernel takes the work off the queue before it runs it, so that it can be
\* queued again, on another processor too, while it runs.
WorkStart(w) ==
    /\ Goto(w, "idle", "enabled")
    /\ queued = w
    /\ queued' = NoWorker
    /\ UNCHANGED <<flags, clock, armed, timerLock, tpc, bgLock, sleepers, app>>

WorkTest(w, from, flag, to) ==
    /\ Goto(w, from, IF flag THEN to ELSE "done")
    /\ UNCHANGED <<flags, clock, armed, timerLock, tpc, queued, bgLock,
                   sleepers, app>>

BgLock(w) ==
    /\ Goto(w, "lock", "bg")
    /\ bgLock = NoWorker
    /\ bgLock' = w
    /\ UNCHANGED <<flags, clock, armed, timerLock, tpc, queued, sleepers, app>>

\* The yield if a task that has yielded counted as not running.
BgYieldNotRunning(w) ==
    /\ Goto(w, "bg", "prepare")
    /\ taskYielded' = TRUE
    /\ taskRunning' = FALSE
    /\ UNCHANGED <<timerRunning, taskEnabled, clock, armed, timerLock, tpc,
                   queued, bgLock, sleepers, app>>

\* The modem core, called from clm_bg, yields when its time slice is over.
BgYield(w) ==
    /\ Goto(w, "bg", "prepare")
    /\ taskYielded' = TRUE
    /\ UNCHANGED <<timerRunning, taskEnabled, taskRunning, clock, armed,
                   timerLock, tpc, queued, bgLock, sleepers, app>>

\* wait_event_interruptible(yield_wq, rs_task_yielded == FALSE): queue, test the
\* condition, sleep, and start again once woken.
YieldPrepare(w) ==
    /\ Goto(w, "prepare", "test")
    /\ sleepers' = sleepers \cup {w}
    /\ UNCHANGED <<flags, clock, armed, timerLock, tpc, queued, bgLock, app>>

YieldTest(w) ==
    /\ Goto(w, "test", IF taskYielded THEN "sleep" ELSE "bg")
    /\ sleepers' = IF taskYielded THEN sleepers ELSE sleepers \ {w}
    /\ UNCHANGED <<flags, clock, armed, timerLock, tpc, queued, bgLock, app>>

YieldWoken(w) ==
    /\ Goto(w, "sleep", "prepare")
    /\ w \notin sleepers
    /\ UNCHANGED <<flags, clock, armed, timerLock, tpc, queued, bgLock,
                   sleepers, app>>

\* UpdateMinRunTime: if the library has come to another state of its command,
\* data, voice or fax machine, that state's timeout (RTS_Set_Timeout); if not,
\* what there was, from an earlier session too.
UpdateMinRunTime == rtsTimeout' \in Timeouts \cup {rtsTimeout}

\* The rest of clm_bg.
BgFinish(w) ==
    /\ Goto(w, "bg", "done")
    /\ bgLock' = NoWorker
    /\ UpdateMinRunTime
    /\ UNCHANGED <<flags, rtsTimer, time, armed, timerLock, tpc, queued,
                   sleepers, app>>

WorkDone(w) ==
    /\ Goto(w, "done", "wake")
    /\ taskRunning' = FALSE
    /\ UNCHANGED <<timerRunning, taskEnabled, taskYielded, clock, armed,
                   timerLock, tpc, queued, bgLock, sleepers, app>>

\* wake_up_interruptible(&terminate_wq) and the return to the kernel.
WorkWake(w) ==
    /\ Goto(w, "wake", "idle")
    /\ UNCHANGED <<flags, clock, armed, timerLock, tpc, queued, bgLock,
                   sleepers, app>>

RTS_Task(w) ==
    \/ WorkStart(w)
    \/ WorkTest(w, "enabled", taskEnabled, "running")
    \/ WorkTest(w, "running", taskRunning, "lock")
    \/ BgLock(w)
    \/ BgYield(w)
    \/ YieldPrepare(w)
    \/ YieldTest(w)
    \/ YieldWoken(w)
    \/ BgFinish(w)
    \/ WorkDone(w)
    \/ WorkWake(w)

-----------------------------------------------------------------------------
(* clm_initialize and clm_terminate.                                       *)

\* clm_initialize up to the middle of RTS_Enable.  If the services run already,
\* which they do after an open that failed, RTS_Enable does nothing.
Open ==
    /\ apc = "closed"
    /\ gaveUp' = FALSE
    /\ IF timerRunning
         THEN /\ apc' = "opening"
              /\ rtsTimeout' = AsyncTimer
              /\ UNCHANGED <<timerRunning, taskEnabled, rtsTimer>>
         ELSE /\ apc' = "enable"
              /\ timerRunning' = TRUE
              /\ taskEnabled' = TRUE
              /\ rtsTimeout' = AsyncTimer
              /\ rtsTimer' = AsyncTimer
    /\ UNCHANGED <<taskRunning, taskYielded, time, armed, timerLock, tpc, work,
                   clean>>

\* The rest of RTS_Enable: the task is declared idle, whatever it is doing.
EnableTask ==
    /\ apc = "enable"
    /\ taskRunning' = FALSE
    /\ taskYielded' = FALSE
    /\ armed' = TRUE
    /\ apc' = "opening"
    /\ clean' = /\ clean
                /\ queued = NoWorker
                /\ \A w \in Workers : wpc[w] \notin Busy
    /\ UNCHANGED <<timerRunning, taskEnabled, clock, timerLock, tpc, work, gaveUp>>

\* open returns what request_irq returned before clm_initialize ran: on an
\* error the tty layer sees no open device, and the services are left running.
OpenReturns ==
    /\ apc = "opening"
    /\ apc' \in {"open", "closed"}
    /\ UNCHANGED <<flags, clock, armed, timerLock, tpc, work, gaveUp, clean>>

\* The close if it waited without forbidding new runs first.
CloseStillEnabled ==
    /\ apc = "open"
    /\ apc' = "term"
    /\ UNCHANGED <<flags, clock, armed, timerLock, tpc, work, gaveUp, clean>>

\* RTS_Task_Terminate.
Close ==
    /\ apc = "open"
    /\ taskEnabled' = FALSE
    /\ apc' = "term"
    /\ UNCHANGED <<timerRunning, taskRunning, taskYielded, clock, armed,
                   timerLock, tpc, work, gaveUp, clean>>

\* The wait ends when the task has completed ...
TerminateDone ==
    /\ apc = "term"
    /\ ~taskRunning
    /\ apc' = "disable"
    /\ UNCHANGED <<flags, clock, armed, timerLock, tpc, work, gaveUp, clean>>

\* The wait if it had no timeout and ignored signals.
TerminateWaitsOn ==
    /\ apc = "term"
    /\ taskRunning
    /\ UNCHANGED vars

\* ... or after 4 s, or when the process receives a signal.
TerminateGivesUp ==
    /\ apc = "term"
    /\ taskRunning
    /\ gaveUp' = TRUE
    /\ apc' = "disable"
    /\ UNCHANGED <<flags, clock, armed, timerLock, tpc, work, clean>>

\* RTS_Disable.
Disable ==
    /\ apc = "disable"
    /\ timerRunning
    /\ timerRunning' = FALSE
    /\ apc' = "dellock"
    /\ UNCHANGED <<taskEnabled, taskRunning, taskYielded, clock, armed,
                   timerLock, tpc, work, gaveUp, clean>>

\* A process does not run while its own processor handles the timer.
DisableLock ==
    /\ apc = "dellock"
    /\ timerLock = "free"
    /\ SameCpu => tpc = "idle"
    /\ timerLock' = "app"
    /\ apc' = "delsync"
    /\ UNCHANGED <<flags, clock, armed, tpc, work, gaveUp, clean>>

\* The deletion if it did not wait for a handler on another processor.
DelTimer ==
    /\ apc = "delsync"
    /\ armed' = FALSE
    /\ timerLock' = "free"
    /\ apc' = "teardown"
    /\ UNCHANGED <<flags, clock, tpc, work, gaveUp, clean>>

\* del_timer_sync returns once the timer is neither pending nor being handled.
DelTimerSync ==
    /\ apc = "delsync"
    /\ tpc = "idle"
    /\ armed' = FALSE
    /\ timerLock' = "free"
    /\ apc' = "teardown"
    /\ UNCHANGED <<flags, clock, tpc, work, gaveUp, clean>>

\* The rest of clm_terminate and of close: the FIFOs are flushed, the DSP is
\* switched off, the interrupt is freed and the registers are unmapped.
Teardown ==
    /\ apc = "teardown"
    /\ apc' = "closed"
    /\ UNCHANGED <<flags, clock, armed, timerLock, tpc, work, gaveUp, clean>>

clm_terminate ==
    \/ TerminateDone
    \/ TerminateGivesUp
    \/ Disable
    \/ DisableLock
    \/ DelTimerSync
    \/ Teardown

Next ==
    \/ TimerFire
    \/ RTS_Timer
    \/ \E w \in Workers : RTS_Task(w)
    \/ Open
    \/ EnableTask
    \/ OpenReturns
    \/ Close
    \/ clm_terminate

Spec == Init /\ [][Next]_vars

\* The kernel runs an expired timer and its handler, a queued work item and a
\* process that is not blocked; nothing makes a process open or close a device.
Fairness ==
    /\ WF_vars(TimerFire)
    /\ WF_vars(RTS_Timer)
    /\ \A w \in Workers : WF_vars(RTS_Task(w))
    /\ WF_vars(EnableTask)
    /\ WF_vars(OpenReturns)
    /\ WF_vars(clm_terminate)

FairSpec == Spec /\ Fairness

-----------------------------------------------------------------------------

\* The services are stopped: nothing is left of the last session.
Stopped == apc = "closed" /\ ~timerRunning

\* rs_task_running works as a lock: at most one worker is inside RTS_Task, so
\* none ever spins on Lock_clm_bg, whose holder may be asleep in RSATaskYield.
NoSpinOnSleeper ==
    clean => \A w \in Workers : wpc[w] = "lock" => bgLock = NoWorker

\* A close that waited for the task to complete (clm_terminate, and the loop of
\* RTS_Task_Terminate) takes the device away from nobody: from then on no worker
\* is inside clm_bg, and none enters it, although RTS_Timer may still queue one.
QuietTeardown ==
    (clean /\ ~gaveUp /\ (apc \in {"disable", "dellock", "delsync", "teardown"}
                            \/ Stopped))
        => \A w \in Workers : wpc[w] \notin {"lock"} \cup InBg

\* When RTS_Disable returns, RTS_Timer is not running and will not run again.
TimerStopped == (apc = "teardown" \/ Stopped) => tpc = "idle" /\ ~armed

\* A worker asleep in RSATaskYield either still has rs_task_yielded set, so that
\* RTS_Task_Schedule can find it, or is about to be woken: no wake-up is lost
\* between the test of the flag and the sleep.
NoLostWakeup ==
    clean => \A w \in sleepers :
                wpc[w] = "sleep" => taskYielded \/ tpc = "wake"

\* The services do not die by themselves: until they are disabled, RTS_Timer is
\* pending or will arm itself again, and rs_task_running, which keeps RTS_Timer
\* from queueing the task, is never left set with no task to clear it.
BackgroundAlive ==
    /\ timerRunning /\ apc # "enable" => armed \/ tpc \notin {"idle", "unlock"}
    /\ taskRunning
         => tpc = "queue" \/ queued # NoWorker \/ \E w \in Workers : wpc[w] \in Busy

\* A close that waited leaves nothing behind: no task inside clm_bg, no timer.
StopsQuietly == QuietTeardown /\ TimerStopped

\* The services give the modem core the background Background describes, one run
\* at a time and none outside a session, until they are started with a task left
\* over from a session whose close had given up.
Session ==
    IF ~clean THEN "lost"
    ELSE IF apc = "enable" THEN "opening"
    ELSE IF apc \in {"opening", "open"} \/ (apc = "closed" /\ timerRunning) THEN "open"
    ELSE IF apc = "term" THEN "closing"
    ELSE IF gaveUp THEN "abandoned"
    ELSE IF apc \in {"disable", "dellock", "delsync"} THEN "quiet"
    ELSE "off"
Due ==
    /\ clean
    /\ tpc = "queue" \/ queued # NoWorker
         \/ \E w \in Workers : wpc[w] \in {"enabled", "running", "lock"}
Inside == IF clean THEN {w \in Workers : wpc[w] \in InBg} ELSE {}
Asleep == clean /\ taskYielded /\ \E w \in Workers : wpc[w] \in InBg \ {"bg"}
Bg == INSTANCE Background WITH session <- Session, due <- Due,
                               inside <- Inside, asleep <- Asleep
BackgroundSpec == Bg!BSpec

\* A task that yielded is resumed, unless the device is closed meanwhile, or
\* opened with the task left over from a close that had given up.
YieldResumed ==
    \A w \in Workers :
        (clean /\ taskEnabled /\ wpc[w] = "sleep")
            ~> (wpc[w] # "sleep" \/ ~taskEnabled \/ ~clean)

\* While the device is open, the modem background keeps being run.
BackgroundRuns ==
    (clean /\ apc = "open") ~> ((\E w \in Workers : wpc[w] = "bg") \/ apc # "open")

\* The close holds the lock RTS_Timer waits for, and waits for RTS_Timer.
Deadlocked == apc = "delsync" /\ tpc = "lock"

\* A close comes to an end, whether or not the task has yielded, unless RTS_Disable
\* and RTS_Timer block each other, which they cannot on one processor.
CloseReturns == apc = "term" ~> (apc = "closed" \/ (Deadlocked /\ ~SameCpu))

-----------------------------------------------------------------------------

\* clmmain.c:246, before RTS_Task_Terminate: "ensure that RTS_Task has completed
\* before stopping RTS".
TaskCompletes ==
    (clean /\ apc = "term") ~> (~clean \/ \A w \in Workers : wpc[w] \notin InBg)

\* rts.c:145, of the lock and the deletion below it: "stop RTS timer".
DisableStopsTimer == apc = "dellock" ~> apc = "teardown"
=============================================================================
