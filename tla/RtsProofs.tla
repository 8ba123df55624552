------------------------------ MODULE RtsProofs ------------------------------
(***************************************************************************)
(* The safety of Real-Time Services for any number of processors, any      *)
(* timeouts and any lateness of the timer.                                 *)
(*                                                                         *)
(* The argument: rs_task_running is a token.  Only RTS_Timer creates it,   *)
(* when nobody has it, and hands it over to the work queue, which hands it *)
(* to a worker, which gives it up when it leaves RTS_Task (OneTask).  A    *)
(* close that saw no token has therefore seen every worker out of RTS_Task,*)
(* and since RTS_Task tests rs_task_enabled first, a token created later   *)
(* does not get past that test (Quiet).                                    *)
(*                                                                         *)
(* Then: Lock_timer_task and the deadlock it allows (LockHeld); that the   *)
(* timer and the token are never lost (BackgroundAlive); a task stranded   *)
(* by a close; and, from the token again, that Rts implements Background.  *)
(***************************************************************************)
EXTENDS Rts, TLAPS

\* What the phase of the opening and closing process says of the timer.
Phases ==
    /\ apc \in {"enable", "opening", "open", "term", "disable"} => timerRunning
    /\ apc \in {"dellock", "delsync", "teardown"} => ~timerRunning
    /\ apc \in {"term", "disable", "dellock", "delsync", "teardown"} \/ Stopped
         => ~taskEnabled
    /\ apc \in {"enable", "teardown"} \/ Stopped => tpc = "idle" /\ ~armed

\* The token is in one place at a time, and rs_task_running is set while it is.
OneTask == clean =>
    /\ tpc = "start" => ~taskRunning
    /\ tpc = "queue" => /\ taskRunning
                        /\ queued = NoWorker
                        /\ \A w \in Workers : wpc[w] \notin Busy
    /\ queued # NoWorker => /\ taskRunning
                            /\ \A w \in Workers : wpc[w] \notin Busy
    /\ \A w \in Workers : wpc[w] \in Busy => taskRunning
    /\ \A v, w \in Workers : wpc[v] \in Busy /\ wpc[w] \in Busy => v = w

\* Lock_clm_bg is held by the worker inside clm_bg, and by nobody else.
BgLockHeld ==
    /\ \A w \in Workers : wpc[w] \in InBg => bgLock = w
    /\ bgLock # NoWorker => wpc[bgLock] \in InBg

\* QuietTeardown, with the test of rs_task_running that follows the one of
\* rs_task_enabled.
Quiet ==
    (clean /\ ~gaveUp /\ (apc \in {"disable", "dellock", "delsync", "teardown"}
                            \/ Stopped))
        => \A w \in Workers : wpc[w] \notin {"running", "lock"} \cup InBg

RtsInv ==
    /\ TypeOK
    /\ Phases
    /\ OneTask
    /\ BgLockHeld
    /\ Quiet
    /\ NoLostWakeup

\* The services are stopped at the start.
LEMMA RtsInitInv == Init => RtsInv
<1> SUFFICES ASSUME Init PROVE RtsInv
  OBVIOUS
<1>1. TypeOK
  BY RtsAssumption DEF Init, TypeOK, Busy, InBg
<1>2. Phases /\ OneTask /\ BgLockHeld /\ Quiet /\ NoLostWakeup
  BY RtsAssumption
     DEF Init, Phases, Stopped, OneTask, BgLockHeld, Quiet, NoLostWakeup, Busy, InBg
<1> QED
  BY <1>1, <1>2 DEF RtsInv

\* The types need no more than types.
LEMMA RtsTypes == ASSUME TypeOK, TimerFire \/ ScheduleResume \/ Open PROVE TypeOK'
<1>1. Busy' = Busy
  BY DEF Busy, InBg
<1>2. CASE TimerFire
  <2>1. /\ armed' \in BOOLEAN /\ tpc' = "lock"
        /\ UNCHANGED <<timerRunning, taskEnabled, taskRunning, taskYielded>>
        /\ UNCHANGED <<rtsTimeout, rtsTimer, time, timerLock>>
        /\ UNCHANGED <<queued, bgLock, sleepers, wpc, apc, gaveUp, clean>>
    BY <1>2 DEF TimerFire, flags, clock, work, app
  <2> QED
    BY <1>1, <2>1 DEF TypeOK
<1>3. CASE ScheduleResume
  <2>1. /\ rtsTimer' = rtsTimeout /\ taskYielded' \in BOOLEAN /\ tpc' = "wake"
        /\ UNCHANGED <<timerRunning, taskEnabled, taskRunning>>
        /\ UNCHANGED <<rtsTimeout, time, armed, timerLock>>
        /\ UNCHANGED <<queued, bgLock, sleepers, wpc, apc, gaveUp, clean>>
    BY <1>3 DEF ScheduleResume, work, app
  <2> QED
    BY <1>1, <2>1 DEF TypeOK
<1>4. CASE Open
  <2>1. rtsTimeout' \in Nat /\ rtsTimer' \in Nat
    BY <1>4 DEF Open, TypeOK, AsyncTimer
  <2>2. timerRunning' \in BOOLEAN /\ taskEnabled' \in BOOLEAN
    BY <1>4 DEF Open, TypeOK
  <2>3. /\ apc' \in {"closed", "enable", "opening", "open", "term", "disable",
                     "dellock", "delsync", "teardown"}
        /\ gaveUp' \in BOOLEAN
    BY <1>4 DEF Open
  <2>4. /\ UNCHANGED <<taskRunning, taskYielded, time, armed, timerLock, tpc>>
        /\ UNCHANGED <<queued, bgLock, sleepers, wpc, clean>>
    BY <1>4 DEF Open, work
  <2>5. wpc' \in [Workers -> Busy' \cup {"idle", "wake"}]
    BY <1>1, <2>4 DEF TypeOK
  <2> QED
    BY <2>1, <2>2, <2>3, <2>4, <2>5 DEF TypeOK
<1> QED
  BY <1>2, <1>3, <1>4

\* Every step keeps the invariant.
LEMMA RtsNextInv == RtsInv /\ [Next]_vars => RtsInv'
<1> SUFFICES ASSUME RtsInv, [Next]_vars PROVE RtsInv'
  OBVIOUS
<1> USE RtsAssumption
<1> USE DEF RtsInv, TypeOK, Phases, Stopped, OneTask, BgLockHeld, Quiet,
            NoLostWakeup, Busy, InBg, flags, clock, work, app, TickMs, AsyncTimer
<1>1. CASE TimerFire
  <2>1. TypeOK'
    BY <1>1, RtsTypes
  <2>2. Phases'
    BY <1>1 DEF TimerFire
  <2>3. OneTask'
    BY <1>1 DEF TimerFire
  <2>4. BgLockHeld'
    BY <1>1 DEF TimerFire
  <2>5. Quiet'
    BY <1>1 DEF TimerFire
  <2>6. NoLostWakeup'
    BY <1>1 DEF TimerFire
  <2> QED
    BY <2>1, <2>2, <2>3, <2>4, <2>5, <2>6
<1>2. CASE TimerLock
  BY <1>2 DEF TimerLock
<1>3. CASE TimerCheck
  BY <1>3 DEF TimerCheck
<1>4. CASE TimerTick
  BY <1>4 DEF TimerTick
<1>5. CASE TimerRearm
  BY <1>5 DEF TimerRearm
<1>6. CASE TimerUnlock
  BY <1>6 DEF TimerUnlock
<1>7. CASE ScheduleStart
  BY <1>7 DEF ScheduleStart
<1>8. CASE ScheduleQueue
  BY <1>8 DEF ScheduleQueue
<1>9. CASE ScheduleResume
  <2>1. TypeOK'
    BY <1>9, RtsTypes
  <2>2. Phases'
    BY <1>9 DEF ScheduleResume
  <2>3. OneTask'
    BY <1>9 DEF ScheduleResume
  <2>4. BgLockHeld'
    BY <1>9 DEF ScheduleResume
  <2>5. Quiet'
    BY <1>9 DEF ScheduleResume
  <2>6. NoLostWakeup'
    BY <1>9 DEF ScheduleResume
  <2> QED
    BY <2>1, <2>2, <2>3, <2>4, <2>5, <2>6
<1>10. CASE ScheduleWake
  BY <1>10 DEF ScheduleWake
<1>11. CASE Open
  <2>1. TypeOK'
    BY <1>11, RtsTypes
  <2>2. Phases'
    BY <1>11 DEF Open
  <2>3. OneTask'
    BY <1>11 DEF Open
  <2>4. BgLockHeld'
    BY <1>11 DEF Open
  <2>5. Quiet'
    BY <1>11 DEF Open
  <2>6. NoLostWakeup'
    BY <1>11 DEF Open
  <2> QED
    BY <2>1, <2>2, <2>3, <2>4, <2>5, <2>6
<1>12. CASE EnableTask
  <2>1. TypeOK'
    BY <1>12 DEF EnableTask
  <2>2. Phases'
    BY <1>12 DEF EnableTask
  <2>3. OneTask'
    BY <1>12 DEF EnableTask
  <2>4. BgLockHeld'
    BY <1>12 DEF EnableTask
  <2>5. Quiet'
    BY <1>12 DEF EnableTask
  <2>6. NoLostWakeup'
    BY <1>12 DEF EnableTask
  <2> QED
    BY <2>1, <2>2, <2>3, <2>4, <2>5, <2>6
<1>13. CASE OpenReturns
  BY <1>13 DEF OpenReturns
<1>14. CASE Close
  <2>1. TypeOK'
    <3>1. /\ timerRunning' \in BOOLEAN /\ taskEnabled' \in BOOLEAN
          /\ taskRunning' \in BOOLEAN /\ taskYielded' \in BOOLEAN
      BY <1>14 DEF Close
    <3> QED
      BY <1>14, <3>1 DEF Close
  <2>2. Phases'
    BY <1>14 DEF Close
  <2>3. OneTask'
    BY <1>14 DEF Close
  <2>4. BgLockHeld'
    BY <1>14 DEF Close
  <2>5. Quiet'
    BY <1>14 DEF Close
  <2>6. NoLostWakeup'
    BY <1>14 DEF Close
  <2> QED
    BY <2>1, <2>2, <2>3, <2>4, <2>5, <2>6
<1>15. CASE TerminateDone
  BY <1>15 DEF TerminateDone
<1>16. CASE TerminateGivesUp
  BY <1>16 DEF TerminateGivesUp
<1>17. CASE Disable
  <2>1. TypeOK'
    <3>1. /\ timerRunning' \in BOOLEAN /\ taskEnabled' \in BOOLEAN
          /\ taskRunning' \in BOOLEAN /\ taskYielded' \in BOOLEAN
      BY <1>17 DEF Disable
    <3> QED
      BY <1>17, <3>1 DEF Disable
  <2>2. Phases'
    BY <1>17 DEF Disable
  <2>3. OneTask'
    BY <1>17 DEF Disable
  <2>4. BgLockHeld'
    BY <1>17 DEF Disable
  <2>5. Quiet'
    BY <1>17 DEF Disable
  <2>6. NoLostWakeup'
    BY <1>17 DEF Disable
  <2> QED
    BY <2>1, <2>2, <2>3, <2>4, <2>5, <2>6
<1>18. CASE DisableLock
  BY <1>18 DEF DisableLock
<1>19. CASE DelTimerSync
  BY <1>19 DEF DelTimerSync
<1>20. CASE Teardown
  BY <1>20 DEF Teardown
<1>21. CASE ScheduleTest("enabled", taskEnabled, "running", "loop")
  BY <1>21 DEF ScheduleTest
<1>22. CASE ScheduleTest("running", taskRunning, "yielded", "start")
  BY <1>22 DEF ScheduleTest
<1>23. CASE ScheduleTest("yielded", taskYielded, "resume", "loop")
  BY <1>23 DEF ScheduleTest
<1>24. ASSUME NEW w \in Workers, WorkStart(w)
     PROVE  RtsInv'
  BY <1>24 DEF WorkStart, Goto
<1>25. ASSUME NEW w \in Workers, BgLock(w)
     PROVE  RtsInv'
  BY <1>25 DEF BgLock, Goto
<1>26. ASSUME NEW w \in Workers, BgYield(w)
     PROVE  RtsInv'
  BY <1>26 DEF BgYield, Goto
<1>27. ASSUME NEW w \in Workers, YieldPrepare(w)
     PROVE  RtsInv'
  BY <1>27 DEF YieldPrepare, Goto
<1>28. ASSUME NEW w \in Workers, YieldTest(w)
     PROVE  RtsInv'
  BY <1>28 DEF YieldTest, Goto
<1>29. ASSUME NEW w \in Workers, YieldWoken(w)
     PROVE  RtsInv'
  BY <1>29 DEF YieldWoken, Goto
<1>30. ASSUME NEW w \in Workers, BgFinish(w)
     PROVE  RtsInv'
  BY <1>30 DEF BgFinish, UpdateMinRunTime, Goto
<1>31. ASSUME NEW w \in Workers, WorkDone(w)
     PROVE  RtsInv'
  <2>1. TypeOK'
    <3>1. /\ timerRunning' \in BOOLEAN /\ taskEnabled' \in BOOLEAN
          /\ taskRunning' \in BOOLEAN /\ taskYielded' \in BOOLEAN
      BY <1>31 DEF WorkDone, Goto
    <3> QED
      BY <1>31, <3>1 DEF WorkDone, Goto
  <2>2. Phases'
    BY <1>31 DEF WorkDone, Goto
  <2>3. OneTask'
    BY <1>31 DEF WorkDone, Goto
  <2>4. BgLockHeld'
    BY <1>31 DEF WorkDone, Goto
  <2>5. Quiet'
    BY <1>31 DEF WorkDone, Goto
  <2>6. NoLostWakeup'
    BY <1>31 DEF WorkDone, Goto
  <2> QED
    BY <2>1, <2>2, <2>3, <2>4, <2>5, <2>6
<1>32. ASSUME NEW w \in Workers, WorkWake(w)
     PROVE  RtsInv'
  BY <1>32 DEF WorkWake, Goto
<1>33. ASSUME NEW w \in Workers, WorkTest(w, "enabled", taskEnabled, "running")
     PROVE  RtsInv'
  BY <1>33 DEF WorkTest, Goto
<1>34. ASSUME NEW w \in Workers, WorkTest(w, "running", taskRunning, "lock")
     PROVE  RtsInv'
  BY <1>34 DEF WorkTest, Goto
<1>35. CASE UNCHANGED vars
  BY <1>35 DEF vars
<1> QED
  BY <1>1, <1>2, <1>3, <1>4, <1>5, <1>6, <1>7, <1>8, <1>9, <1>10, <1>11, <1>12, <1>13, <1>14, <1>15, <1>16, <1>17, <1>18, <1>19, <1>20, <1>21, <1>22, <1>23, <1>24, <1>25, <1>26, <1>27, <1>28, <1>29, <1>30, <1>31, <1>32, <1>33, <1>34, <1>35
     DEF Next, RTS_Timer, RTS_Task_Schedule, RTS_Task, clm_terminate

\* The invariant holds for any number of processors and any timeouts.
THEOREM RtsInvariance == Spec => []RtsInv
<1>1. Init => RtsInv
  BY RtsInitInv
<1>2. RtsInv /\ [Next]_vars => RtsInv'
  BY RtsNextInv
<1> QED
  BY <1>1, <1>2, PTL DEF Spec

\* The variables keep their types.
THEOREM RtsTypeCorrect == Spec => []TypeOK
  BY RtsInvariance, PTL DEF RtsInv

\* No worker spins on Lock_clm_bg while the holder is asleep in RSATaskYield,
\* unless a task was left over from a session whose close gave up waiting for it.
THEOREM OneWorkerInBackground == Spec => []NoSpinOnSleeper
<1>1. RtsInv => NoSpinOnSleeper
  BY RtsAssumption
     DEF RtsInv, TypeOK, OneTask, BgLockHeld, NoSpinOnSleeper, Busy, InBg
<1> QED
  BY <1>1, RtsInvariance, PTL

\* A close that waited for the task takes the device away from nobody, and once
\* RTS_Disable has returned the timer neither runs nor is pending.
THEOREM CloseLeavesNothing == Spec => []StopsQuietly
<1>1. RtsInv => QuietTeardown
  BY DEF RtsInv, Quiet, QuietTeardown
<1>2. RtsInv => TimerStopped
  BY DEF RtsInv, Phases, TimerStopped
<1> QED
  BY <1>1, <1>2, RtsInvariance, PTL DEF StopsQuietly

\* A worker asleep in RSATaskYield can be found by RTS_Task_Schedule or is about
\* to be woken.
THEOREM YieldKeepsWakeup == Spec => []NoLostWakeup
  BY RtsInvariance, PTL DEF RtsInv

-----------------------------------------------------------------------------
(* Lock_timer_task, and what becomes of a close that deadlocks on it.      *)

\* Who holds Lock_timer_task is where the lock is held in the code; on one
\* processor RTS_Disable waits for RTS_Timer before it takes the lock, and keeps
\* RTS_Timer from starting while it has it.
LockHeld ==
    /\ timerLock = "timer" <=> tpc \notin {"idle", "lock"}
    /\ timerLock = "app" <=> apc = "delsync"
    /\ SameCpu /\ apc = "delsync" => tpc = "idle"

LEMMA LockInit == Init => LockHeld
  BY DEF Init, LockHeld

LEMMA LockNext == TypeOK /\ LockHeld /\ [Next]_vars => LockHeld'
<1> SUFFICES ASSUME TypeOK, LockHeld, [Next]_vars PROVE LockHeld'
  OBVIOUS
<1> USE RtsAssumption DEF TypeOK, LockHeld, flags, clock, work, app
<1>1. CASE TimerFire
  BY <1>1 DEF TimerFire
<1>2. CASE RTS_Timer
  BY <1>2 DEF RTS_Timer, TimerLock, TimerCheck, TimerTick, RTS_Task_Schedule,
              ScheduleTest, ScheduleStart, ScheduleQueue, ScheduleResume,
              ScheduleWake, TimerRearm, TimerUnlock
<1>3. ASSUME NEW w \in Workers, RTS_Task(w) PROVE LockHeld'
  BY <1>3 DEF RTS_Task, WorkStart, WorkTest, BgLock, BgYield, YieldPrepare,
              YieldTest, YieldWoken, BgFinish, WorkDone, WorkWake, Goto
<1>4. CASE Open \/ EnableTask \/ OpenReturns \/ Close
  BY <1>4 DEF Open, EnableTask, OpenReturns, Close
<1>5. CASE clm_terminate
  BY <1>5 DEF clm_terminate, TerminateDone, TerminateGivesUp, Disable, DisableLock,
              DelTimerSync, Teardown
<1>6. CASE UNCHANGED vars
  BY <1>6 DEF vars
<1> QED
  BY <1>1, <1>2, <1>3, <1>4, <1>5, <1>6 DEF Next

\* Lock_timer_task is held where the code says, by one context at a time.
THEOREM TimerLockExcludes == Spec => []LockHeld
<1>1. Init => LockHeld
  BY LockInit
<1>2. TypeOK /\ LockHeld /\ [Next]_vars => LockHeld'
  BY LockNext
<1> QED
  BY <1>1, <1>2, RtsTypeCorrect, PTL DEF Spec

\* On one processor RTS_Disable and RTS_Timer never block each other.
THEOREM OneProcessorNeverDeadlocks == ASSUME SameCpu PROVE Spec => []~Deadlocked
<1>1. LockHeld => ~Deadlocked
  BY SameCpu DEF LockHeld, Deadlocked
<1> QED
  BY <1>1, TimerLockExcludes, PTL

\* On several processors they may, and then they do for ever: the close that
\* waits in del_timer_sync never returns, and the timer never gets its lock.
DeadlockForEver == [][Deadlocked => Deadlocked']_vars

\* The lock has no other holder and del_timer_sync no other end (rts.c:147).
THEOREM DeadlockIsFinal == Spec => DeadlockForEver
<1>1. LockHeld /\ [Next]_vars => [Deadlocked => Deadlocked']_vars
  <2> SUFFICES ASSUME LockHeld, Next, Deadlocked PROVE Deadlocked'
    OBVIOUS
  <2> USE DEF LockHeld, Deadlocked, flags, clock, work, app
  <2>1. apc = "delsync" /\ tpc = "lock" /\ timerLock = "app"
    OBVIOUS
  <2>2. ~TimerFire /\ ~RTS_Timer /\ ~clm_terminate
    BY <2>1 DEF TimerFire, RTS_Timer, TimerLock, TimerCheck, TimerTick,
                RTS_Task_Schedule, ScheduleTest, ScheduleStart, ScheduleQueue,
                ScheduleResume, ScheduleWake, TimerRearm, TimerUnlock, clm_terminate,
                TerminateDone, TerminateGivesUp, Disable, DisableLock, DelTimerSync,
                Teardown
  <2>3. ~Open /\ ~EnableTask /\ ~OpenReturns /\ ~Close
    BY <2>1 DEF Open, EnableTask, OpenReturns, Close
  <2>4. PICK w \in Workers : RTS_Task(w)
    BY <2>2, <2>3 DEF Next
  <2> QED
    BY <2>1, <2>4 DEF RTS_Task, WorkStart, WorkTest, BgLock, BgYield, YieldPrepare,
                      YieldTest, YieldWoken, BgFinish, WorkDone, WorkWake, Goto
<1> QED
  BY <1>1, TimerLockExcludes, PTL DEF Spec, DeadlockForEver

-----------------------------------------------------------------------------
(* What keeps the services going while the device is open.                 *)

LEMMA AliveInit == Init => BackgroundAlive
  BY DEF Init, BackgroundAlive

\* Only WorkDone takes the last worker out of RTS_Task, and clears the flag; the
\* handler that has passed its test of rs_timer_running arms the timer again.
LEMMA AliveNext == RtsInv /\ BackgroundAlive /\ [Next]_vars => BackgroundAlive'
<1> SUFFICES ASSUME RtsInv, BackgroundAlive, [Next]_vars PROVE BackgroundAlive'
  OBVIOUS
<1> USE RtsAssumption DEF RtsInv, TypeOK, Phases, Stopped, BackgroundAlive, Busy, InBg,
                          flags, clock, work, app
<1>1. CASE TimerFire
  BY <1>1 DEF TimerFire
<1>2. CASE TimerLock \/ TimerCheck \/ TimerTick \/ TimerRearm \/ TimerUnlock
  BY <1>2 DEF TimerLock, TimerCheck, TimerTick, TimerRearm, TimerUnlock
<1>3. CASE RTS_Task_Schedule
  BY <1>3 DEF RTS_Task_Schedule, ScheduleTest, ScheduleStart, ScheduleQueue,
              ScheduleResume, ScheduleWake
<1>4. ASSUME NEW w \in Workers, RTS_Task(w) PROVE BackgroundAlive'
  BY <1>4 DEF RTS_Task, WorkStart, WorkTest, BgLock, BgYield, YieldPrepare,
              YieldTest, YieldWoken, BgFinish, WorkDone, WorkWake, Goto
<1>5. CASE Open \/ EnableTask \/ OpenReturns \/ Close
  <2>1. CASE Open
    BY <2>1 DEF Open
  <2>2. CASE EnableTask
    BY <2>2 DEF EnableTask
  <2>3. CASE OpenReturns
    BY <2>3 DEF OpenReturns
  <2>4. CASE Close
    BY <2>4 DEF Close
  <2> QED
    BY <1>5, <2>1, <2>2, <2>3, <2>4
<1>6. CASE clm_terminate
  BY <1>6 DEF clm_terminate, TerminateDone, TerminateGivesUp, Disable, DisableLock,
              DelTimerSync, Teardown
<1>7. CASE UNCHANGED vars
  BY <1>7 DEF vars
<1> QED
  BY <1>1, <1>2, <1>3, <1>4, <1>5, <1>6, <1>7 DEF Next, RTS_Timer

\* Until they are disabled the services do not die: the timer comes back, and
\* rs_task_running is not left set by nobody.
THEOREM BackgroundStaysAlive == Spec => []BackgroundAlive
<1>1. Init => BackgroundAlive
  BY AliveInit
<1>2. RtsInv /\ BackgroundAlive /\ [Next]_vars => BackgroundAlive'
  BY AliveNext
<1> QED
  BY <1>1, <1>2, RtsInvariance, PTL DEF Spec

\* A worker asleep in RSATaskYield after RTS_Task_Terminate has forbidden new runs
\* and RTS_Timer is past its test of that.
Stranded(w) ==
    /\ ~taskEnabled
    /\ wpc[w] = "sleep" /\ w \in sleepers
    /\ tpc \notin {"running", "yielded", "resume", "wake"}

\* It sleeps on, holding Lock_clm_bg, until the device is opened again: a close
\* that finds it there can only give up.
StrandedForEver ==
    [][\A w \in Workers : Stranded(w) => Stranded(w)' \/ taskEnabled']_vars

\* RTS_Task_Schedule tests rs_task_enabled first, so nobody else resumes the task.
THEOREM StrandedTaskStays == Spec => StrandedForEver
<1>1. TypeOK /\ [Next]_vars
        => [\A w \in Workers : Stranded(w) => Stranded(w)' \/ taskEnabled']_vars
  <2> SUFFICES ASSUME TypeOK, Next, NEW w \in Workers, Stranded(w), ~taskEnabled'
               PROVE  Stranded(w)'
    OBVIOUS
  <2> USE DEF TypeOK, Stranded, flags, clock, work, app
  <2>1. CASE TimerFire \/ TimerLock \/ TimerCheck \/ TimerTick \/ TimerRearm \/ TimerUnlock
    BY <2>1 DEF TimerFire, TimerLock, TimerCheck, TimerTick, TimerRearm, TimerUnlock
  <2>2. CASE RTS_Task_Schedule
    BY <2>2 DEF RTS_Task_Schedule, ScheduleTest, ScheduleStart, ScheduleQueue,
                ScheduleResume, ScheduleWake
  <2>3. ASSUME NEW v \in Workers, RTS_Task(v) PROVE Stranded(w)'
    BY <2>3 DEF RTS_Task, WorkStart, WorkTest, BgLock, BgYield, YieldPrepare,
                YieldTest, YieldWoken, BgFinish, WorkDone, WorkWake, Goto
  <2>4. CASE Open \/ EnableTask \/ OpenReturns \/ Close
    BY <2>4 DEF Open, EnableTask, OpenReturns, Close
  <2>5. CASE clm_terminate
    BY <2>5 DEF clm_terminate, TerminateDone, TerminateGivesUp, Disable, DisableLock,
                DelTimerSync, Teardown
  <2> QED
    BY <2>1, <2>2, <2>3, <2>4, <2>5 DEF Next, RTS_Timer
<1> QED
  BY <1>1, RtsTypeCorrect, PTL DEF Spec, StrandedForEver

-----------------------------------------------------------------------------
(* Rts implements Background.                                              *)

\* While a session is being opened or is open, runs are allowed.
Allowed ==
    apc \in {"enable", "opening", "open"} \/ (apc = "closed" /\ timerRunning)
        => taskEnabled

BgInv == RtsInv /\ Allowed

LEMMA AllowedNext == RtsInv /\ Allowed /\ [Next]_vars => Allowed'
<1> SUFFICES ASSUME RtsInv, Allowed, [Next]_vars PROVE Allowed'
  OBVIOUS
<1> USE DEF Allowed, flags, clock, work, app
<1>1. Phases
  BY DEF RtsInv
<1>2. CASE TimerFire
  BY <1>2 DEF TimerFire
<1>3. CASE RTS_Timer
  BY <1>3 DEF RTS_Timer, TimerLock, TimerCheck, TimerTick, RTS_Task_Schedule,
              ScheduleTest, ScheduleStart, ScheduleQueue, ScheduleResume,
              ScheduleWake, TimerRearm, TimerUnlock
<1>4. ASSUME NEW w \in Workers, RTS_Task(w) PROVE Allowed'
  BY <1>4 DEF RTS_Task, WorkStart, WorkTest, BgLock, BgYield, YieldPrepare,
              YieldTest, YieldWoken, BgFinish, WorkDone, WorkWake, Goto
<1>5. CASE Open \/ EnableTask \/ OpenReturns \/ Close
  BY <1>5 DEF Open, EnableTask, OpenReturns, Close
<1>6. CASE clm_terminate
  BY <1>1, <1>6 DEF clm_terminate, TerminateDone, TerminateGivesUp, Disable,
                    DisableLock, DelTimerSync, Teardown, Phases
<1>7. CASE UNCHANGED vars
  BY <1>7 DEF vars
<1> QED
  BY <1>2, <1>3, <1>4, <1>5, <1>6, <1>7 DEF Next

\* What the abstract state depends on.
LEMMA SessionKept ==
    ASSUME UNCHANGED <<clean, apc, gaveUp, timerRunning>>
    PROVE  Session' = Session
  BY DEF Session

LEMMA DueKept ==
    ASSUME UNCHANGED <<clean, queued, wpc>>, tpc' = "queue" <=> tpc = "queue"
    PROVE  Due' = Due
  BY DEF Due

LEMMA RunKept ==
    ASSUME UNCHANGED <<clean, wpc, taskYielded>>
    PROVE  Inside' = Inside /\ Asleep' = Asleep
  BY DEF Inside, Asleep, InBg

BgState == <<Session, Due, Inside, Asleep>>

\* After a session was started with a task left over nothing is promised.
LEMMA LostKept == ASSUME ~clean, ~clean' PROVE UNCHANGED BgState
  BY DEF BgState, Session, Due, Inside, Asleep

\* The timer asks for a run where there is none, and resumes one that has yielded.
LEMMA TimerIsBg ==
    ASSUME BgInv, TimerFire \/ RTS_Timer
    PROVE  Bg!BNext \/ UNCHANGED BgState
<1> USE DEF flags, clock, work, app
<1>1. CASE TimerFire \/ TimerLock \/ TimerCheck \/ TimerTick \/ TimerRearm \/ TimerUnlock
  <2>1. /\ UNCHANGED <<clean, apc, gaveUp, timerRunning>>
        /\ UNCHANGED <<queued, wpc, taskYielded>>
        /\ tpc # "queue" /\ tpc' # "queue"
    BY <1>1 DEF TimerFire, TimerLock, TimerCheck, TimerTick, TimerRearm, TimerUnlock
  <2> QED
    BY <2>1, SessionKept, DueKept, RunKept DEF BgState
<1>2. CASE \/ ScheduleTest("enabled", taskEnabled, "running", "loop")
           \/ ScheduleTest("running", taskRunning, "yielded", "start")
           \/ ScheduleTest("yielded", taskYielded, "resume", "loop")
           \/ ScheduleWake
  <2>1. /\ UNCHANGED <<clean, apc, gaveUp, timerRunning>>
        /\ UNCHANGED <<queued, wpc, taskYielded>>
        /\ tpc # "queue" /\ tpc' # "queue"
    BY <1>2 DEF ScheduleTest, ScheduleWake
  <2> QED
    BY <2>1, SessionKept, DueKept, RunKept DEF BgState
<1>3. CASE ScheduleStart
  <2>1. /\ UNCHANGED <<clean, apc, gaveUp, timerRunning>>
        /\ UNCHANGED <<queued, wpc, taskYielded>>
        /\ tpc = "start" /\ tpc' = "queue"
    BY <1>3 DEF ScheduleStart
  <2>2. CASE clean
    <3>1. queued = NoWorker /\ \A w \in Workers : wpc[w] \notin Busy
      BY <2>1, <2>2 DEF BgInv, RtsInv, OneTask
    <3>2. ~Due /\ Due' = TRUE /\ Inside = {}
      BY <2>1, <2>2, <3>1 DEF Due, Inside, Busy
    <3>3. Session \notin {"off", "opening", "lost"}
      BY <2>1, <2>2 DEF BgInv, RtsInv, Phases, TypeOK, Stopped, Session
    <3> QED
      BY <2>1, <3>2, <3>3, SessionKept, RunKept DEF Bg!BNext, Bg!Schedule
  <2> QED
    BY <2>1, <2>2, LostKept
<1>4. CASE ScheduleQueue
  <2>1. /\ UNCHANGED <<clean, apc, gaveUp, timerRunning, wpc, taskYielded>>
        /\ tpc = "queue" /\ queued' # NoWorker
    BY <1>4, RtsAssumption DEF ScheduleQueue
  <2>2. Due' = Due
    BY <2>1 DEF Due
  <2> QED
    BY <2>1, <2>2, SessionKept, RunKept DEF BgState
<1>5. CASE ScheduleResume
  <2>1. /\ UNCHANGED <<clean, apc, gaveUp, timerRunning, queued, wpc>>
        /\ tpc = "resume" /\ tpc' = "wake" /\ ~taskYielded'
    BY <1>5 DEF ScheduleResume
  <2>2. Session' = Session /\ Due' = Due /\ Inside' = Inside /\ Asleep' = FALSE
    BY <2>1, SessionKept, DueKept DEF Inside, InBg, Asleep
  <2>3. CASE Asleep
    <3>1. PICK w \in Workers : wpc[w] \in InBg
      BY <2>3 DEF Asleep
    <3>2. clean
      BY <2>3 DEF Asleep
    <3>3. Session \in {"open", "closing", "abandoned"}
      BY <2>1, <3>1, <3>2 DEF BgInv, RtsInv, Phases, Quiet, TypeOK, Stopped, Session
    <3> QED
      BY <2>2, <2>3, <3>3 DEF Bg!BNext, Bg!Resume
  <2> QED
    BY <2>2, <2>3 DEF BgState, Asleep
<1> QED
  BY <1>1, <1>2, <1>3, <1>4, <1>5 DEF RTS_Timer, RTS_Task_Schedule

\* At most one worker is inside, and while it is no other is due.
LEMMA OneInside ==
    ASSUME BgInv, clean, NEW w \in Workers, wpc[w] \in Busy
    PROVE  /\ tpc # "queue" /\ queued = NoWorker
           /\ \A v \in Workers : v # w => wpc[v] \notin Busy
           /\ Due <=> wpc[w] \in {"enabled", "running", "lock"}
           /\ Inside = IF wpc[w] \in InBg THEN {w} ELSE {}
           /\ Asleep <=> taskYielded /\ wpc[w] \in InBg \ {"bg"}
<1>1. tpc # "queue" /\ queued = NoWorker /\ \A v \in Workers : v # w => wpc[v] \notin Busy
  BY DEF BgInv, RtsInv, OneTask
<1>2. Due <=> wpc[w] \in {"enabled", "running", "lock"}
  BY <1>1 DEF Due, Busy
<1>3. Inside = IF wpc[w] \in InBg THEN {w} ELSE {}
  BY <1>1 DEF Inside, Busy
<1>4. Asleep <=> taskYielded /\ wpc[w] \in InBg \ {"bg"}
  BY <1>1 DEF Asleep, Busy
<1> QED
  BY <1>1, <1>2, <1>3, <1>4

\* Where that worker goes decides what is seen of it.
LEMMA Moved ==
    ASSUME TypeOK, clean', NEW w \in Workers, NEW to, wpc' = [wpc EXCEPT ![w] = to],
           tpc' # "queue", queued' = NoWorker,
           \A v \in Workers : v # w => wpc[v] \notin Busy
    PROVE  /\ Due' <=> to \in {"enabled", "running", "lock"}
           /\ Inside' = IF to \in InBg THEN {w} ELSE {}
           /\ Asleep' <=> taskYielded' /\ to \in InBg \ {"bg"}
<1>1. wpc'[w] = to /\ \A v \in Workers : v # w => wpc'[v] = wpc[v]
  BY DEF TypeOK
<1>2. Due' <=> to \in {"enabled", "running", "lock"}
  BY <1>1 DEF Due, Busy
<1>3. Inside' = IF to \in InBg THEN {w} ELSE {}
  BY <1>1 DEF Inside, Busy, InBg
<1>4. Asleep' <=> taskYielded' /\ to \in InBg \ {"bg"}
  BY <1>1 DEF Asleep, Busy, InBg
<1> QED
  BY <1>2, <1>3, <1>4

\* A worker takes the run that is due into clm_bg, or is turned away.
LEMMA TaskIsBg ==
    ASSUME BgInv, NEW w \in Workers, RTS_Task(w)
    PROVE  Bg!BNext \/ UNCHANGED BgState
<1> USE DEF Goto
<1>0. UNCHANGED <<clean, apc, gaveUp, timerRunning, taskEnabled, tpc>>
  BY DEF RTS_Task, WorkStart, WorkTest, BgLock, BgYield, YieldPrepare, YieldTest,
         YieldWoken, BgFinish, WorkDone, WorkWake, flags, clock, app
<1>1. Session' = Session
  BY <1>0, SessionKept
<1>2. TypeOK
  BY DEF BgInv, RtsInv
<1>3. SUFFICES ASSUME clean PROVE Bg!BNext \/ UNCHANGED BgState
  BY <1>0, LostKept
<1>4. CASE WorkStart(w)
  <2>1. wpc' = [wpc EXCEPT ![w] = "enabled"] /\ queued # NoWorker /\ queued' = NoWorker
    BY <1>4, RtsAssumption DEF WorkStart
  <2>2. \A v \in Workers : wpc[v] \notin Busy
    BY <1>3, <2>1 DEF BgInv, RtsInv, OneTask
  <2>3. tpc # "queue"
    BY <1>3, <2>1 DEF BgInv, RtsInv, OneTask
  <2>4. Due = TRUE /\ Inside = {} /\ Asleep = FALSE
    BY <1>3, <2>1, <2>2 DEF Due, Inside, Asleep, Busy
  <2>5. Due' = TRUE /\ Inside' = {} /\ Asleep' = FALSE
    <3>1. /\ Due' <=> "enabled" \in {"enabled", "running", "lock"}
          /\ Inside' = IF "enabled" \in InBg THEN {w} ELSE {}
          /\ Asleep' <=> taskYielded' /\ "enabled" \in InBg \ {"bg"}
      BY <1>0, <1>2, <1>3, <2>1, <2>2, <2>3, Moved
    <3> QED
      BY <3>1 DEF InBg, Due, Asleep
  <2> QED
    BY <1>1, <2>4, <2>5 DEF BgState
<1>5. CASE WorkWake(w)
  <2>1. /\ wpc[w] = "wake" /\ wpc' = [wpc EXCEPT ![w] = "idle"]
        /\ UNCHANGED <<queued, taskYielded>>
    BY <1>5 DEF WorkWake, flags
  <2>2. wpc'[w] = "idle" /\ \A v \in Workers : v # w => wpc'[v] = wpc[v]
    BY <1>2, <2>1 DEF TypeOK
  <2>3. Due' = Due
    BY <1>0, <2>1, <2>2 DEF Due
  <2>4. Inside' = Inside /\ Asleep' = Asleep
    BY <1>0, <2>1, <2>2 DEF Inside, Asleep, InBg
  <2> QED
    BY <1>1, <2>3, <2>4 DEF BgState
<1>6. ASSUME wpc[w] \in Busy PROVE Bg!BNext \/ UNCHANGED BgState
  <2>1. /\ tpc # "queue" /\ queued = NoWorker /\ taskRunning
        /\ \A v \in Workers : v # w => wpc[v] \notin Busy
    BY <1>3, <1>6 DEF BgInv, RtsInv, OneTask
  <2>2. /\ Due <=> wpc[w] \in {"enabled", "running", "lock"}
        /\ Inside = IF wpc[w] \in InBg THEN {w} ELSE {}
        /\ Asleep <=> taskYielded /\ wpc[w] \in InBg \ {"bg"}
    BY <1>3, <1>6, OneInside
  <2>3. ASSUME NEW to, wpc' = [wpc EXCEPT ![w] = to], queued' = queued
        PROVE  /\ Due' <=> to \in {"enabled", "running", "lock"}
               /\ Inside' = IF to \in InBg THEN {w} ELSE {}
               /\ Asleep' <=> taskYielded' /\ to \in InBg \ {"bg"}
    BY <1>0, <1>2, <1>3, <2>1, <2>3, Moved
  <2>4. Due \in BOOLEAN /\ Asleep \in BOOLEAN /\ Due' \in BOOLEAN /\ Asleep' \in BOOLEAN
    BY DEF Due, Asleep
  <2>5. CASE WorkTest(w, "enabled", taskEnabled, "running")
    <3>1. wpc[w] = "enabled" /\ queued' = queued
      BY <2>5 DEF WorkTest
    <3>2. Due = TRUE /\ Inside = {} /\ Asleep = FALSE
      BY <2>2, <2>4, <3>1 DEF InBg
    <3>3. CASE taskEnabled
      <4>1. wpc' = [wpc EXCEPT ![w] = "running"]
        BY <2>5, <3>3 DEF WorkTest
      <4>2. Due' = TRUE /\ Inside' = {} /\ Asleep' = FALSE
        BY <2>3, <2>4, <3>1, <4>1 DEF InBg
      <4> QED
        BY <1>1, <3>2, <4>2 DEF BgState
    <3>4. CASE ~taskEnabled
      <4>1. wpc' = [wpc EXCEPT ![w] = "done"]
        BY <2>5, <3>4 DEF WorkTest
      <4>2. Due' = FALSE /\ Inside' = {} /\ Asleep' = FALSE
        <5>1. /\ Due' <=> "done" \in {"enabled", "running", "lock"}
              /\ Inside' = IF "done" \in InBg THEN {w} ELSE {}
              /\ Asleep' <=> taskYielded' /\ "done" \in InBg \ {"bg"}
          BY <2>3, <3>1, <4>1
        <5> QED
          BY <2>4, <5>1 DEF InBg
      <4>3. Session \notin {"opening", "open", "lost"}
        BY <1>3, <3>4 DEF BgInv, Allowed, Session
      <4> QED
        BY <1>1, <3>2, <4>2, <4>3 DEF Bg!BNext, Bg!TurnAway
    <3> QED
      BY <3>3, <3>4
  <2>6. CASE WorkTest(w, "running", taskRunning, "lock")
    <3>1. wpc[w] = "running" /\ wpc' = [wpc EXCEPT ![w] = "lock"] /\ queued' = queued
      BY <2>1, <2>6 DEF WorkTest
    <3>2. /\ Due = TRUE /\ Inside = {} /\ Asleep = FALSE
          /\ Due' = TRUE /\ Inside' = {} /\ Asleep' = FALSE
      BY <2>2, <2>3, <2>4, <3>1 DEF InBg
    <3> QED
      BY <1>1, <3>2 DEF BgState
  <2>7. CASE BgLock(w)
    <3>1. wpc[w] = "lock" /\ wpc' = [wpc EXCEPT ![w] = "bg"] /\ queued' = queued
      BY <2>7 DEF BgLock
    <3>2. /\ Due = TRUE /\ Inside = {} /\ Asleep = FALSE
          /\ Due' = FALSE /\ Inside' = {w} /\ Asleep' = FALSE
      BY <2>2, <2>3, <2>4, <3>1 DEF InBg
    <3>3. Session \notin {"quiet", "off", "lost"}
      BY <1>2, <1>3, <3>1 DEF BgInv, RtsInv, Quiet, Stopped, TypeOK, Session
    <3> QED
      BY <1>1, <3>2, <3>3 DEF Bg!BNext, Bg!Enter
  <2>8. CASE BgYield(w)
    <3>1. /\ wpc[w] = "bg" /\ wpc' = [wpc EXCEPT ![w] = "prepare"]
          /\ queued' = queued /\ taskYielded' = TRUE
      BY <2>8 DEF BgYield
    <3>2. Due = FALSE /\ Inside = {w} /\ Asleep = FALSE
      BY <2>2, <2>4, <3>1 DEF InBg
    <3>3. Due' = FALSE /\ Inside' = {w} /\ Asleep' = TRUE
      <4>1. /\ Due' <=> "prepare" \in {"enabled", "running", "lock"}
            /\ Inside' = IF "prepare" \in InBg THEN {w} ELSE {}
            /\ Asleep' <=> taskYielded' /\ "prepare" \in InBg \ {"bg"}
        BY <2>3, <3>1
      <4> QED
        BY <2>4, <3>1, <4>1 DEF InBg
    <3> QED
      BY <1>1, <3>2, <3>3 DEF Bg!BNext, Bg!Yield
  <2>9. CASE YieldPrepare(w) \/ YieldTest(w) \/ YieldWoken(w)
    <3>1. PICK to \in InBg : /\ wpc' = [wpc EXCEPT ![w] = to]
                             /\ wpc[w] \in InBg \ {"bg"}
                             /\ to = "bg" => ~taskYielded
                             /\ queued' = queued /\ taskYielded' = taskYielded
      BY <2>9 DEF YieldPrepare, YieldTest, YieldWoken, InBg, flags
    <3>2. /\ Due = FALSE /\ Inside = {w} /\ Due' = FALSE /\ Inside' = {w}
          /\ Asleep' = Asleep
      BY <2>2, <2>3, <2>4, <3>1 DEF InBg
    <3> QED
      BY <1>1, <3>2 DEF BgState
  <2>10. CASE BgFinish(w)
    <3>1. wpc[w] = "bg" /\ wpc' = [wpc EXCEPT ![w] = "done"] /\ queued' = queued
      BY <2>10 DEF BgFinish
    <3>2. Due = FALSE /\ Inside = {w} /\ Asleep = FALSE
      BY <2>2, <2>4, <3>1 DEF InBg
    <3>3. Due' = FALSE /\ Inside' = {} /\ Asleep' = FALSE
      <4>1. /\ Due' <=> "done" \in {"enabled", "running", "lock"}
            /\ Inside' = IF "done" \in InBg THEN {w} ELSE {}
            /\ Asleep' <=> taskYielded' /\ "done" \in InBg \ {"bg"}
        BY <2>3, <3>1
      <4> QED
        BY <2>4, <3>1, <4>1 DEF InBg
    <3> QED
      BY <1>1, <3>2, <3>3 DEF Bg!BNext, Bg!Finish
  <2>11. CASE WorkDone(w)
    <3>1. wpc[w] = "done" /\ wpc' = [wpc EXCEPT ![w] = "wake"] /\ queued' = queued
      BY <2>11 DEF WorkDone
    <3>2. Due = FALSE /\ Inside = {} /\ Asleep = FALSE
      BY <2>2, <2>4, <3>1 DEF InBg
    <3>3. Due' = FALSE /\ Inside' = {} /\ Asleep' = FALSE
      <4>1. /\ Due' <=> "wake" \in {"enabled", "running", "lock"}
            /\ Inside' = IF "wake" \in InBg THEN {w} ELSE {}
            /\ Asleep' <=> taskYielded' /\ "wake" \in InBg \ {"bg"}
        BY <2>3, <3>1
      <4> QED
        BY <2>4, <3>1, <4>1 DEF InBg
    <3> QED
      BY <1>1, <3>2, <3>3 DEF BgState
  <2>12. ~WorkStart(w) /\ ~WorkWake(w)
    BY <1>6 DEF WorkStart, WorkWake, Busy, InBg
  <2> QED
    BY <2>5, <2>6, <2>7, <2>8, <2>9, <2>10, <2>11, <2>12 DEF RTS_Task
<1>7. CASE wpc[w] \notin Busy
  <2>1. WorkStart(w) \/ WorkWake(w)
    BY <1>7 DEF RTS_Task, WorkTest, BgLock, BgYield, YieldPrepare, YieldTest,
                YieldWoken, BgFinish, WorkDone, Busy, InBg
  <2> QED
    BY <1>4, <1>5, <2>1
<1> QED
  BY <1>6, <1>7

\* Opens and closes move the session, and find what they have waited for.
LEMMA AppIsBg ==
    ASSUME BgInv, Open \/ EnableTask \/ OpenReturns \/ Close \/ clm_terminate
    PROVE  Bg!BNext \/ UNCHANGED BgState
<1> USE DEF work
<1>0. TypeOK /\ Phases
  BY DEF BgInv, RtsInv
<1>1. CASE Open \/ OpenReturns \/ Close \/ clm_terminate
  <2>1. UNCHANGED <<clean, tpc, queued, wpc, taskYielded>>
    BY <1>1 DEF Open, OpenReturns, Close, clm_terminate, TerminateDone,
                TerminateGivesUp, Disable, DisableLock, DelTimerSync, Teardown, flags
  <2>2. Due' = Due /\ Inside' = Inside /\ Asleep' = Asleep
    BY <2>1, DueKept, RunKept
  <2>3. SUFFICES ASSUME clean, clean' PROVE Bg!BNext \/ UNCHANGED BgState
    BY <2>1, LostKept DEF BgState
  <2>4. CASE Open
    <3>1. CASE timerRunning
      <4>1. Session = "open" /\ Session' = "open"
        BY <2>3, <2>4, <3>1 DEF Open, Session
      <4> QED
        BY <2>2, <4>1 DEF BgState
    <3>2. CASE ~timerRunning
      <4>1. Session \in {"off", "abandoned"} /\ Session' = "opening"
        BY <2>3, <2>4, <3>2 DEF Open, Session
      <4> QED
        BY <2>2, <4>1 DEF Bg!BNext, Bg!Open, Bg!Move
    <3> QED
      BY <3>1, <3>2, <1>0 DEF TypeOK
  <2>5. CASE OpenReturns
    <3>1. Session = "open" /\ Session' = "open"
      BY <1>0, <2>3, <2>5 DEF OpenReturns, Phases, Session, flags
    <3> QED
      BY <2>2, <3>1 DEF BgState
  <2>6. CASE Close
    <3>1. Session = "open" /\ Session' = "closing"
      BY <2>3, <2>6 DEF Close, Session
    <3> QED
      BY <2>2, <3>1 DEF Bg!BNext, Bg!Close, Bg!Move
  <2>7. CASE TerminateDone
    <3>1. Session = "closing" /\ Session' \in {"quiet", "abandoned"}
      BY <2>3, <2>7 DEF TerminateDone, Session
    <3>2. ~taskRunning
      BY <2>7 DEF TerminateDone
    <3>3. /\ tpc # "queue" /\ queued = NoWorker
          /\ \A w \in Workers : wpc[w] \notin Busy
      BY <2>3, <3>2 DEF BgInv, RtsInv, OneTask
    <3>4. ~Due /\ Inside = {}
      BY <3>3 DEF Due, Inside, Busy
    <3> QED
      BY <2>2, <3>1, <3>4 DEF Bg!BNext, Bg!Completed, Bg!GiveUp, Bg!Move
  <2>8. CASE TerminateGivesUp
    <3>1. Session = "closing" /\ Session' = "abandoned"
      BY <2>3, <2>8 DEF TerminateGivesUp, Session
    <3> QED
      BY <2>2, <3>1 DEF Bg!BNext, Bg!GiveUp, Bg!Move
  <2>9. CASE Disable \/ DisableLock
    <3>1. Session' = Session
      BY <2>3, <2>9 DEF Disable, DisableLock, Session, flags
    <3> QED
      BY <2>2, <3>1 DEF BgState
  <2>10. CASE DelTimerSync
    <3>1. \/ Session = "abandoned" /\ Session' = "abandoned"
          \/ Session = "quiet" /\ Session' = "off"
      BY <2>3, <2>10 DEF DelTimerSync, Session, flags
    <3> QED
      BY <2>2, <3>1 DEF BgState, Bg!BNext, Bg!Stop, Bg!Move
  <2>11. CASE Teardown
    <3>1. ~timerRunning /\ timerRunning' = timerRunning
      BY <1>0, <2>11 DEF Teardown, Phases, flags
    <3>2. Session' = Session
      BY <2>3, <2>11, <3>1 DEF Teardown, Session
    <3> QED
      BY <2>2, <3>2 DEF BgState
  <2> QED
    BY <1>1, <2>4, <2>5, <2>6, <2>7, <2>8, <2>9, <2>10, <2>11 DEF clm_terminate
<1>2. CASE EnableTask
  <2>1. CASE clean'
    <3>1. /\ clean /\ apc = "enable" /\ apc' = "opening"
          /\ queued = NoWorker /\ \A w \in Workers : wpc[w] \notin Busy
          /\ UNCHANGED <<queued, wpc, tpc>>
      BY <1>2, <2>1 DEF EnableTask
    <3>2. tpc = "idle"
      BY <1>0, <3>1 DEF Phases
    <3>3. /\ Due = FALSE /\ Inside = {} /\ Asleep = FALSE
          /\ Due' = FALSE /\ Inside' = {} /\ Asleep' = FALSE
      BY <3>1, <3>2 DEF Due, Inside, Asleep, Busy, InBg
    <3>4. Session = "opening" /\ Session' = "open"
      BY <2>1, <3>1 DEF Session
    <3> QED
      BY <3>3, <3>4 DEF Bg!BNext, Bg!Opened, Bg!Move
  <2>2. CASE clean /\ ~clean'
    <3>1. Session = "opening" /\ Session' = "lost"
      BY <1>2, <2>2 DEF EnableTask, Session
    <3>2. Due' = FALSE /\ Inside' = {} /\ Asleep' = FALSE
      BY <2>2 DEF Due, Inside, Asleep
    <3> QED
      BY <3>1, <3>2 DEF Bg!BNext, Bg!Lose
  <2>3. CASE ~clean /\ ~clean'
    BY <2>3, LostKept
  <2>4. clean' => clean
    BY <1>2 DEF EnableTask
  <2> QED
    BY <2>1, <2>2, <2>3, <2>4
<1> QED
  BY <1>1, <1>2

\* The modem core has the background that Background describes, until the services
\* are started with a task left over: one run at a time, each due run takes place
\* while the device is open, a yielded one is resumed by nothing but RTS_Timer,
\* and none begins after a close that waited.
THEOREM RtsIsBackground == Spec => BackgroundSpec
<1>1. Init => Allowed
  BY DEF Init, Allowed
<1>2. RtsInv /\ Allowed /\ [Next]_vars => Allowed'
  BY AllowedNext
<1>3. Init => Bg!BInit
  BY DEF Init, Bg!BInit, Session, Due, Inside, Asleep, InBg
<1>4. RtsInv /\ Allowed /\ [Next]_vars => [Bg!BNext]_BgState
  <2>1. ASSUME RtsInv, Allowed, Next PROVE Bg!BNext \/ UNCHANGED BgState
    <3>1. BgInv
      BY <2>1 DEF BgInv
    <3> QED
      BY <2>1, <3>1, TimerIsBg, TaskIsBg, AppIsBg DEF Next
  <2>2. ASSUME UNCHANGED vars PROVE UNCHANGED BgState
    <3>1. /\ UNCHANGED <<clean, apc, gaveUp, timerRunning, taskYielded>>
          /\ UNCHANGED <<tpc, queued, wpc>>
      BY <2>2 DEF vars, flags, clock, work, app
    <3> QED
      BY <3>1, SessionKept, DueKept, RunKept DEF BgState
  <2> QED
    BY <2>1, <2>2
<1>5. BgState = Bg!bvars
  BY DEF BgState, Bg!bvars
<1>6. Spec => []Allowed
  BY <1>1, <1>2, RtsInvariance, PTL DEF Spec
<1>7. RtsInv /\ Allowed /\ [Next]_vars => [Bg!BNext]_Bg!bvars
  BY <1>4 DEF BgState, Bg!bvars
<1> QED
  BY <1>3, <1>6, <1>7, RtsInvariance, PTL DEF Spec, Bg!BSpec, BackgroundSpec
=============================================================================
