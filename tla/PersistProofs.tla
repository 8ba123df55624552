---------------------------- MODULE PersistProofs ----------------------------
(***************************************************************************)
(* A request that ends well holds its own answer, and the core gives up on *)
(* a sleeping hamregistry only if it could not have woken it, for every    *)
(* number of requests.                                                     *)
(*                                                                         *)
(* The argument: as long as no request has failed and hamregistry has not  *)
(* been interrupted, it is at rest when a request is made (AtRest), and    *)
(* nothing else is on its way to wake it.  Once the core has woken it, the *)
(* exchange is in one of three phases (NotYet, Serving, Done), and only in *)
(* the last is pkt_from_app set, with the answer in the packet.  The first *)
(* failure ends this for good (Failing): a late answer meets no request.   *)
(*                                                                         *)
(* Then: a request made in atomic context is never answered; a failure is  *)
(* final; and as long as there is none, an answer is never late.           *)
(***************************************************************************)
EXTENDS Persist, TLAPS

\* hamregistry has no packet in hand, and is not on its way to one.
AtRest ==
    \/ hpc \in {"off", "run", "arrive", "set", "ack"}
    \/ hpc = "sleep" /\ readQSem

Asked == pkt = [kind |-> "request", id |-> req]
Answered == pkt = [kind |-> "answer", id |-> req]

Waiting == {"wait", "waitsleep", "waitspin", "wake"}
Awaiting == {"read", "readsleep", "readspin", "taken",
             "write", "writeset", "writesleep", "writespin", "last", "fail"}

\* The wake-up did not meet hamregistry ...
NotYet == AtRest /\ Asked /\ pktToApp /\ ~pktFromApp /\ ~reached

\* ... or it is at work on this request ...
Serving ==
    /\ ~pktFromApp
    /\ \/ hpc = "sleep" /\ ~readQSem /\ Asked
       \/ hpc = "copy" /\ Asked
       \/ hpc = "take" /\ Asked /\ got = pkt
       \/ /\ hpc \in {"leave", "wake", "again", "have"}
          /\ Asked /\ got = pkt /\ ~pktToApp
       \/ hpc = "answer" /\ Answered /\ ~pktToApp

\* ... or has answered it.
Done == AtRest /\ Answered /\ pktFromApp /\ ~pktToApp

\* After a failure no request goes further than the test of noAppRunning.
Failing ==
    /\ epc = "failed" => noAppRunning
    /\ noAppRunning => epc \in {"failed", "test"}

Flow ==
    ~fault /\ ~noAppRunning =>
        /\ epc \notin Awaiting \cup {"failed"} => AtRest /\ ~wakeWork
        /\ epc \in {"test", "clear", "to"} \cup Waiting => Asked /\ ~reached
        /\ epc \in {"to"} \cup Waiting => ~pktFromApp
        /\ epc \in Waiting => pktToApp
        /\ epc = "answered" => Answered
        /\ epc \in Awaiting =>
              \/ /\ NotYet
                 /\ IF Atomic THEN epc \in {"read", "taken", "fail"} ELSE ~wakeWork
              \/ (Serving \/ Done) /\ ~Atomic /\ ~wakeWork

PersistInv == TypeOK /\ Failing /\ Flow

\* Every step keeps the types.
LEMMA TypeNext == TypeOK /\ [Next]_vars => TypeOK'
<1> SUFFICES ASSUME TypeOK, [Next]_vars PROVE TypeOK'
  OBVIOUS
<1> USE PersistAssumption DEF flags, sems, exec, work, ham, seen, Ended,
        WithPacket
<1>1. CASE Request
  <2>1. req' \in 0..MaxRequests /\ ctx' \in {"open", "bg"} /\ epc' = "test"
    BY <1>1 DEF Request, TypeOK
  <2>2. pkt' = [kind |-> "request", id |-> req']
    BY <1>1 DEF Request
  <2>3. pkt' \in Packets
    BY <2>1, <2>2 DEF Packets
  <2>4. fault' = (fault /\ ~Resting) /\ reached' = FALSE
    BY <1>1 DEF Request
  <2>5. fault' \in BOOLEAN /\ reached' \in BOOLEAN
    BY <2>4
  <2>6. UNCHANGED <<flags, sems, noAppRunning, work, ham>>
    BY <1>1 DEF Request
  <2> QED
    BY <2>1, <2>3, <2>5, <2>6 DEF TypeOK
<1>2. CASE Signalled
  BY <1>2 DEF TypeOK, Packets, Signalled, WaitSignal, ExecStep, ExecGoto
<1>3. CASE WakeTask2
  BY <1>3 DEF TypeOK, Packets, WakeTask2, ClmBgDone
<1>4. CASE WakeTask2Timeout
  BY <1>4 DEF TypeOK, Packets, WakeTask2Timeout
<1>5. CASE WakeTask
  <2>1. wakeWork' \in BOOLEAN /\ readQSem' \in BOOLEAN
    BY <1>5 DEF TypeOK, WakeTask, ClmBgDone
  <2>2. UNCHANGED <<waitForApp, pktToApp, pktFromApp, writeQSem, pkt, epc, ctx,
        req, noAppRunning, waitWork, target, hpc, got, reached, fault>>
    BY <1>5 DEF WakeTask, ClmBgDone
  <2> QED
    BY <2>1, <2>2 DEF TypeOK
<1>6. CASE ExecTest
  BY <1>6 DEF TypeOK, Packets, ExecTest, ExecGoto
<1>7. CASE ExecClear
  <2>1. pktFromApp' \in BOOLEAN
    BY <1>7 DEF TypeOK, ExecClear, ExecGoto
  <2>2. epc' = "to" /\ UNCHANGED <<waitForApp, pktToApp, readQSem, writeQSem,
        pkt, ctx, req, noAppRunning, wakeWork, waitWork, target, hpc, got,
        reached, fault>>
    BY <1>7 DEF ExecClear, ExecGoto
  <2> QED
    BY <2>1, <2>2 DEF TypeOK
<1>8. CASE ExecTo
  BY <1>8 DEF TypeOK, Packets, ExecTo, ExecGoto
<1>9. CASE ExecWake
  <2>1. wakeWork' \in BOOLEAN /\ readQSem' \in BOOLEAN /\ reached' \in BOOLEAN
    BY <1>9 DEF TypeOK, ExecWake, ExecGoto
  <2>2. epc' = "read" /\ UNCHANGED <<waitForApp, pktToApp, pktFromApp,
        writeQSem, pkt, ctx, req, noAppRunning, waitWork, target, hpc, got,
        fault>>
    BY <1>9 DEF ExecWake, ExecGoto
  <2> QED
    BY <2>1, <2>2 DEF TypeOK
<1>10. CASE ExecTaken
  BY <1>10 DEF TypeOK, Packets, ExecTaken, ExecStep, ExecGoto
<1>11. CASE AnswerSleeps
  <2>1. writeQSem' \in BOOLEAN
    BY <1>11 DEF TypeOK, AnswerSleeps, ExecGoto
  <2>2. epc' = "writesleep" /\ UNCHANGED <<waitForApp, pktToApp, pktFromApp,
        readQSem, pkt, ctx, req, noAppRunning, wakeWork, waitWork, target, hpc,
        got, reached, fault>>
    BY <1>11 DEF AnswerSleeps, ExecGoto
  <2> QED
    BY <2>1, <2>2 DEF TypeOK
<1>12. CASE ExecLast
  BY <1>12 DEF TypeOK, Packets, ExecLast, ExecStep, ExecGoto
<1>13. CASE ExecFail
  BY <1>13 DEF TypeOK, Packets, ExecFail, ExecGoto
<1>14. CASE HamRead
  <2>1. waitForApp' \in BOOLEAN
    BY <1>14 DEF TypeOK, HamRead, HamGoto
  <2>2. hpc' = "arrive" /\ UNCHANGED <<pktToApp, pktFromApp, readQSem,
        writeQSem, pkt, epc, ctx, req, noAppRunning, wakeWork, waitWork,
        target, got, reached, fault>>
    BY <1>14 DEF HamRead, HamGoto
  <2> QED
    BY <2>1, <2>2 DEF TypeOK
<1>15. CASE HamArrives
  <2>1. readQSem' \in BOOLEAN
    BY <1>15 DEF TypeOK, HamArrives, HamGoto
  <2>2. hpc' = "set" /\ UNCHANGED <<waitForApp, pktToApp, pktFromApp,
        writeQSem, pkt, epc, ctx, req, noAppRunning, wakeWork, waitWork,
        target, got, reached, fault>>
    BY <1>15 DEF HamArrives, HamGoto
  <2> QED
    BY <2>1, <2>2 DEF TypeOK
<1>16. CASE HamSleeps
  BY <1>16 DEF TypeOK, Packets, HamSleeps, HamGoto
<1>17. CASE HamTakes
  <2>1. pktToApp' \in BOOLEAN
    BY <1>17 DEF TypeOK, HamTakes, HamGoto
  <2>2. hpc' = "leave" /\ UNCHANGED <<waitForApp, pktFromApp, readQSem,
        writeQSem, pkt, epc, ctx, req, noAppRunning, wakeWork, waitWork,
        target, got, reached, fault>>
    BY <1>17 DEF HamTakes, HamGoto
  <2> QED
    BY <2>1, <2>2 DEF TypeOK
<1>18. CASE HamLeaves
  BY <1>18 DEF TypeOK, Packets, HamLeaves, HamGoto
<1>19. CASE HamWakes
  <2>1. readQSem' \in BOOLEAN
    BY <1>19 DEF TypeOK, HamWakes, HamGoto
  <2>2. hpc' = "again" /\ UNCHANGED <<waitForApp, pktToApp, pktFromApp,
        writeQSem, pkt, epc, ctx, req, noAppRunning, wakeWork, waitWork,
        target, got, reached, fault>>
    BY <1>19 DEF HamWakes, HamGoto
  <2> QED
    BY <2>1, <2>2 DEF TypeOK
<1>20. CASE HamWrite
  BY <1>20 DEF TypeOK, Packets, HamWrite, HamGoto
<1>21. CASE HamAnswers
  BY <1>21 DEF TypeOK, Packets, HamAnswers, HamGoto
<1>22. CASE HamAcks
  <2>1. writeQSem' \in BOOLEAN
    BY <1>22 DEF TypeOK, HamAcks, HamGoto
  <2>2. hpc' = "run" /\ UNCHANGED <<waitForApp, pktToApp, pktFromApp, readQSem,
        pkt, epc, ctx, req, noAppRunning, wakeWork, waitWork, target, got,
        reached, fault>>
    BY <1>22 DEF HamAcks, HamGoto
  <2> QED
    BY <2>1, <2>2 DEF TypeOK
<1>23. CASE HamDies
  BY <1>23 DEF TypeOK, Packets, HamDies, HamGoto
<1>24. CASE HamInterrupted
  BY <1>24 DEF TypeOK, Packets, HamInterrupted, HamGoto
<1>25. CASE HamWriteFails
  BY <1>25 DEF TypeOK, Packets, HamWriteFails, HamGoto
<1>26. CASE WaitDeferred("wait", "wait_for_app", "wake") \/ WaitTest("wait",
           waitForApp, "waitsleep", "wake") \/ WaitTimeout("waitsleep", "wake")
           \/ WaitSpin("waitspin", waitForApp, "wake") \/ WaitDeferred("read",
           "pkt_to_app", "taken") \/ WaitTest("read", pktToApp, "readsleep",
           "taken") \/ WaitTimeout("readsleep", "taken") \/
           WaitSpin("readspin", pktToApp, "taken") \/ AnswerTest \/ AnswerWoken
           \/ AnswerTimeout \/ WaitSpin("writespin", ~pktFromApp, "last")
  BY <1>26 DEF TypeOK, Packets, WaitDeferred, ExecStep, ExecGoto, WaitTest,
     WaitTimeout, WaitSpin, AnswerTest, AnswerWoken, AnswerTimeout
<1>27. CASE HamWoken \/ HamCopies \/ HamEndOfFile \/ HamStart \/ HamIgnores
  BY <1>27 DEF TypeOK, Packets, HamWoken, HamStep, HamGoto, HamCopies,
     HamEndOfFile, HamStart, HamIgnores
<1>28. CASE UNCHANGED vars
  BY <1>28 DEF vars, TypeOK
<1> QED
  BY <1>1, <1>2, <1>3, <1>4, <1>5, <1>6, <1>7, <1>8, <1>9, <1>10, <1>11, <1>12,
     <1>13, <1>14, <1>15, <1>16, <1>17, <1>18, <1>19, <1>20, <1>21, <1>22,
     <1>23, <1>24, <1>25, <1>26, <1>27, <1>28
     DEF Next, Exec_Linux_Persist, Work, hamproc_read, hamproc_write

\* Every step keeps what a failure leaves behind.
LEMMA FailingNext == TypeOK /\ Failing /\ [Next]_vars => Failing'
<1> SUFFICES ASSUME TypeOK, Failing, [Next]_vars PROVE Failing'
  OBVIOUS
<1> USE PersistAssumption DEF flags, sems, exec, work, ham, seen, Ended,
        WithPacket, TypeOK, Failing
<1>1. CASE Request
  BY <1>1 DEF Request, Resting
<1>2. CASE ExecTest
  BY <1>2 DEF ExecTest, ExecGoto
<1>3. CASE ExecFail
  BY <1>3 DEF ExecFail, ExecGoto
<1>4. CASE Signalled \/ ExecClear \/ ExecTo \/ WaitDeferred("wait",
           "wait_for_app", "wake") \/ WaitTest("wait", waitForApp, "waitsleep",
           "wake") \/ WaitTimeout("waitsleep", "wake") \/ WaitSpin("waitspin",
           waitForApp, "wake") \/ ExecWake \/ WaitDeferred("read",
           "pkt_to_app", "taken") \/ WaitTest("read", pktToApp, "readsleep",
           "taken") \/ WaitTimeout("readsleep", "taken") \/
           WaitSpin("readspin", pktToApp, "taken") \/ ExecTaken \/ AnswerTest
           \/ AnswerSleeps \/ AnswerWoken \/ AnswerTimeout \/
           WaitSpin("writespin", ~pktFromApp, "last") \/ ExecLast
  BY <1>4 DEF Signalled, WaitSignal, ExecStep, ExecGoto, ExecClear, ExecTo,
     WaitDeferred, WaitTest, WaitTimeout, WaitSpin, ExecWake, ExecTaken,
     AnswerTest, AnswerSleeps, AnswerWoken, AnswerTimeout, ExecLast
<1>5. CASE WakeTask2 \/ WakeTask2Timeout \/ WakeTask \/ HamRead \/ HamArrives
           \/ HamSleeps \/ HamWoken \/ HamCopies \/ HamTakes \/ HamLeaves \/
           HamWakes \/ HamEndOfFile \/ HamWrite \/ HamAnswers \/ HamAcks \/
           HamStart \/ HamDies \/ HamInterrupted \/ HamIgnores \/ HamWriteFails
  BY <1>5 DEF WakeTask2, ClmBgDone, WakeTask2Timeout, WakeTask, HamRead,
     HamStep, HamGoto, HamArrives, HamSleeps, HamWoken, HamCopies, HamTakes,
     HamLeaves, HamWakes, HamEndOfFile, HamWrite, HamAnswers, HamAcks,
     HamStart, HamDies, HamInterrupted, HamIgnores, HamWriteFails
<1>6. CASE UNCHANGED vars
  BY <1>6 DEF vars
<1> QED
  BY <1>1, <1>2, <1>3, <1>4, <1>5, <1>6
     DEF Next, Exec_Linux_Persist, Work, hamproc_read, hamproc_write

\* Every step keeps the exchange in order.
LEMMA FlowNext == TypeOK /\ Failing /\ Flow /\ [Next]_vars => Flow'
<1> SUFFICES ASSUME TypeOK, Failing, Flow, [Next]_vars PROVE Flow'
  OBVIOUS
<1> USE PersistAssumption DEF flags, sems, exec, work, ham, seen, Ended,
        WithPacket, TypeOK, Packets, Failing, Flow, AtRest, Asked, Answered,
        Waiting, Awaiting, NotYet, Serving, Done, Atomic
<1>1. CASE Request
  BY <1>1 DEF Request, Resting
<1>2. CASE Signalled
  BY <1>2 DEF Signalled, WaitSignal, ExecStep, ExecGoto
<1>3. CASE WakeTask2
  BY <1>3 DEF WakeTask2, ClmBgDone
<1>4. CASE WakeTask2Timeout
  BY <1>4 DEF WakeTask2Timeout
<1>5. CASE WakeTask
  BY <1>5 DEF WakeTask, ClmBgDone
<1>6. CASE ExecTest
  BY <1>6 DEF ExecTest, ExecGoto
<1>7. CASE ExecClear
  BY <1>7 DEF ExecClear, ExecGoto
<1>8. CASE ExecTo
  BY <1>8 DEF ExecTo, ExecGoto
<1>9. CASE WaitDeferred("wait", "wait_for_app", "wake")
  BY <1>9 DEF WaitDeferred, ExecGoto
<1>10. CASE WaitTest("wait", waitForApp, "waitsleep", "wake")
  BY <1>10 DEF WaitTest, ExecStep, ExecGoto
<1>11. CASE WaitTimeout("waitsleep", "wake")
  BY <1>11 DEF WaitTimeout, ExecStep, ExecGoto
<1>12. CASE WaitSpin("waitspin", waitForApp, "wake")
  BY <1>12 DEF WaitSpin, ExecStep, ExecGoto
<1>13. CASE ExecWake
  BY <1>13 DEF ExecWake, ExecGoto
<1>14. CASE WaitDeferred("read", "pkt_to_app", "taken")
  BY <1>14 DEF WaitDeferred, ExecGoto
<1>15. CASE WaitTest("read", pktToApp, "readsleep", "taken")
  BY <1>15 DEF WaitTest, ExecStep, ExecGoto
<1>16. CASE WaitTimeout("readsleep", "taken")
  BY <1>16 DEF WaitTimeout, ExecStep, ExecGoto
<1>17. CASE WaitSpin("readspin", pktToApp, "taken")
  BY <1>17 DEF WaitSpin, ExecStep, ExecGoto
<1>18. CASE ExecTaken
  BY <1>18 DEF ExecTaken, ExecStep, ExecGoto
<1>19. CASE AnswerTest
  BY <1>19 DEF AnswerTest, ExecStep, ExecGoto
<1>20. CASE AnswerSleeps
  BY <1>20 DEF AnswerSleeps, ExecGoto
<1>21. CASE AnswerWoken
  BY <1>21 DEF AnswerWoken, ExecStep, ExecGoto
<1>22. CASE AnswerTimeout
  BY <1>22 DEF AnswerTimeout, WaitTimeout, ExecStep, ExecGoto
<1>23. CASE WaitSpin("writespin", ~pktFromApp, "last")
  BY <1>23 DEF WaitSpin, ExecStep, ExecGoto
<1>24. CASE ExecLast
  BY <1>24 DEF ExecLast, ExecStep, ExecGoto
<1>25. CASE ExecFail
  BY <1>25 DEF ExecFail, ExecGoto
<1>26. CASE HamRead
  BY <1>26 DEF HamRead, HamGoto
<1>27. CASE HamArrives
  BY <1>27 DEF HamArrives, HamGoto
<1>28. CASE HamSleeps
  BY <1>28 DEF HamSleeps, HamGoto
<1>29. CASE HamWoken
  BY <1>29 DEF HamWoken, HamStep, HamGoto
<1>30. CASE HamCopies
  BY <1>30 DEF HamCopies, HamGoto
<1>31. CASE HamTakes
  BY <1>31 DEF HamTakes, HamGoto
<1>32. CASE HamLeaves
  BY <1>32 DEF HamLeaves, HamGoto
<1>33. CASE HamWakes
  BY <1>33 DEF HamWakes, HamGoto
<1>34. CASE HamEndOfFile
  BY <1>34 DEF HamEndOfFile, HamStep, HamGoto
<1>35. CASE HamWrite
  BY <1>35 DEF HamWrite, HamGoto
<1>36. CASE HamAnswers
  BY <1>36 DEF HamAnswers, HamGoto
<1>37. CASE HamAcks
  BY <1>37 DEF HamAcks, HamGoto
<1>38. CASE HamStart
  BY <1>38 DEF HamStart, HamStep, HamGoto
<1>39. CASE HamDies
  BY <1>39 DEF HamDies, HamGoto
<1>40. CASE HamInterrupted
  BY <1>40 DEF HamInterrupted, HamGoto
<1>41. CASE HamIgnores
  BY <1>41 DEF HamIgnores, HamStep, HamGoto
<1>42. CASE HamWriteFails
  BY <1>42 DEF HamWriteFails, HamGoto
<1>43. CASE UNCHANGED vars
  BY <1>43 DEF vars
<1> QED
  BY <1>1, <1>2, <1>3, <1>4, <1>5, <1>6, <1>7, <1>8, <1>9, <1>10, <1>11, <1>12,
     <1>13, <1>14, <1>15, <1>16, <1>17, <1>18, <1>19, <1>20, <1>21, <1>22,
     <1>23, <1>24, <1>25, <1>26, <1>27, <1>28, <1>29, <1>30, <1>31, <1>32,
     <1>33, <1>34, <1>35, <1>36, <1>37, <1>38, <1>39, <1>40, <1>41, <1>42,
     <1>43
     DEF Next, Exec_Linux_Persist, Work, hamproc_read, hamproc_write

\* At the start nobody asks and hamregistry is not there.
LEMMA PersistInitInv == Init => PersistInv
<1> SUFFICES ASSUME Init PROVE PersistInv
  OBVIOUS
<1>1. NoPacket \in Packets
  BY PersistAssumption DEF NoPacket, Packets
<1>2. TypeOK
  <2>1. /\ waitForApp \in BOOLEAN /\ pktToApp \in BOOLEAN /\ pktFromApp \in BOOLEAN
        /\ noAppRunning \in BOOLEAN /\ readQSem \in BOOLEAN /\ writeQSem \in BOOLEAN
        /\ wakeWork \in BOOLEAN /\ reached \in BOOLEAN /\ fault \in BOOLEAN
    BY DEF Init
  <2>2. pkt \in Packets /\ got \in Packets
    BY <1>1 DEF Init
  <2>3. /\ epc = "idle" /\ ctx = "open" /\ req \in 0..MaxRequests
        /\ waitWork = "idle" /\ target = "none" /\ hpc = "off"
    BY PersistAssumption DEF Init
  <2> QED
    BY <2>1, <2>2, <2>3 DEF TypeOK, Ended
<1>3. Failing /\ Flow
  BY DEF Init, Failing, Flow, AtRest, Waiting, Awaiting
<1> QED
  BY <1>2, <1>3 DEF PersistInv

\* The order of the exchange holds at all times.
THEOREM PersistInvariance == Spec => []PersistInv
<1>1. PersistInv /\ [Next]_vars => PersistInv'
  BY TypeNext, FailingNext, FlowNext DEF PersistInv
<1> QED
  BY <1>1, PersistInitInv, PTL DEF Spec

\* The flags, the packet and the positions keep their types.
THEOREM PersistTypeCorrect == Spec => []TypeOK
<1>1. PersistInv => TypeOK
  BY DEF PersistInv
<1> QED
  BY <1>1, PersistInvariance, PTL

\* A request that ends well holds its own answer, however many there are and
\* whenever hamregistry comes, goes or is late, unless it was interrupted.
THEOREM AnswersMatch == Spec => []AnswerMatches
<1>1. PersistInv => AnswerMatches
  BY DEF PersistInv, Failing, Flow, AnswerMatches, Answered, Ended, Awaiting
<1> QED
  BY <1>1, PersistInvariance, PTL

\* The core gives up on a sleeping hamregistry only if its wake-up did not meet it.
THEOREM GivesUpUnreached == Spec => GivesUpOnlyUnreached
<1>1. PersistInv /\ [Next]_vars
        => [epc # "fail" /\ epc' = "fail" /\ hpc = "sleep" /\ readQSem
               => ~reached \/ fault]_vars
  <2> SUFFICES ASSUME PersistInv, Next, epc # "fail", epc' = "fail",
                      hpc = "sleep", readQSem, ~fault
               PROVE  ~reached
    OBVIOUS
  <2>1. ExecTaken \/ ExecLast
    BY DEF Next, Exec_Linux_Persist, Signalled, Work, hamproc_read,
       hamproc_write, HamStep, ExecStep, ExecGoto, WaitDeferred, WaitTest,
       WaitTimeout, WaitSignal, WaitSpin, exec, Request, WakeTask2,
       WakeTask2Timeout, WakeTask, ExecTest, ExecClear, ExecTo, ExecWake,
       ExecTaken, AnswerTest, AnswerSleeps, AnswerWoken, AnswerTimeout,
       ExecLast, ExecFail, HamRead, HamArrives, HamSleeps, HamWoken, HamCopies,
       HamTakes, HamLeaves, HamWakes, HamEndOfFile, HamWrite, HamAnswers,
       HamAcks, HamStart, HamDies, HamInterrupted, HamIgnores, HamWriteFails
  <2>2. CASE ExecTaken
    BY <2>2 DEF PersistInv, Failing, Flow, Awaiting, AtRest, NotYet, Serving,
       Done, ExecTaken, ExecStep, ExecGoto
  <2>3. CASE ExecLast
    BY <2>3 DEF PersistInv, Failing, Flow, Awaiting, AtRest, NotYet, Serving,
       Done, ExecLast, ExecStep, ExecGoto
  <2> QED
    BY <2>1, <2>2, <2>3
<1> QED
  BY <1>1, PersistInvariance, PTL DEF Spec, GivesUpOnlyUnreached

\* In atomic context the core takes the packet back before the wake-up it put off
\* can run: on a kernel that counts spin locks the background is never answered.
THEOREM AtomicIsUnserved == Spec => []UnservedInAtomic
<1>1. Init => UnservedInAtomic
  BY DEF Init, UnservedInAtomic
<1>2. PersistInv /\ UnservedInAtomic /\ [Next]_vars => UnservedInAtomic'
  <2> SUFFICES ASSUME PersistInv, UnservedInAtomic, [Next]_vars,
                      epc' = "answered", ~fault'
               PROVE  ~Atomic'
    BY DEF UnservedInAtomic
  <2>1. epc' = epc => UNCHANGED ctx /\ (fault => fault')
    BY DEF Next, Exec_Linux_Persist, Signalled, Work, hamproc_read,
       hamproc_write, HamStep, ExecStep, ExecGoto, WaitDeferred, WaitTest,
       WaitTimeout, WaitSignal, WaitSpin, exec, seen, vars, Request, WakeTask2,
       WakeTask2Timeout, WakeTask, ExecTest, ExecClear, ExecTo, ExecWake,
       ExecTaken, AnswerTest, AnswerSleeps, AnswerWoken, AnswerTimeout,
       ExecLast, ExecFail, HamRead, HamArrives, HamSleeps, HamWoken, HamCopies,
       HamTakes, HamLeaves, HamWakes, HamEndOfFile, HamWrite, HamAnswers,
       HamAcks, HamStart, HamDies, HamInterrupted, HamIgnores, HamWriteFails
  <2>2. CASE epc = "answered"
    BY <2>1, <2>2 DEF UnservedInAtomic, Atomic
  <2>3. CASE epc # "answered"
    <3>1. ExecLast
      BY <2>3 DEF Next, Exec_Linux_Persist, Signalled, Work, hamproc_read,
         hamproc_write, HamStep, ExecStep, ExecGoto, WaitDeferred, WaitTest,
         WaitTimeout, WaitSignal, WaitSpin, exec, vars, Request, WakeTask2,
         WakeTask2Timeout, WakeTask, ExecTest, ExecClear, ExecTo, ExecWake,
         ExecTaken, AnswerTest, AnswerSleeps, AnswerWoken, AnswerTimeout,
         ExecLast, ExecFail, HamRead, HamArrives, HamSleeps, HamWoken, HamCopies,
         HamTakes, HamLeaves, HamWakes, HamEndOfFile, HamWrite, HamAnswers,
         HamAcks, HamStart, HamDies, HamInterrupted, HamIgnores, HamWriteFails
    <3>2. epc = "last" /\ ~fault /\ ~noAppRunning /\ UNCHANGED ctx
      BY <3>1 DEF ExecLast, ExecStep, ExecGoto, seen, PersistInv, Failing
    <3>3. ~Atomic
      BY <3>2 DEF PersistInv, Flow, Awaiting
    <3> QED
      BY <3>2, <3>3 DEF Atomic
  <2> QED
    BY <2>2, <2>3
<1> QED
  BY <1>1, <1>2, PersistInvariance, PTL DEF Spec

\* The first failure is the last word: no request goes further than the test of
\* noAppRunning any more, whether or not hamregistry comes meanwhile.
FailureFinal == [][noAppRunning => noAppRunning' /\ epc' \in {"test", "failed"}]_vars

\* So one failure ends the exchange with hamregistry for the rest of the load.
THEOREM FailureIsFinal == Spec => FailureFinal
<1>1. PersistInv /\ PersistInv' /\ [Next]_vars
        => [noAppRunning => noAppRunning' /\ epc' \in {"test", "failed"}]_vars
  <2> SUFFICES ASSUME PersistInv', Next, noAppRunning
               PROVE  noAppRunning' /\ epc' \in {"test", "failed"}
    OBVIOUS
  <2>1. noAppRunning'
    BY DEF Next, Exec_Linux_Persist, Signalled, Work, hamproc_read,
       hamproc_write, HamStep, ExecStep, ExecGoto, WaitDeferred, WaitTest,
       WaitTimeout, WaitSignal, WaitSpin, exec, Request, WakeTask2,
       WakeTask2Timeout, WakeTask, ExecTest, ExecClear, ExecTo, ExecWake,
       ExecTaken, AnswerTest, AnswerSleeps, AnswerWoken, AnswerTimeout,
       ExecLast, ExecFail, HamRead, HamArrives, HamSleeps, HamWoken, HamCopies,
       HamTakes, HamLeaves, HamWakes, HamEndOfFile, HamWrite, HamAnswers,
       HamAcks, HamStart, HamDies, HamInterrupted, HamIgnores, HamWriteFails
  <2> QED
    BY <2>1 DEF PersistInv, Failing
<1> QED
  BY <1>1, PersistInvariance, PTL DEF Spec, FailureFinal

\* When hamregistry writes an answer, the core still waits for it: no answer comes
\* to a request that was given up, over one made since, while none has failed.
AnswersInTime ==
    [][hpc = "have" /\ hpc' = "answer" /\ ~fault /\ ~noAppRunning
          => epc \in Awaiting /\ ~Atomic /\ Asked /\ Answered']_vars

\* While none has failed, an answer always comes to the request it was made for.
THEOREM AnswersComeInTime == Spec => AnswersInTime
<1>1. PersistInv /\ [Next]_vars
        => [hpc = "have" /\ hpc' = "answer" /\ ~fault /\ ~noAppRunning
               => epc \in Awaiting /\ ~Atomic /\ Asked /\ Answered']_vars
  <2> SUFFICES ASSUME PersistInv, Next, hpc = "have", hpc' = "answer",
                      ~fault, ~noAppRunning
               PROVE  epc \in Awaiting /\ ~Atomic /\ Asked /\ Answered'
    OBVIOUS
  <2>1. HamWrite
    <3>1. ~Request /\ ~Work
      BY DEF Request, Work, ham, WakeTask2, WakeTask2Timeout, WakeTask
    <3>2. ~Exec_Linux_Persist /\ ~Signalled
      BY DEF Exec_Linux_Persist, Signalled, ham, ExecStep, ExecGoto, WaitDeferred,
         WaitTest, WaitTimeout, WaitSignal, WaitSpin, ExecTest, ExecClear, ExecTo,
         ExecWake, ExecTaken, AnswerTest, AnswerSleeps, AnswerWoken, AnswerTimeout,
         ExecLast, ExecFail
    <3>3. ~hamproc_read /\ ~HamAnswers /\ ~HamAcks
      BY DEF hamproc_read, HamStep, HamGoto, HamRead, HamArrives, HamSleeps, HamWoken,
         HamCopies, HamTakes, HamLeaves, HamWakes, HamEndOfFile, HamAnswers, HamAcks
    <3>4. ~HamStart /\ ~HamDies /\ ~HamInterrupted /\ ~HamIgnores /\ ~HamWriteFails
      BY DEF HamStep, HamGoto, HamStart, HamDies, HamInterrupted, HamIgnores, HamWriteFails
    <3> QED
      BY <3>1, <3>2, <3>3, <3>4 DEF Next, hamproc_write
  <2>2. ~AtRest
    BY DEF AtRest
  <2>3. epc \in Awaiting /\ Serving /\ ~Atomic
    BY <2>2 DEF PersistInv, TypeOK, Failing, Flow, NotYet, Done, Ended, Waiting, Awaiting
  <2>4. Asked /\ got = pkt
    BY <2>3 DEF Serving
  <2>5. Answered'
    BY <2>1, <2>4 DEF HamWrite, HamGoto, exec, Asked, Answered
  <2> QED
    BY <2>3, <2>4, <2>5
<1> QED
  BY <1>1, PersistInvariance, PTL DEF Spec, AnswersInTime
=============================================================================
