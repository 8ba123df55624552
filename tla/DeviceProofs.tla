---------------------------- MODULE DeviceProofs ----------------------------
(***************************************************************************)
(* The safety of Device for any number of processes and any width of the   *)
(* count, whatever fails; then, that Device implements SharedModem: who    *)
(* starts and stops the modem, and for whom.  Power and Users, the map,    *)
(* are followed through each action (PowerIs, and a lemma per action).     *)
(***************************************************************************)
EXTENDS Device, FiniteSetTheorems, TLAPS

Places == Starting \cup Stopping \cup {"away", "open", "failed", "closed", "flush"}

\* Who is counted in G.refcount.
Counted == {p \in Procs : pc[p] \in Starting \cup {"open"}}

\* The modem has not been started and stopped at the same time.
Calm == trouble \subseteq {"left", "miscounted"}

\* Then one process at a time starts it, with the count above 0, or stops it,
\* with the count at 0.
OneChanges == Calm =>
    /\ \A p \in Procs : pc[p] \in Starting => refcount > 0
    /\ \A p \in Procs : pc[p] \in Stopping => refcount = 0
    /\ \A p, q \in Procs :
          pc[p] \in Starting \cup Stopping /\ pc[q] \in Starting \cup Stopping => p = q

\* The kernel frees the tty when all have left.
Leaving == \A p \in Procs : pc[p] = "flush" => \A q \in Procs \ {p} : pc[q] = "away"

\* The interrupt is requested after the registers are mapped, and released
\* before they are unmapped.
Ordered == Calm =>
    /\ irqs \in {0, 1}
    /\ isr => irqs = 1
    /\ irqs = 1 => /\ mapped
                   /\ refcount > 0 \/ \E p \in Procs : pc[p] \in {"term", "freeirq"}
    /\ callback => mapped
    /\ calling /\ ~overtaken => callback
    /\ \A p \in Procs :
          /\ pc[p] \in (Starting \ {"start"}) \cup {"unmap", "free"} => irqs = 0
          /\ pc[p] \in {"freeirq", "unmap", "free"} => ~callback
          /\ pc[p] \in {"irq", "start", "startfail"} => mapped

\* The count is the number of those who are counted.
Counting == trouble \subseteq {"left"} => refcount = Cardinality(Counted)

\* What the start of the modem has done so far, and does in all.
TurnsOn == trouble \subseteq {"left"} =>
    /\ \A p \in Procs :
          /\ pc[p] \in Starting => tty = "live"
          /\ pc[p] \in Starting \ {"alloc"} => page /\ ptty = "live"
          /\ pc[p] \in {"irq", "start", "startfail"} => callback
          /\ pc[p] = "start" => irqs = 1
    /\ (refcount > 0 /\ \A p \in Procs : pc[p] \notin Starting)
          => /\ services /\ callback /\ mapped /\ page
             /\ irqs = 1
             /\ tty = "live" /\ ptty = "live"

\* What the stop of the modem has done so far, and does in all.
TurnsOff == trouble = {} =>
    /\ \A p \in Procs :
          /\ pc[p] \in {"freeirq", "unmap", "free"} => ~services
          /\ pc[p] = "free" => ~mapped
    /\ (refcount = 0 /\ \A p \in Procs : pc[p] \notin Stopping)
          => /\ ~services /\ ~callback /\ ~mapped /\ ~page
             /\ irqs = 0
             /\ tty = "none"
    /\ tty # "freed"
    /\ services => ptty = "live"
    /\ (\A p \in Procs : pc[p] = "away") => ~work /\ user = "none"

DeviceInv ==
    /\ TypeOK
    /\ OneChanges
    /\ Leaving
    /\ Ordered
    /\ Counting
    /\ TurnsOn
    /\ TurnsOff
    /\ TtyAlive

\* G.refcount++ and G.refcount--.
LEMMA CountStep ==
    ASSUME NEW r \in 0..RefMod-1
    PROVE  /\ (r + 1) % RefMod = IF r + 1 = RefMod THEN 0 ELSE r + 1
           /\ (r - 1) % RefMod = IF r = 0 THEN RefMod - 1 ELSE r - 1
<1> USE DeviceAssumption
<1>1. CASE r + 1 = RefMod
  BY <1>1
<1>2. CASE r + 1 # RefMod
  BY <1>2
<1>3. CASE r = 0
  BY <1>3
<1>4. CASE r # 0
  BY <1>4
<1> QED
  BY <1>1, <1>2, <1>3, <1>4

\* The counted are finitely many, and none exactly if their number is 0.
LEMMA CountedFinite ==
    /\ IsFiniteSet(Counted)
    /\ Cardinality(Counted) \in Nat
    /\ Cardinality(Counted) = 0 <=> Counted = {}
  BY DeviceAssumption, FS_Subset, FS_CardinalityType, FS_EmptySet DEF Counted

\* What a process does to pc and to the number of the counted when it goes to
\* another place.
LEMMA Move ==
    ASSUME TypeOK, NEW p \in Procs, NEW place \in Places, GoTo(p, place)
    PROVE  /\ pc' \in [Procs -> Places]
           /\ pc'[p] = place
           /\ \A q \in Procs : q # p => pc'[q] = pc[q]
           /\ Cardinality(Counted)' =
                  IF place \in Starting \cup {"open"}
                    THEN IF p \in Counted THEN Cardinality(Counted) ELSE Cardinality(Counted) + 1
                    ELSE IF p \in Counted THEN Cardinality(Counted) - 1 ELSE Cardinality(Counted)
<1>1. /\ pc' \in [Procs -> Places]
      /\ pc'[p] = place
      /\ \A q \in Procs : q # p => pc'[q] = pc[q]
  BY DEF TypeOK, GoTo, Places
<1>2. CASE place \in Starting \cup {"open"}
  <2>1. Counted' = Counted \cup {p}
    BY <1>1, <1>2 DEF Counted
  <2> QED
    BY <1>1, <1>2, <2>1, CountedFinite, FS_AddElement
<1>3. CASE place \notin Starting \cup {"open"}
  <2>1. Counted' = Counted \ {p}
    BY <1>1, <1>3 DEF Counted
  <2> QED
    BY <1>1, <1>3, <2>1, CountedFinite, FS_RemoveElement
<1> QED
  BY <1>2, <1>3

\* The device is closed at the start.
LEMMA DeviceInitInv == Init => DeviceInv
<1> SUFFICES ASSUME Init PROVE DeviceInv
  OBVIOUS
<1>1. TypeOK
  <2>1. refcount \in 0..RefMod-1
    BY DeviceAssumption DEF Init
  <2>2. pc \in [Procs -> Starting \cup Stopping \cup {"away", "open", "failed", "closed", "flush"}]
    BY DEF Init
  <2>3. irqs \in Nat /\ tty \in Pointers /\ ptty \in Pointers /\ user \in Pointers
    BY DEF Init, Pointers
  <2>4. /\ page \in BOOLEAN /\ mapped \in BOOLEAN /\ callback \in BOOLEAN /\ services \in BOOLEAN
        /\ isr \in BOOLEAN /\ tasklet \in BOOLEAN /\ calling \in BOOLEAN /\ work \in BOOLEAN
        /\ trouble \subseteq {"left", "miscounted", "wrapped", "crossed"}
        /\ overtaken \in BOOLEAN
    BY DEF Init
  <2> QED
    BY <2>1, <2>2, <2>3, <2>4 DEF TypeOK
<1> USE DeviceAssumption DEF Init, Starting, Stopping
<1>2. Counting
  <2>1. Counted = {}
    BY DEF Counted
  <2> QED
    BY <2>1, FS_EmptySet DEF Counting
<1>3. OneChanges /\ Leaving /\ Ordered
  BY DEF OneChanges, Leaving, Ordered
<1>4. TurnsOn /\ TurnsOff /\ TtyAlive
  BY DEF TurnsOn, TurnsOff, TtyAlive
<1> QED
  BY <1>1, <1>2, <1>3, <1>4 DEF DeviceInv

\* Whoever finds the count at 0 starts the modem; the others find it started, or
\* being started.
LEMMA OpenCountInv == ASSUME DeviceInv, NEW p \in Procs, OpenCount(p) PROVE DeviceInv'
<1>1. pc[p] = "away" /\ UNCHANGED <<hardware, page, ptty, deferred>>
  BY DEF OpenCount
<1>2. refcount' = IF refcount + 1 = RefMod THEN 0 ELSE refcount + 1
  BY CountStep DEF DeviceInv, TypeOK, OpenCount
<1>3. Leaving'
  BY <1>1, Move DEF DeviceInv, Leaving, OpenCount, Places, Starting, Stopping
<1>4. refcount \in 0..RefMod-1 /\ refcount' \in 0..RefMod-1 /\ (refcount = 0 => refcount' = 1)
  BY <1>2, DeviceAssumption DEF DeviceInv, TypeOK
<1>5. CASE refcount # 0
  <2>1. /\ UNCHANGED tty
        /\ trouble' = trouble \cup (IF refcount' = 0 THEN {"wrapped"} ELSE {})
    BY <1>5 DEF OpenCount
  <2>2. /\ pc'[p] = "open"
        /\ \A q \in Procs : q # p => pc'[q] = pc[q]
        /\ Cardinality(Counted)' = Cardinality(Counted) + 1
        /\ pc' \in [Procs -> Places]
    BY <1>1, <1>5, Move DEF DeviceInv, OpenCount, Places, Starting, Stopping, Counted
  <2>3. TypeOK'
    BY <1>1, <1>4, <2>1, <2>2 DEF DeviceInv, TypeOK, Places, hardware, deferred
  <2>4. OneChanges'
    BY <1>2, <1>4, <1>5, <2>1, <2>2 DEF DeviceInv, OneChanges, Calm, Starting, Stopping
  <2>5. Ordered'
    BY <1>1, <1>2, <1>4, <1>5, <2>1, <2>2 DEF DeviceInv, Ordered, Calm, Starting, hardware,
         deferred
  <2>6. Counting'
    BY <1>2, <1>4, <2>1, <2>2 DEF DeviceInv, Counting
  <2>7. TurnsOn'
    BY <1>1, <1>2, <1>4, <1>5, <2>1, <2>2 DEF DeviceInv, TurnsOn, Starting, hardware
  <2>8. TurnsOff' /\ TtyAlive'
    BY <1>1, <1>2, <1>4, <1>5, <2>1, <2>2 DEF DeviceInv, TurnsOff, TtyAlive, Stopping,
         hardware, deferred
  <2> QED
    BY <1>3, <2>3, <2>4, <2>5, <2>6, <2>7, <2>8 DEF DeviceInv
<1>6. CASE refcount = 0
  <2>1. /\ tty' = "live"
        /\ trouble' = trouble \cup
               (IF \E q \in Procs : pc[q] \in Stopping THEN {"crossed"} ELSE {})
    BY <1>6 DEF OpenCount
  <2>2. /\ pc'[p] = "alloc"
        /\ \A q \in Procs : q # p => pc'[q] = pc[q]
        /\ Cardinality(Counted)' = Cardinality(Counted) + 1
        /\ pc' \in [Procs -> Places]
    BY <1>1, <1>6, Move DEF DeviceInv, OpenCount, Places, Starting, Stopping, Counted
  <2>3. TypeOK'
    BY <1>1, <1>4, <2>1, <2>2 DEF DeviceInv, TypeOK, Places, Pointers, hardware, deferred
  <2>4. CASE \E q \in Procs : pc[q] \in Stopping
    <3>1. "crossed" \in trouble'
      BY <2>1, <2>4
    <3> QED
      BY <1>3, <2>3, <3>1 DEF DeviceInv, OneChanges, Ordered, Counting, TurnsOn, TurnsOff,
           TtyAlive, Calm
  <2>5. CASE \A q \in Procs : pc[q] \notin Stopping
    <3>1. trouble' = trouble
      BY <2>1, <2>5
    <3>2. Calm => \A q \in Procs : pc[q] \notin Starting \cup Stopping
      BY <1>6, <2>5 DEF DeviceInv, OneChanges
    <3>3. OneChanges'
      BY <1>4, <1>6, <2>2, <3>1, <3>2 DEF OneChanges, Calm, Starting, Stopping
    <3>4. Ordered'
      BY <1>1, <1>4, <1>6, <2>2, <3>1, <3>2 DEF DeviceInv, Ordered, Calm, Starting, Stopping,
                                               hardware, deferred
    <3>5. Counting'
      BY <1>4, <1>6, <2>2, <3>1 DEF DeviceInv, Counting
    <3>6. TurnsOn'
      BY <1>1, <1>4, <1>6, <2>1, <2>2, <3>1, <3>2 DEF DeviceInv, TurnsOn, Calm, Starting,
           hardware
    <3>7. TurnsOff' /\ TtyAlive'
      BY <1>1, <1>4, <1>6, <2>1, <2>2, <3>1 DEF DeviceInv, TurnsOff, TtyAlive, hardware,
           deferred
    <3> QED
      BY <1>3, <2>3, <3>3, <3>4, <3>5, <3>6, <3>7 DEF DeviceInv
  <2> QED
    BY <2>4, <2>5
<1> QED
  BY <1>5, <1>6

\* The page of the transmitter and the tty of the core.
LEMMA OpenAllocInv == ASSUME DeviceInv, NEW p \in Procs, OpenAlloc(p) PROVE DeviceInv'
<1>1. pc[p] = "alloc" /\ GoTo(p, "enable")
  BY DEF OpenAlloc
<1>2. /\ pc'[p] = "enable"
      /\ \A q \in Procs : q # p => pc'[q] = pc[q]
      /\ Cardinality(Counted)' = Cardinality(Counted)
      /\ pc' \in [Procs -> Places]
  BY <1>1, Move, CountedFinite DEF DeviceInv, Places, Starting, Stopping, Counted
<1>3. UNCHANGED <<refcount, trouble>>
  BY DEF OpenAlloc, counts, hardware, ttys, deferred
<1>4. TypeOK'
  BY <1>2, <1>3 DEF DeviceInv, TypeOK, Places, Pointers, OpenAlloc, hardware, ttys, deferred
<1>5. OneChanges' /\ Leaving'
  BY <1>1, <1>2, <1>3 DEF DeviceInv, OneChanges, Leaving, Calm, Starting, Stopping
<1>6. Ordered'
  BY <1>1, <1>2, <1>3 DEF DeviceInv, TypeOK, OneChanges, Ordered, Calm, Starting, Stopping,
                          OpenAlloc, hardware, ttys, deferred
<1>7. Counting'
  BY <1>2, <1>3 DEF DeviceInv, Counting
<1>8. TurnsOn'
  BY <1>1, <1>2, <1>3 DEF DeviceInv, TypeOK, OneChanges, TurnsOn, Calm, Starting, Stopping,
                          OpenAlloc, hardware, ttys, deferred
<1>9. TurnsOff'
  BY <1>1, <1>2, <1>3 DEF DeviceInv, TypeOK, OneChanges, TurnsOff, Calm, Starting, Stopping,
                          OpenAlloc, hardware, ttys, deferred
<1>10. TtyAlive'
  BY <1>3 DEF DeviceInv, TtyAlive, TurnsOff, OpenAlloc, hardware, ttys, deferred
<1> QED
  BY <1>4, <1>5, <1>6, <1>7, <1>8, <1>9, <1>10 DEF DeviceInv

\* An open that fails ends where its count does; what was started stays.
LEMMA OpenFailsInv ==
    ASSUME DeviceInv, NEW p \in Procs, pc[p] \in {"enable", "startfail"}, OpenFails(p),
           UNCHANGED <<mapped, callback, irqs, ttys, deferred>>, services' \in BOOLEAN
    PROVE  DeviceInv'
<1>1. /\ pc'[p] = "failed"
      /\ \A q \in Procs : q # p => pc'[q] = pc[q]
      /\ Cardinality(Counted)' = Cardinality(Counted) - 1
      /\ pc' \in [Procs -> Places]
  <2>1. GoTo(p, "failed") /\ "failed" \in Places /\ "failed" \notin Starting \cup {"open"}
    BY DEF OpenFails, Places, Starting
  <2>2. p \in Counted
    BY DEF Counted, Starting
  <2> QED
    BY <2>1, <2>2, Move DEF DeviceInv
<1>2. /\ refcount' = IF refcount = 0 THEN RefMod - 1 ELSE refcount - 1
      /\ trouble' = trouble \cup {"left"} \cup (IF refcount # 1 THEN {"miscounted"} ELSE {})
  BY CountStep DEF DeviceInv, TypeOK, OpenFails
<1>3. TypeOK'
  <2>1. refcount' \in 0..RefMod-1
    BY <1>2, DeviceAssumption DEF DeviceInv, TypeOK
  <2>2. trouble' \subseteq {"left", "miscounted", "wrapped", "crossed"}
    BY <1>2 DEF DeviceInv, TypeOK
  <2> QED
    BY <1>1, <2>1, <2>2 DEF DeviceInv, TypeOK, Places, ttys, deferred
<1>4. OneChanges' /\ Leaving'
  BY <1>1, <1>2 DEF DeviceInv, TypeOK, OneChanges, Leaving, Calm, Starting, Stopping
<1>5. Ordered'
  BY <1>1, <1>2 DEF DeviceInv, TypeOK, OneChanges, Ordered, Calm, Starting, Stopping, deferred
<1>6. Counting'
  BY <1>1, <1>2 DEF DeviceInv, TypeOK, Counting
<1>7. TurnsOn'
  BY <1>1, <1>2 DEF DeviceInv, TypeOK, OneChanges, TurnsOn, Calm, Starting, Stopping
<1>8. TurnsOff' /\ TtyAlive'
  BY <1>2 DEF TurnsOff, TtyAlive
<1> QED
  BY <1>3, <1>4, <1>5, <1>6, <1>7, <1>8 DEF DeviceInv

\* pci_enable_device, which may fail.
LEMMA OpenEnableInv == ASSUME DeviceInv, NEW p \in Procs, OpenEnable(p) PROVE DeviceInv'
<1>1. CASE OpenFails(p)
  BY <1>1, OpenFailsInv DEF OpenEnable, hardware, DeviceInv, TypeOK
<1>2. CASE GoTo(p, "map") /\ UNCHANGED <<refcount, trouble>>
  <2>1. pc[p] = "enable" /\ UNCHANGED <<hardware, ttys, deferred>>
    BY DEF OpenEnable
  <2>2. /\ pc'[p] = "map"
        /\ \A q \in Procs : q # p => pc'[q] = pc[q]
        /\ Cardinality(Counted)' = Cardinality(Counted)
        /\ pc' \in [Procs -> Places]
    BY <1>2, <2>1, Move, CountedFinite DEF DeviceInv, Places, Starting, Stopping, Counted
  <2>3. TypeOK'
    BY <1>2, <2>1, <2>2 DEF DeviceInv, TypeOK, Places, hardware, ttys, deferred
  <2>4. OneChanges' /\ Leaving'
    BY <1>2, <2>1, <2>2 DEF DeviceInv, OneChanges, Leaving, Calm, Starting, Stopping
  <2>5. Ordered'
    BY <1>2, <2>1, <2>2 DEF DeviceInv, TypeOK, OneChanges, Ordered, Calm, Starting, Stopping,
                            hardware, ttys, deferred
  <2>6. Counting'
    BY <1>2, <2>2 DEF DeviceInv, Counting
  <2>7. TurnsOn'
    BY <1>2, <2>1, <2>2 DEF DeviceInv, OneChanges, TurnsOn, Calm, Starting, Stopping,
         hardware, ttys
  <2>8. TurnsOff' /\ TtyAlive'
    BY <1>2, <2>1, <2>2 DEF DeviceInv, TurnsOff, TtyAlive, Starting, Stopping, hardware,
         ttys, deferred
  <2> QED
    BY <2>3, <2>4, <2>5, <2>6, <2>7, <2>8 DEF DeviceInv
<1> QED
  BY <1>1, <1>2 DEF OpenEnable

\* The registers are mapped before the interrupt is requested.
LEMMA OpenMapInv == ASSUME DeviceInv, NEW p \in Procs, OpenMap(p) PROVE DeviceInv'
<1>1. pc[p] = "map" /\ GoTo(p, "irq")
  BY DEF OpenMap
<1>2. /\ pc'[p] = "irq"
      /\ \A q \in Procs : q # p => pc'[q] = pc[q]
      /\ Cardinality(Counted)' = Cardinality(Counted)
      /\ pc' \in [Procs -> Places]
  BY <1>1, Move, CountedFinite DEF DeviceInv, Places, Starting, Stopping, Counted
<1>3. UNCHANGED <<refcount, trouble>>
  BY DEF OpenMap, counts, hardware, ttys, deferred
<1>4. TypeOK'
  BY <1>2, <1>3 DEF DeviceInv, TypeOK, Places, Pointers, OpenMap, hardware, ttys, deferred
<1>5. OneChanges' /\ Leaving'
  BY <1>1, <1>2, <1>3 DEF DeviceInv, OneChanges, Leaving, Calm, Starting, Stopping
<1>6. Ordered'
  BY <1>1, <1>2, <1>3 DEF DeviceInv, TypeOK, OneChanges, Ordered, Calm, Starting, Stopping,
                          OpenMap, hardware, ttys, deferred
<1>7. Counting'
  BY <1>2, <1>3 DEF DeviceInv, Counting
<1>8. TurnsOn'
  BY <1>1, <1>2, <1>3 DEF DeviceInv, TypeOK, OneChanges, TurnsOn, Calm, Starting, Stopping,
                          OpenMap, hardware, ttys, deferred
<1>9. TurnsOff'
  BY <1>1, <1>2, <1>3 DEF DeviceInv, TypeOK, OneChanges, TurnsOff, Calm, Starting, Stopping,
                          OpenMap, hardware, ttys, deferred
<1>10. TtyAlive'
  BY <1>3 DEF DeviceInv, TtyAlive, TurnsOff, OpenMap, hardware, ttys, deferred
<1> QED
  BY <1>4, <1>5, <1>6, <1>7, <1>8, <1>9, <1>10 DEF DeviceInv

\* No other start or stop has the interrupt.
LEMMA OpenIrqInv == ASSUME DeviceInv, NEW p \in Procs, OpenIrq(p) PROVE DeviceInv'
<1>1. PICK place \in {"start", "startfail"} :
          /\ pc[p] = "irq" /\ GoTo(p, place)
          /\ irqs' = IF place = "start" THEN irqs + 1 ELSE irqs
  BY DEF OpenIrq
<1>2. /\ pc'[p] = place
      /\ \A q \in Procs : q # p => pc'[q] = pc[q]
      /\ Cardinality(Counted)' = Cardinality(Counted)
      /\ pc' \in [Procs -> Places]
  BY <1>1, Move, CountedFinite DEF DeviceInv, Places, Starting, Stopping, Counted
<1>3. UNCHANGED <<refcount, trouble, page, mapped, callback, services, tty, ptty,
               isr, tasklet, calling, work, user, overtaken>>
  BY DEF OpenIrq, counts, hardware, ttys, deferred
<1>4. TypeOK'
  BY <1>1, <1>2, <1>3 DEF DeviceInv, TypeOK, Places
<1>5. OneChanges' /\ Leaving'
  BY <1>1, <1>2, <1>3 DEF DeviceInv, OneChanges, Leaving, Calm, Starting, Stopping
<1>6. Ordered'
  BY <1>1, <1>2, <1>3 DEF DeviceInv, TypeOK, OneChanges, Ordered, Calm, Starting, Stopping
<1>7. Counting'
  BY <1>2, <1>3 DEF DeviceInv, Counting
<1>8. TurnsOn'
  BY <1>1, <1>2, <1>3 DEF DeviceInv, TypeOK, OneChanges, Ordered, TurnsOn, Calm, Starting,
       Stopping
<1>9. TurnsOff'
  BY <1>1, <1>2, <1>3 DEF DeviceInv, TypeOK, OneChanges, TurnsOff, Calm, Starting, Stopping
<1>10. TtyAlive'
  BY <1>3 DEF DeviceInv, TtyAlive
<1> QED
  BY <1>4, <1>5, <1>6, <1>7, <1>8, <1>9, <1>10 DEF DeviceInv

\* With this the start is complete, or fails.
LEMMA OpenStartInv == ASSUME DeviceInv, NEW p \in Procs, OpenStart(p) PROVE DeviceInv'
<1>1. CASE OpenFails(p) /\ pc[p] = "startfail"
  BY <1>1, OpenFailsInv DEF OpenStart
<1>2. CASE pc[p] = "start" /\ GoTo(p, "open") /\ UNCHANGED <<refcount, trouble>>
  <2>1. services' = TRUE /\ UNCHANGED <<mapped, callback, irqs, ttys, deferred>>
    BY DEF OpenStart
  <2>2. /\ pc'[p] = "open"
        /\ \A q \in Procs : q # p => pc'[q] = pc[q]
        /\ Cardinality(Counted)' = Cardinality(Counted)
        /\ pc' \in [Procs -> Places]
    BY <1>2, Move, CountedFinite DEF DeviceInv, Places, Starting, Stopping, Counted
  <2>3. TypeOK'
    BY <1>2, <2>1, <2>2 DEF DeviceInv, TypeOK, Places, ttys, deferred
  <2>4. OneChanges' /\ Leaving'
    BY <1>2, <2>2 DEF DeviceInv, OneChanges, Leaving, Calm, Starting, Stopping
  <2>5. Ordered'
    BY <1>2, <2>1, <2>2 DEF DeviceInv, TypeOK, OneChanges, Ordered, Calm, Starting, Stopping,
         deferred
  <2>6. Counting'
    BY <1>2, <2>2 DEF DeviceInv, Counting
  <2>7. TurnsOn'
    BY <1>2, <2>1, <2>2 DEF DeviceInv, TypeOK, OneChanges, Ordered, TurnsOn, Calm, Starting,
         Stopping, ttys
  <2>8. TurnsOff'
    BY <1>2, <2>1, <2>2 DEF DeviceInv, TypeOK, OneChanges, TurnsOn, TurnsOff, Calm, Starting,
         Stopping,
                            ttys, deferred
  <2>9. TtyAlive'
    BY <1>2, <2>1 DEF DeviceInv, TtyAlive, TurnsOn, Starting, ttys, deferred
  <2> QED
    BY <2>3, <2>4, <2>5, <2>6, <2>7, <2>8, <2>9 DEF DeviceInv
<1> QED
  BY <1>1, <1>2 DEF OpenStart

\* Whoever takes the count to 0 stops the modem, as nobody is starting it.
LEMMA CloseCountInv == ASSUME DeviceInv, NEW p \in Procs, CloseCount(p) PROVE DeviceInv'
<1>1. pc[p] \in {"open", "failed"} /\ UNCHANGED <<hardware, ttys, deferred>>
  BY DEF CloseCount
<1>2. refcount \in 0..RefMod-1
  BY DEF DeviceInv, TypeOK
<1>3. pc[p] = "open" /\ trouble \subseteq {"left"} => refcount # 0
  BY CountedFinite DEF DeviceInv, Counting, Counted
<1>4. PICK place \in {"term", "closed"} :
          /\ GoTo(p, place)
          /\ place = "term" <=> refcount = 1
  <2>1. CASE refcount = 0
    BY <2>1 DEF CloseCount
  <2>2. CASE refcount # 0
    BY <1>2, <2>2 DEF CloseCount
  <2> QED
    BY <2>1, <2>2
<1>5. /\ refcount' = IF refcount = 0 THEN 0 ELSE refcount - 1
      /\ trouble' = trouble
             \cup (IF pc[p] = "failed" /\ refcount # 0 THEN {"miscounted"} ELSE {})
             \cup (IF refcount = 1 /\ \E q \in Procs : pc[q] \in Starting THEN {"crossed"} ELSE {})
  <2>1. CASE refcount = 0
    BY <2>1 DEF CloseCount
  <2>2. CASE refcount # 0
    BY <1>2, <2>2 DEF CloseCount
  <2> QED
    BY <2>1, <2>2
<1>6. /\ pc'[p] = place
      /\ \A q \in Procs : q # p => pc'[q] = pc[q]
      /\ pc[p] = "open" => Cardinality(Counted)' = Cardinality(Counted) - 1
      /\ pc[p] = "failed" => Cardinality(Counted)' = Cardinality(Counted)
      /\ pc' \in [Procs -> Places]
  BY <1>1, <1>4, Move, CountedFinite DEF DeviceInv, Places, Starting, Stopping, Counted
<1>7. TypeOK'
  <2>1. refcount' \in 0..RefMod-1
    BY <1>2, <1>5, DeviceAssumption
  <2>2. trouble' \subseteq {"left", "miscounted", "wrapped", "crossed"}
    BY <1>5 DEF DeviceInv, TypeOK
  <2> QED
    BY <1>1, <1>6, <2>1, <2>2 DEF DeviceInv, TypeOK, Places, hardware, ttys, deferred
<1>8. OneChanges'
  BY <1>1, <1>2, <1>4, <1>5, <1>6 DEF DeviceInv, OneChanges, Calm, Starting, Stopping
<1>9. Leaving'
  BY <1>1, <1>4, <1>6 DEF DeviceInv, Leaving
<1>10. Ordered'
  BY <1>1, <1>2, <1>4, <1>5, <1>6 DEF DeviceInv, OneChanges, Ordered, Calm, Starting, Stopping,
                                        hardware, deferred
<1>11. Counting'
  BY <1>1, <1>2, <1>3, <1>5, <1>6 DEF DeviceInv, Counting
<1>12. TurnsOn'
  BY <1>1, <1>2, <1>4, <1>5, <1>6 DEF DeviceInv, TurnsOn, Starting, hardware, ttys
<1>13. TurnsOff'
  BY <1>1, <1>2, <1>3, <1>4, <1>5, <1>6 DEF DeviceInv, TurnsOff, Stopping, hardware, ttys,
       deferred
<1>14. TtyAlive'
  BY <1>1, <1>5 DEF DeviceInv, TtyAlive, hardware, ttys, deferred
<1> QED
  BY <1>7, <1>8, <1>9, <1>10, <1>11, <1>12, <1>13, <1>14 DEF DeviceInv

\* Nobody is starting the modem, and the count stays 0.
LEMMA CloseTermInv == ASSUME DeviceInv, NEW p \in Procs, CloseTerm(p) PROVE DeviceInv'
<1>1. pc[p] = "term" /\ GoTo(p, "freeirq")
  BY DEF CloseTerm
<1>2. /\ pc'[p] = "freeirq"
      /\ \A q \in Procs : q # p => pc'[q] = pc[q]
      /\ Cardinality(Counted)' = Cardinality(Counted)
      /\ pc' \in [Procs -> Places]
  BY <1>1, Move, CountedFinite DEF DeviceInv, Places, Starting, Stopping, Counted
<1>3. UNCHANGED <<refcount, trouble>>
  BY DEF CloseTerm, counts, hardware, ttys, deferred
<1>4. TypeOK'
  <2>1. /\ services' = FALSE /\ callback' = FALSE /\ overtaken' \in BOOLEAN
        /\ UNCHANGED <<mapped, irqs, page, tty, ptty>>
        /\ UNCHANGED <<isr, tasklet, calling, work, user>>
    BY DEF CloseTerm, ttys, DeviceInv, TypeOK
  <2>2. TypeOK
    BY DEF DeviceInv
  <2>3. page' \in BOOLEAN /\ tty' \in Pointers /\ Pointers' = Pointers
    BY <2>1, <2>2 DEF TypeOK, Pointers
  <2>4. (pc \in [Procs -> Starting \cup Stopping
                          \cup {"away", "open", "failed", "closed", "flush"}])'
    BY <1>2 DEF Places
  <2> QED
    BY <1>3, <2>1, <2>2, <2>3, <2>4 DEF TypeOK
<1>5. OneChanges' /\ Leaving'
  BY <1>1, <1>2, <1>3 DEF DeviceInv, OneChanges, Leaving, Calm, Starting, Stopping
<1>6. Ordered'
  BY <1>1, <1>2, <1>3 DEF DeviceInv, TypeOK, OneChanges, Ordered, Calm, Starting, Stopping,
                          CloseTerm, hardware, ttys, deferred
<1>7. Counting'
  BY <1>2, <1>3 DEF DeviceInv, Counting
<1>8. TurnsOn'
  BY <1>1, <1>2, <1>3 DEF DeviceInv, TypeOK, OneChanges, TurnsOn, Calm, Starting, Stopping,
                          CloseTerm, hardware, ttys, deferred
<1>9. TurnsOff'
  BY <1>1, <1>2, <1>3 DEF DeviceInv, TypeOK, OneChanges, TurnsOff, Calm, Starting, Stopping,
                          CloseTerm, hardware, ttys, deferred
<1>10. TtyAlive'
  BY <1>3 DEF DeviceInv, TtyAlive, TurnsOff, CloseTerm, hardware, ttys, deferred
<1> QED
  BY <1>4, <1>5, <1>6, <1>7, <1>8, <1>9, <1>10 DEF DeviceInv

\* The interrupt is released while the registers are mapped.
LEMMA CloseFreeIrqInv == ASSUME DeviceInv, NEW p \in Procs, CloseFreeIrq(p) PROVE DeviceInv'
<1>1. pc[p] = "freeirq" /\ GoTo(p, "unmap")
  BY DEF CloseFreeIrq
<1>2. /\ pc'[p] = "unmap"
      /\ \A q \in Procs : q # p => pc'[q] = pc[q]
      /\ Cardinality(Counted)' = Cardinality(Counted)
      /\ pc' \in [Procs -> Places]
  BY <1>1, Move, CountedFinite DEF DeviceInv, Places, Starting, Stopping, Counted
<1>3. UNCHANGED <<refcount, trouble>>
  BY DEF CloseFreeIrq, counts, hardware, ttys, deferred
<1>4. TypeOK'
  BY <1>2, <1>3 DEF DeviceInv, TypeOK, Places, Pointers, CloseFreeIrq, hardware, ttys, deferred
<1>5. OneChanges' /\ Leaving'
  BY <1>1, <1>2, <1>3 DEF DeviceInv, OneChanges, Leaving, Calm, Starting, Stopping
<1>6. Ordered'
  BY <1>1, <1>2, <1>3 DEF DeviceInv, TypeOK, OneChanges, Ordered, Calm, Starting, Stopping,
                          CloseFreeIrq, hardware, ttys, deferred
<1>7. Counting'
  BY <1>2, <1>3 DEF DeviceInv, Counting
<1>8. TurnsOn'
  BY <1>1, <1>2, <1>3 DEF DeviceInv, TypeOK, OneChanges, TurnsOn, Calm, Starting, Stopping,
                          CloseFreeIrq, hardware, ttys, deferred
<1>9. TurnsOff'
  BY <1>1, <1>2, <1>3 DEF DeviceInv, TypeOK, OneChanges, TurnsOff, Calm, Starting, Stopping,
                          CloseFreeIrq, hardware, ttys, deferred
<1>10. TtyAlive'
  BY <1>3 DEF DeviceInv, TtyAlive, TurnsOff, CloseFreeIrq, hardware, ttys, deferred
<1> QED
  BY <1>4, <1>5, <1>6, <1>7, <1>8, <1>9, <1>10 DEF DeviceInv

\* Neither the interrupt nor the callback is left to read the registers.
LEMMA CloseUnmapInv == ASSUME DeviceInv, NEW p \in Procs, CloseUnmap(p) PROVE DeviceInv'
<1>1. pc[p] = "unmap" /\ GoTo(p, "free")
  BY DEF CloseUnmap
<1>2. /\ pc'[p] = "free"
      /\ \A q \in Procs : q # p => pc'[q] = pc[q]
      /\ Cardinality(Counted)' = Cardinality(Counted)
      /\ pc' \in [Procs -> Places]
  BY <1>1, Move, CountedFinite DEF DeviceInv, Places, Starting, Stopping, Counted
<1>3. UNCHANGED <<refcount, trouble>>
  BY DEF CloseUnmap, counts, hardware, ttys, deferred
<1>4. TypeOK'
  <2>1. mapped' \in BOOLEAN
    BY DEF CloseUnmap
  <2> QED
    BY <1>2, <1>3, <2>1 DEF DeviceInv, TypeOK, Places, CloseUnmap, ttys, deferred
<1>5. OneChanges' /\ Leaving'
  BY <1>1, <1>2, <1>3 DEF DeviceInv, OneChanges, Leaving, Calm, Starting, Stopping
<1>6. Ordered'
  BY <1>1, <1>2, <1>3 DEF DeviceInv, TypeOK, OneChanges, Ordered, Calm, Starting, Stopping,
                          CloseUnmap, hardware, ttys, deferred
<1>7. Counting'
  BY <1>2, <1>3 DEF DeviceInv, Counting
<1>8. TurnsOn'
  BY <1>1, <1>2, <1>3 DEF DeviceInv, TypeOK, OneChanges, TurnsOn, Calm, Starting, Stopping,
                          CloseUnmap, hardware, ttys, deferred
<1>9. TurnsOff'
  BY <1>1, <1>2, <1>3 DEF DeviceInv, TypeOK, OneChanges, TurnsOff, Calm, Starting, Stopping,
                          CloseUnmap, hardware, ttys, deferred
<1>10. TtyAlive'
  BY <1>3 DEF DeviceInv, TtyAlive, TurnsOff, CloseUnmap, hardware, ttys, deferred
<1> QED
  BY <1>4, <1>5, <1>6, <1>7, <1>8, <1>9, <1>10 DEF DeviceInv

\* With this the stop is complete.
LEMMA CloseFreeInv == ASSUME DeviceInv, NEW p \in Procs, CloseFree(p) PROVE DeviceInv'
<1>1. pc[p] = "free" /\ GoTo(p, "closed")
  BY DEF CloseFree
<1>2. /\ pc'[p] = "closed"
      /\ \A q \in Procs : q # p => pc'[q] = pc[q]
      /\ Cardinality(Counted)' = Cardinality(Counted)
      /\ pc' \in [Procs -> Places]
  BY <1>1, Move, CountedFinite DEF DeviceInv, Places, Starting, Stopping, Counted
<1>3. UNCHANGED <<refcount, trouble>>
  BY DEF CloseFree, counts, hardware, ttys, deferred
<1>4. TypeOK'
  <2>1. /\ page' = FALSE /\ tty' = "none"
        /\ UNCHANGED <<mapped, callback, irqs, services, ptty>>
        /\ UNCHANGED <<isr, tasklet, calling, work, user, overtaken>>
    BY DEF CloseFree, hardware, deferred
  <2>2. TypeOK
    BY DEF DeviceInv
  <2>3. page' \in BOOLEAN /\ tty' \in Pointers /\ Pointers' = Pointers
    BY <2>1, <2>2 DEF TypeOK, Pointers
  <2>4. (pc \in [Procs -> Starting \cup Stopping
                          \cup {"away", "open", "failed", "closed", "flush"}])'
    BY <1>2 DEF Places
  <2> QED
    BY <1>3, <2>1, <2>2, <2>3, <2>4 DEF TypeOK
<1>5. OneChanges' /\ Leaving'
  BY <1>1, <1>2, <1>3 DEF DeviceInv, OneChanges, Leaving, Calm, Starting, Stopping
<1>6. Ordered'
  BY <1>1, <1>2, <1>3 DEF DeviceInv, TypeOK, OneChanges, Ordered, Calm, Starting, Stopping,
                          CloseFree, hardware, ttys, deferred
<1>7. Counting'
  BY <1>2, <1>3 DEF DeviceInv, Counting
<1>8. TurnsOn'
  BY <1>1, <1>2, <1>3 DEF DeviceInv, TypeOK, OneChanges, TurnsOn, Calm, Starting, Stopping,
                          CloseFree, hardware, ttys, deferred
<1>9. TurnsOff'
  BY <1>1, <1>2, <1>3 DEF DeviceInv, TypeOK, OneChanges, Ordered, TurnsOff, Calm, Starting,
       Stopping,
                          CloseFree, hardware, ttys, deferred
<1>10. TtyAlive'
  BY <1>3 DEF DeviceInv, TtyAlive, TurnsOff, CloseFree, hardware, ttys, deferred
<1> QED
  BY <1>4, <1>5, <1>6, <1>7, <1>8, <1>9, <1>10 DEF DeviceInv

\* The kernel frees the tty only when no other process is left.
LEMMA TtyReleaseInv == ASSUME DeviceInv, NEW p \in Procs, TtyRelease(p) PROVE DeviceInv'
<1>1. PICK place \in {"flush", "away"} :
          /\ pc[p] = "closed" /\ GoTo(p, place)
          /\ place = "flush" <=> \A q \in Procs \ {p} : pc[q] = "away"
  BY DEF TtyRelease
<1>2. /\ pc'[p] = place
      /\ \A q \in Procs : q # p => pc'[q] = pc[q]
      /\ Cardinality(Counted)' = Cardinality(Counted)
      /\ pc' \in [Procs -> Places]
  BY <1>1, Move, CountedFinite DEF DeviceInv, Places, Starting, Stopping, Counted
<1>3. UNCHANGED <<refcount, irqs, trouble, page, mapped, callback, services, tty, ptty,
               isr, tasklet, calling, work, user, overtaken>>
  BY DEF TtyRelease, counts, hardware, ttys, deferred
<1>4. TypeOK'
  BY <1>1, <1>2, <1>3 DEF DeviceInv, TypeOK, Places
<1>5. OneChanges' /\ Leaving'
  BY <1>1, <1>2, <1>3 DEF DeviceInv, OneChanges, Leaving, Calm, Starting, Stopping
<1>6. Ordered'
  BY <1>1, <1>2, <1>3 DEF DeviceInv, TypeOK, OneChanges, Ordered, Calm, Starting, Stopping
<1>7. Counting'
  BY <1>2, <1>3 DEF DeviceInv, Counting
<1>8. TurnsOn'
  BY <1>1, <1>2, <1>3 DEF DeviceInv, TypeOK, OneChanges, Ordered, TurnsOn, Calm, Starting,
       Stopping
<1>9. TurnsOff'
  BY <1>1, <1>2, <1>3 DEF DeviceInv, TypeOK, OneChanges, TurnsOff, Calm, Starting, Stopping
<1>10. TtyAlive'
  BY <1>3 DEF DeviceInv, TtyAlive
<1> QED
  BY <1>4, <1>5, <1>6, <1>7, <1>8, <1>9, <1>10 DEF DeviceInv

\* When all have left, the modem is off, and nothing points to the tty.
LEMMA TtyFreeInv == ASSUME DeviceInv, NEW p \in Procs, TtyFree(p) PROVE DeviceInv'
<1>1. pc[p] = "flush" /\ GoTo(p, "away")
  BY DEF TtyFree
<1>2. /\ pc'[p] = "away"
      /\ \A q \in Procs : q # p => pc'[q] = pc[q]
      /\ Cardinality(Counted)' = Cardinality(Counted)
      /\ pc' \in [Procs -> Places]
  BY <1>1, Move, CountedFinite DEF DeviceInv, Places, Starting, Stopping, Counted
<1>3. UNCHANGED <<refcount, trouble>>
  BY DEF TtyFree, counts, hardware, ttys, deferred
<1>4. TypeOK'
  BY <1>2, <1>3 DEF DeviceInv, TypeOK, Places, Pointers, TtyFree, hardware, ttys, deferred
<1>5. OneChanges' /\ Leaving'
  BY <1>1, <1>2, <1>3 DEF DeviceInv, OneChanges, Leaving, Calm, Starting, Stopping
<1>6. Ordered'
  BY <1>1, <1>2, <1>3 DEF DeviceInv, TypeOK, OneChanges, Ordered, Calm, Starting, Stopping,
                          TtyFree, hardware, ttys, deferred
<1>7. Counting'
  BY <1>2, <1>3 DEF DeviceInv, Counting
<1> trouble \subseteq {"left"} => refcount = 0
  BY <1>1, CountedFinite DEF DeviceInv, Leaving, Counting, Counted, Starting
<1>8. TurnsOn'
  BY <1>1, <1>2, <1>3 DEF DeviceInv, TypeOK, OneChanges, TurnsOn, Calm, Starting, Stopping,
                          TtyFree, hardware, ttys, deferred
<1>9. TurnsOff'
  BY <1>1, <1>2, <1>3 DEF DeviceInv, TypeOK, Leaving, TurnsOff, Calm, Starting, Stopping,
                          TtyFree, hardware, ttys, deferred
<1>10. TtyAlive'
  BY <1>1, <1>3 DEF DeviceInv, Leaving, TtyAlive, TurnsOff, Stopping, TtyFree, hardware,
       ttys, deferred
<1> QED
  BY <1>4, <1>5, <1>6, <1>7, <1>8, <1>9, <1>10 DEF DeviceInv

\* A step of the interrupt, the tasklet, the background or the event handler.
Deferred == Interrupt \/ InterruptEnd \/ DpcTest \/ DpcCall \/ ScheduleEvent
                      \/ HandlerStart \/ HandlerEnd

\* They change neither the count nor the hardware.
LEMMA DeferredInv == ASSUME DeviceInv, Deferred PROVE DeviceInv'
<1>1. UNCHANGED <<counts, hardware, ttys>>
  BY DEF Deferred, Interrupt, InterruptEnd, DpcTest, DpcCall, ScheduleEvent, HandlerStart,
       HandlerEnd
<1>2. TypeOK'
  <2>1. /\ isr' \in BOOLEAN /\ tasklet' \in BOOLEAN /\ calling' \in BOOLEAN
        /\ work' \in BOOLEAN /\ overtaken' \in BOOLEAN
    BY DEF DeviceInv, TypeOK, Deferred,
           Interrupt, InterruptEnd, DpcTest, DpcCall, ScheduleEvent, HandlerStart, HandlerEnd
  <2>2. user' \in Pointers
    BY DEF DeviceInv, TypeOK, Pointers, Deferred,
           Interrupt, InterruptEnd, DpcTest, DpcCall, ScheduleEvent, HandlerStart, HandlerEnd
  <2> QED
    BY <1>1, <2>1, <2>2 DEF DeviceInv, TypeOK, counts, hardware, ttys
<1>3. OneChanges' /\ Leaving' /\ Counting' /\ TurnsOn'
  <2>1. Counted' = Counted
    BY <1>1 DEF counts, Counted
  <2> QED
    BY <1>1, <2>1 DEF DeviceInv, OneChanges, Leaving, Counting, TurnsOn, Calm, counts,
         hardware, ttys
<1>4. Ordered'
  <2>1. isr' => isr \/ irqs > 0
    BY DEF Deferred, Interrupt, InterruptEnd, DpcTest, DpcCall, ScheduleEvent, HandlerStart,
         HandlerEnd
  <2>2. calling' /\ ~overtaken' => callback \/ (calling /\ ~overtaken)
    BY DEF Deferred, Interrupt, InterruptEnd, DpcTest, DpcCall, ScheduleEvent, HandlerStart,
         HandlerEnd
  <2> QED
    BY <1>1, <2>1, <2>2 DEF DeviceInv, Ordered, Calm, counts, hardware
<1>5. TurnsOff'
  <2>1. (trouble = {} /\ \A q \in Procs : pc[q] = "away") => ~services
    BY CountedFinite DEF DeviceInv, Counting, Counted, TurnsOff, Starting, Stopping
  <2> QED
    BY <1>1, <2>1 DEF DeviceInv, TypeOK, TurnsOff, counts, hardware, ttys, Deferred,
                Interrupt, InterruptEnd, DpcTest, DpcCall, ScheduleEvent, HandlerStart, HandlerEnd
<1>6. TtyAlive'
  BY <1>1 DEF DeviceInv, TtyAlive, TurnsOff, counts, hardware, ttys, Deferred,
              Interrupt, InterruptEnd, DpcTest, DpcCall, ScheduleEvent, HandlerStart, HandlerEnd
<1> QED
  BY <1>2, <1>3, <1>4, <1>5, <1>6 DEF DeviceInv

\* Every step keeps the invariant.
LEMMA DeviceNextInv == ASSUME DeviceInv, [Next]_vars PROVE DeviceInv'
<1>1. ASSUME NEW p \in Procs, softserial_open(p) PROVE DeviceInv'
  BY <1>1, OpenCountInv, OpenAllocInv, OpenEnableInv, OpenMapInv, OpenIrqInv, OpenStartInv
     DEF softserial_open
<1>2. ASSUME NEW p \in Procs, softserial_close(p) PROVE DeviceInv'
  BY <1>2, CloseCountInv, CloseTermInv, CloseFreeIrqInv, CloseUnmapInv, CloseFreeInv
     DEF softserial_close
<1>3. ASSUME NEW p \in Procs, TtyRelease(p) \/ TtyFree(p) PROVE DeviceInv'
  BY <1>3, TtyReleaseInv, TtyFreeInv
<1>4. CASE Deferred
  BY <1>4, DeferredInv
<1>5. CASE UNCHANGED vars
  <2>1. UNCHANGED <<counts, hardware, ttys, deferred>> /\ Counted' = Counted
    BY <1>5 DEF vars, counts, Counted
  <2> QED
    BY <2>1 DEF DeviceInv, TypeOK, OneChanges, Leaving, Ordered, Counting, TurnsOn, TurnsOff,
                TtyAlive, Calm, counts, hardware, ttys, deferred
<1> QED
  BY <1>1, <1>2, <1>3, <1>4, <1>5 DEF Next, Deferred

\* What holds at every step of opening and closing the device.
THEOREM DeviceInvariance == Spec => []DeviceInv
<1>1. Init => DeviceInv
  BY DeviceInitInv
<1>2. DeviceInv /\ [Next]_vars => DeviceInv'
  BY DeviceNextInv
<1> QED
  BY <1>1, <1>2, PTL DEF Spec

\* The variables of the device keep their types.
THEOREM DeviceTypeCorrect == Spec => []TypeOK
<1>1. DeviceInv => TypeOK
  BY DEF DeviceInv
<1> QED
  BY <1>1, DeviceInvariance, PTL

\* interrupt_handler never runs with the registers unmapped, even if opens have
\* failed and were miscounted; nor is CRAM_CallBack inside a call then, unless the
\* modem was stopped in the middle of it.
THEOREM InterruptFindsRegisters == Spec => []RegistersMapped
<1>1. DeviceInv => HandlerMapped
  BY DEF DeviceInv, TypeOK, Ordered, HandlerMapped, Calm
<1>2. DeviceInv => CallbackMapped
  BY DEF DeviceInv, TypeOK, Ordered, CallbackMapped, Calm
<1> QED
  BY <1>1, <1>2, DeviceInvariance, PTL DEF RegistersMapped

\* The modem is on whenever a process has it open and none is starting it.
THEOREM ModemOnWhileOpen == Spec => []OnWhileOpen
<1>1. DeviceInv => OnWhileOpen
  BY CountedFinite DEF DeviceInv, TypeOK, Counting, Counted, TurnsOn, OnWhileOpen, Changing
<1> QED
  BY <1>1, DeviceInvariance, PTL

\* It is off, with all given back, whenever no process has it open.
THEOREM ModemOffWhenClosed == Spec => []OffWhenClosed
<1>1. DeviceInv => OffWhenClosed
  <2> SUFFICES ASSUME DeviceInv, trouble = {}, \A p \in Procs : pc[p] = "away"
               PROVE  /\ ~services /\ ~callback /\ ~mapped /\ ~page
                      /\ irqs = 0 /\ ~isr
                      /\ tty = "none"
                      /\ ~work /\ user = "none"
    BY DEF OffWhenClosed
  <2>1. refcount = 0
    BY CountedFinite DEF DeviceInv, Counting, Counted, Starting
  <2> QED
    BY <2>1 DEF DeviceInv, TurnsOff, Ordered, Calm, Stopping
<1> QED
  BY <1>1, DeviceInvariance, PTL

\* Nothing uses a tty that was freed, unless an open failed.
THEOREM TtyStaysAlive == Spec => []TtyAlive
<1>1. DeviceInv => TtyAlive
  BY DEF DeviceInv
<1> QED
  BY <1>1, DeviceInvariance, PTL

-----------------------------------------------------------------------------
(* The processes share the modem as SharedModem says.                      *)

\* Unless it is lost, Power says what the process that changes the modem does.
PowerIs == DeviceInv /\ ~Lost =>
    /\ \A p \in Procs : pc[p] \in Starting => Power = "starting" /\ refcount > 0
    /\ \A p \in Procs : pc[p] \in Stopping => Power = "stopping" /\ refcount = 0
    /\ (\A p \in Procs : pc[p] \notin Starting \cup Stopping)
          => Power = IF refcount > 0 THEN "on" ELSE "off"
    /\ \A p, q \in Procs :
          pc[p] \in Starting \cup Stopping /\ pc[q] \in Starting \cup Stopping => p = q
    /\ Users = {p \in Procs : pc[p] = "open"}

LEMMA PowerCases == PowerIs
<1> SUFFICES ASSUME DeviceInv, ~Lost PROVE PowerIs
  BY DEF PowerIs
<1>1. Calm
  BY DEF Lost, Calm
<1>2. \A p \in Procs : pc[p] \in Starting => Power = "starting" /\ refcount > 0
  BY <1>1 DEF Power, DeviceInv, TypeOK, OneChanges
<1>3. \A p \in Procs : pc[p] \in Stopping => Power = "stopping" /\ refcount = 0
  <2> SUFFICES ASSUME NEW p \in Procs, pc[p] \in Stopping
               PROVE  Power = "stopping" /\ refcount = 0
    OBVIOUS
  <2>1. refcount = 0 /\ \A q \in Procs : pc[q] \notin Starting
    BY <1>1 DEF DeviceInv, OneChanges, TypeOK
  <2> QED
    BY <2>1 DEF Power
<1>4. (\A p \in Procs : pc[p] \notin Starting \cup Stopping)
        => Power = IF refcount > 0 THEN "on" ELSE "off"
  BY DeviceAssumption DEF Power, DeviceInv, TypeOK
<1>5. Users = {p \in Procs : pc[p] = "open"}
  BY DEF Users
<1>6. \A p, q \in Procs :
        pc[p] \in Starting \cup Stopping /\ pc[q] \in Starting \cup Stopping => p = q
  BY <1>1 DEF DeviceInv, OneChanges
<1> QED
  BY <1>2, <1>3, <1>4, <1>5, <1>6 DEF PowerIs

LEMMA PowerCasesNext == PowerIs'
  BY PowerCases, PTL

\* Who is alone counted is the only one who has the modem open or starts it.
LEMMA AloneCounted ==
    ASSUME DeviceInv, ~Lost, NEW p \in Procs, p \in Counted
    PROVE  /\ refcount > 0
           /\ refcount = 1 <=> Counted = {p}
<1>1. refcount = Cardinality(Counted)
  BY DEF DeviceInv, Counting, Lost
<1>2. Cardinality({p}) = 1
  BY FS_Singleton
<1>3. Cardinality(Counted) = 1 => Counted = {p}
  BY CountedFinite, FS_Singleton
<1> QED
  BY <1>1, <1>2, <1>3, CountedFinite

\* No step forgets what has gone wrong.
LEMMA TroubleStays == [Next]_vars => trouble \subseteq trouble'
  BY DEF Next, vars, counts, softserial_open, OpenCount, OpenAlloc, OpenEnable, OpenMap,
         OpenIrq, OpenStart, OpenFails, softserial_close, CloseCount, CloseTerm,
         CloseFreeIrq, CloseUnmap, CloseFree, TtyRelease, TtyFree, Interrupt,
         InterruptEnd, DpcTest, DpcCall, ScheduleEvent, HandlerStart, HandlerEnd

\* A process that goes from one place to another changes neither Power nor Users
\* when both places are of the start, or both of the stop, or both of neither.
LEMMA PlaceChange ==
    ASSUME DeviceInv, DeviceInv', ~Lost, ~Lost',
           NEW p \in Procs, NEW place \in Places, GoTo(p, place),
           refcount' = refcount,
           \/ pc[p] \in Starting /\ place \in Starting
           \/ pc[p] \in Stopping /\ place \in Stopping
           \/ /\ pc[p] \in {"away", "failed", "closed", "flush"}
              /\ place \in {"away", "failed", "closed", "flush"}
    PROVE  UNCHANGED Shared!svars
<1>1. PowerIs /\ PowerIs'
  BY PowerCases, PowerCasesNext
<1>2. /\ pc[p] \in Places /\ pc'[p] = place
      /\ \A q \in Procs : q # p => pc'[q] = pc[q]
  BY Move DEF DeviceInv, TypeOK, Places
<1>3. Users' = Users
  BY <1>1, <1>2 DEF PowerIs, Starting, Stopping
<1>4. Power' = Power
  <2>1. CASE pc[p] \in Starting
    BY <1>1, <1>2, <2>1 DEF PowerIs, Starting, Stopping
  <2>2. CASE pc[p] \in Stopping
    BY <1>1, <1>2, <2>2 DEF PowerIs, Starting, Stopping
  <2>3. CASE pc[p] \notin Starting \cup Stopping
    <3>1. place \notin Starting \cup Stopping
      BY <2>3 DEF Starting, Stopping
    <3>2. ASSUME NEW q \in Procs
          PROVE  /\ pc'[q] \in Starting <=> pc[q] \in Starting
                 /\ pc'[q] \in Stopping <=> pc[q] \in Stopping
      BY <1>2, <2>3, <3>1
    <3> QED
      BY <3>2 DEF Power
  <2> QED
    BY <2>1, <2>2, <2>3
<1> QED
  BY <1>3, <1>4 DEF Shared!svars

\* Opening: G.refcount++ is the start of the modem, or joins who has it.
LEMMA OpenCountShares ==
    ASSUME DeviceInv, DeviceInv', ~Lost, ~Lost', NEW p \in Procs, OpenCount(p)
    PROVE  Shared!SNext
<1>1. PowerIs /\ PowerIs'
  BY PowerCases, PowerCasesNext
<1>2. CASE refcount = 0
  <2>1. /\ pc'[p] = "alloc"
        /\ \A q \in Procs : q # p => pc'[q] = pc[q]
        /\ pc[p] = "away"
    BY <1>2, Move DEF OpenCount, DeviceInv, Places, Starting
  <2>2. \A q \in Procs : pc[q] \notin Starting \cup Stopping
    BY <1>1, <1>2 DEF PowerIs, OpenCount, Lost
  <2>3. Power = "off" /\ Power' = "starting"
    BY <1>1, <1>2, <2>1, <2>2 DEF PowerIs, Starting
  <2>4. Users' = Users
    BY <1>1, <2>1 DEF PowerIs
  <2> QED
    BY <2>3, <2>4 DEF Shared!SNext, Shared!Start
<1>3. CASE refcount # 0
  <2>1. /\ pc'[p] = "open"
        /\ \A q \in Procs : q # p => pc'[q] = pc[q]
        /\ pc[p] = "away"
    BY <1>3, Move DEF OpenCount, DeviceInv, Places
  <2>2. refcount > 0 /\ refcount' > 0
    BY <1>3, DeviceAssumption DEF DeviceInv, TypeOK, OpenCount, Lost
  <2>3. \A q \in Procs : pc[q] \notin Stopping
    BY <1>1, <2>2 DEF PowerIs
  <2>4. Power' = Power /\ Power \in {"starting", "on"}
    <3>1. ASSUME NEW q \in Procs, pc[q] \in Starting PROVE Power' = Power /\ Power = "starting"
      BY <1>1, <2>1, <3>1 DEF PowerIs, Starting
    <3>2. CASE \A q \in Procs : pc[q] \notin Starting
      <4>1. \A q \in Procs : pc'[q] \notin Starting \cup Stopping
        BY <2>1, <2>3, <3>2 DEF Starting, Stopping
      <4> QED
        BY <1>1, <2>2, <2>3, <3>2, <4>1 DEF PowerIs
    <3> QED
      BY <3>1, <3>2
  <2>5. p \notin Users /\ Users' = Users \cup {p}
    BY <1>1, <2>1 DEF PowerIs
  <2> QED
    BY <2>4, <2>5 DEF Shared!SNext, Shared!Join
<1> QED
  BY <1>2, <1>3

\* An open that fails, unless others have joined meanwhile.
LEMMA OpenFailsShares ==
    ASSUME DeviceInv, DeviceInv', ~Lost, ~Lost', NEW p \in Procs,
           pc[p] \in Starting, OpenFails(p)
    PROVE  Shared!SNext
<1>1. PowerIs /\ PowerIs'
  BY PowerCases, PowerCasesNext
<1>2. /\ pc'[p] = "failed"
      /\ \A q \in Procs : q # p => pc'[q] = pc[q]
  BY Move DEF OpenFails, DeviceInv, Places
<1>3. refcount = 1 /\ refcount' = 0
  BY DeviceAssumption DEF OpenFails, Lost, DeviceInv, TypeOK
<1>4. Counted = {p}
  BY <1>3, AloneCounted DEF Counted
<1>5. Users = {} /\ Users' = {}
  BY <1>1, <1>2, <1>4 DEF PowerIs, Counted, Starting
<1>6. Power = "starting"
  BY <1>1 DEF PowerIs
<1>7. Power' = "off"
  <2>1. \A q \in Procs : pc'[q] \notin Starting \cup Stopping
    BY <1>1, <1>2 DEF PowerIs, Starting, Stopping
  <2> QED
    BY <1>1, <1>3, <2>1 DEF PowerIs
<1> QED
  BY <1>5, <1>6, <1>7 DEF Shared!SNext, Shared!StartFails

\* The modem is started, for the process that started it and who has joined.
LEMMA StartedShares ==
    ASSUME DeviceInv, DeviceInv', ~Lost, ~Lost', NEW p \in Procs,
           pc[p] = "start", GoTo(p, "open"), refcount' = refcount
    PROVE  Shared!SNext
<1>1. PowerIs /\ PowerIs'
  BY PowerCases, PowerCasesNext
<1>2. /\ pc'[p] = "open"
      /\ \A q \in Procs : q # p => pc'[q] = pc[q]
  BY Move DEF DeviceInv, Places
<1>3. Power = "starting" /\ refcount > 0
  BY <1>1 DEF PowerIs, Starting
<1>4. Power' = "on"
  <2>1. \A q \in Procs : pc'[q] \notin Starting \cup Stopping
    BY <1>1, <1>2 DEF PowerIs, Starting, Stopping
  <2> QED
    BY <1>1, <1>3, <2>1 DEF PowerIs
<1>5. p \notin Users /\ Users' = Users \cup {p}
  BY <1>1, <1>2 DEF PowerIs
<1> QED
  BY <1>3, <1>4, <1>5 DEF Shared!SNext, Shared!Started

\* Closing: the last one that leaves begins to stop the modem.
LEMMA CloseCountShares ==
    ASSUME DeviceInv, DeviceInv', ~Lost, ~Lost', NEW p \in Procs, CloseCount(p)
    PROVE  [Shared!SNext]_(Shared!svars)
<1>1. PowerIs /\ PowerIs'
  BY PowerCases, PowerCasesNext
<1>2. CASE pc[p] = "failed"
  <2>1. refcount = 0
    BY <1>2 DEF CloseCount, Lost
  <2> QED
    BY <1>2, <2>1, PlaceChange DEF CloseCount, Places
<1>3. CASE pc[p] = "open"
  <2>1. /\ refcount > 0
        /\ refcount = 1 <=> Counted = {p}
    BY <1>3, AloneCounted DEF Counted
  <2>2. refcount' = refcount - 1
    BY <2>1 DEF CloseCount
  <2>3. CASE refcount = 1
    <3>1. /\ pc'[p] = "term"
          /\ \A q \in Procs : q # p => pc'[q] = pc[q]
      BY <2>2, <2>3, Move DEF CloseCount, DeviceInv, Places, Stopping
    <3>2. \A q \in Procs : pc[q] \notin Starting \cup Stopping
      BY <1>1, <1>3, <2>1, <2>3 DEF PowerIs, Counted, Starting, Stopping
    <3>3. Power = "on" /\ Power' = "stopping"
      BY <1>1, <2>3, <3>1, <3>2 DEF PowerIs, Stopping
    <3>4. Users = {p} /\ Users' = {}
      BY <1>1, <1>3, <2>1, <2>3, <3>1 DEF PowerIs, Counted
    <3> QED
      BY <3>3, <3>4 DEF Shared!SNext, Shared!LastLeaves
  <2>4. CASE refcount # 1
    <3>1. /\ pc'[p] = "closed"
          /\ \A q \in Procs : q # p => pc'[q] = pc[q]
          /\ refcount' > 0
      BY <2>1, <2>2, <2>4, Move DEF CloseCount, DeviceInv, TypeOK, Places
    <3>2. \A q \in Procs : pc[q] \notin Stopping
      BY <1>1, <2>1 DEF PowerIs
    <3>3. Users' = Users \ {p} /\ p \in Users
      BY <1>1, <1>3, <3>1 DEF PowerIs
    <3>4. CASE \E q \in Procs : pc[q] \in Starting
      <4>1. Power = "starting" /\ Power' = "starting"
        BY <1>1, <1>3, <3>1, <3>4 DEF PowerIs, Starting
      <4> QED
        BY <3>3, <4>1 DEF Shared!SNext, Shared!Leave
    <3>5. CASE \A q \in Procs : pc[q] \notin Starting
      <4>1. Power = "on" /\ Power' = "on"
        <5>1. \A q \in Procs : pc'[q] \notin Starting \cup Stopping
          BY <3>1, <3>2, <3>5 DEF Starting, Stopping
        <5> QED
          BY <1>1, <2>1, <3>1, <3>2, <3>5, <5>1 DEF PowerIs
      <4>2. Users # {p}
        BY <1>1, <2>1, <2>4, <3>5 DEF PowerIs, Counted
      <4> QED
        BY <3>3, <4>1, <4>2 DEF Shared!SNext, Shared!Leave
    <3> QED
      BY <3>4, <3>5
  <2> QED
    BY <2>3, <2>4
<1> QED
  BY <1>2, <1>3 DEF CloseCount

\* The modem is stopped.
LEMMA CloseFreeShares ==
    ASSUME DeviceInv, DeviceInv', ~Lost, ~Lost', NEW p \in Procs, CloseFree(p)
    PROVE  Shared!SNext
<1>1. PowerIs /\ PowerIs'
  BY PowerCases, PowerCasesNext
<1>2. /\ pc[p] = "free" /\ pc'[p] = "closed"
      /\ \A q \in Procs : q # p => pc'[q] = pc[q]
      /\ refcount' = refcount
  BY Move DEF CloseFree, DeviceInv, Places
<1>3. Power = "stopping" /\ refcount = 0
  BY <1>1, <1>2 DEF PowerIs, Stopping
<1>4. Power' = "off"
  <2>1. \A q \in Procs : pc'[q] \notin Starting \cup Stopping
    BY <1>1, <1>2 DEF PowerIs, Starting, Stopping
  <2> QED
    BY <1>1, <1>2, <1>3, <2>1 DEF PowerIs
<1>5. Users' = Users
  BY <1>1, <1>2 DEF PowerIs
<1> QED
  BY <1>3, <1>4, <1>5 DEF Shared!SNext, Shared!Stopped

\* Every step of Device is one of SharedModem, or changes nothing that it knows.
LEMMA StepIsShared ==
    ASSUME DeviceInv, DeviceInv', [Next]_vars
    PROVE  [Shared!SNext]_(Shared!svars)
<1>1. CASE Lost'
  BY <1>1 DEF Power, Users, Shared!SNext, Shared!Lose
<1> SUFFICES ASSUME ~Lost' PROVE [Shared!SNext]_(Shared!svars)
  BY <1>1
<1>2. ~Lost
  BY TroubleStays DEF Lost
<1>3. ASSUME NEW p \in Procs, softserial_open(p) PROVE [Shared!SNext]_(Shared!svars)
  <2>1. CASE OpenCount(p)
    BY <1>2, <2>1, OpenCountShares
  <2>2. CASE OpenAlloc(p)
    BY <1>2, <2>2, PlaceChange DEF OpenAlloc, Places, Starting
  <2>3. CASE OpenEnable(p)
    <3>1. CASE OpenFails(p)
      BY <1>2, <2>3, <3>1, OpenFailsShares DEF OpenEnable, Starting
    <3>2. CASE ~OpenFails(p)
      BY <1>2, <2>3, <3>2, PlaceChange DEF OpenEnable, Places, Starting
    <3> QED
      BY <3>1, <3>2
  <2>4. CASE OpenMap(p)
    BY <1>2, <2>4, PlaceChange DEF OpenMap, Places, Starting
  <2>5. CASE OpenIrq(p)
    BY <1>2, <2>5, PlaceChange DEF OpenIrq, Places, Starting
  <2>6. CASE OpenStart(p)
    <3>1. CASE pc[p] = "start"
      BY <1>2, <2>6, <3>1, StartedShares DEF OpenStart
    <3>2. CASE pc[p] # "start"
      BY <1>2, <2>6, <3>2, OpenFailsShares DEF OpenStart, Starting
    <3> QED
      BY <3>1, <3>2
  <2> QED
    BY <1>3, <2>1, <2>2, <2>3, <2>4, <2>5, <2>6 DEF softserial_open
<1>4. ASSUME NEW p \in Procs, softserial_close(p) PROVE [Shared!SNext]_(Shared!svars)
  <2>1. CASE CloseCount(p)
    BY <1>2, <2>1, CloseCountShares
  <2>2. CASE CloseTerm(p)
    BY <1>2, <2>2, PlaceChange DEF CloseTerm, Places, Stopping
  <2>3. CASE CloseFreeIrq(p)
    BY <1>2, <2>3, PlaceChange DEF CloseFreeIrq, Places, Stopping
  <2>4. CASE CloseUnmap(p)
    BY <1>2, <2>4, PlaceChange DEF CloseUnmap, Places, Stopping
  <2>5. CASE CloseFree(p)
    BY <1>2, <2>5, CloseFreeShares
  <2> QED
    BY <1>4, <2>1, <2>2, <2>3, <2>4, <2>5 DEF softserial_close
<1>5. ASSUME NEW p \in Procs, TtyRelease(p) \/ TtyFree(p)
      PROVE  [Shared!SNext]_(Shared!svars)
  <2>1. CASE TtyRelease(p)
    BY <1>2, <2>1, PlaceChange DEF TtyRelease, Places
  <2>2. CASE TtyFree(p)
    BY <1>2, <2>2, PlaceChange DEF TtyFree, Places
  <2> QED
    BY <1>5, <2>1, <2>2
<1>6. CASE UNCHANGED counts
  BY <1>6 DEF counts, Power, Users, Lost, Shared!svars
<1>7. (Deferred \/ UNCHANGED vars) => UNCHANGED counts
  BY DEF Deferred, Interrupt, InterruptEnd, DpcTest, DpcCall, ScheduleEvent, HandlerStart,
         HandlerEnd, vars
<1> QED
  BY <1>3, <1>4, <1>5, <1>6, <1>7 DEF Next, Deferred

\* For any number of processes and whatever fails, Device implements SharedModem:
\* one process at a time starts the modem, nobody opens it while it is being
\* stopped, and it is stopped by the last one, when nobody has it open.
THEOREM DeviceIsShared == Spec => ModemShared
<1>1. Init => Shared!SInit
  BY DEF Init, Shared!SInit, Power, Users, Lost, Starting, Stopping
<1>2. DeviceInv /\ DeviceInv' /\ [Next]_vars => [Shared!SNext]_(Shared!svars)
  BY StepIsShared
<1> QED
  BY <1>1, <1>2, DeviceInvariance, PTL DEF Spec, ModemShared, Shared!SSpec
=============================================================================
