-------------------------- MODULE ModemLinesProofs --------------------------
(***************************************************************************)
(* The safety of ModemLines for any number of contexts that switch lines   *)
(* and of processes that wait, and any subset of the modem status; and     *)
(* what the values TIOCMIWAIT compares are worth when it decides.          *)
(***************************************************************************)
EXTENDS ModemLines, SequenceTheorems, TLAPS

\* A context at the wake-up is there with a switch that wakes.
WakesThere == \A x \in Contexts : lpc[x] = "wake" => Wakes(Head(todo[x]))

\* What a waiter has read of the first n lines is what they are, unless they
\* changed while it was not on the queue.
UpToDate(p, values, n) ==
    \A m \in 1..n : Status[m] \in early[p] \/ values[Status[m]] = on[Status[m]]

\* What a waiter knows at each place of TIOCMIWAIT.
Knows(p) ==
    /\ k[p] \in 0..Len(Status)-1
    /\ wpc[p] \notin {"old", "new"} => k[p] = 0
    /\ wpc[p] = "old" => UpToDate(p, old[p], k[p])
    /\ wpc[p] = "new" => UpToDate(p, new[p], k[p])
    /\ wpc[p] = "decide" => UpToDate(p, new[p], Len(Status))
    /\ wpc[p] = "prepare" => \A l \in mask[p] \ early[p] : old[p][l] = on[l]
    /\ p \in asleep => wpc[p] = "sleep"

LinesInv ==
    /\ TypeOK
    /\ WakesThere
    /\ ExternalIntKept
    /\ \A p \in Waiters : Knows(p)
    /\ NoMissedChange

\* The lines of the modem status are not DTR and RTS.
LEMMA Disjoint == Modem \cap Control = {} /\ Modem \subseteq Lines /\ Control \subseteq Lines
  BY LinesAssumption DEF Modem, Control, Lines

\* The first of the switches of a context, and what follows it, are switches.
LEMMA SwitchSeq ==
    ASSUME NEW S, NEW s \in Seq(S), s # <<>>
    PROVE  Head(s) \in S /\ Tail(s) \in Seq(S)
  BY HeadTailProperties

\* The device has just been opened.
LEMMA LinesInitInv == Init => LinesInv
<1> SUFFICES ASSUME Init PROVE LinesInv
  OBVIOUS
<1> USE LinesAssumption
<1>1. TypeOK
  BY DEF Init, TypeOK, Lines, Contexts, Control, Modem
<1>2. Len(Status) \in Nat \ {0}
  BY EmptySeq, LenProperties
<1>3. WakesThere /\ ExternalIntKept
  BY DEF Init, WakesThere, ExternalIntKept, Contexts
<1>4. (\A p \in Waiters : Knows(p)) /\ NoMissedChange
  BY <1>2 DEF Init, Knows, UpToDate, NoMissedChange
<1> QED
  BY <1>1, <1>3, <1>4 DEF LinesInv

\* The first switch of a context is one of a line that the context may switch.
LEMMA HeadSwitch ==
    ASSUME TypeOK, NEW x \in Contexts, todo[x] # <<>>
    PROVE  /\ x = Core => /\ Head(todo[x]) \in Switches(Modem)
                          /\ Tail(todo[x]) \in Seq(Switches(Modem))
           /\ x \in Setters => /\ Head(todo[x]) \in Switches(Control)
                               /\ Tail(todo[x]) \in Seq(Switches(Control))
  BY SwitchSeq DEF TypeOK

\* Going on with the next switch, or to another place in the same, keeps the
\* types of what a context still has to do.
LEMMA TodoType ==
    ASSUME TypeOK, NEW x \in Contexts, todo[x] # <<>>,
           NextSwitch(x) \/ \E pc \in {"set", "wake", "ext"} : GoTo(x, pc)
    PROVE  /\ lpc' \in [Contexts -> {"test", "set", "wake", "ext"}]
           /\ \A y \in Setters : todo'[y] \in Seq(Switches(Control))
           /\ todo'[Core] \in Seq(Switches(Modem))
           /\ DOMAIN todo' = Contexts
           /\ \A y \in Contexts : lpc'[y] # "test" => todo'[y] # <<>>
  <1> USE LinesAssumption, HeadSwitch DEF TypeOK, Contexts
  <1>1. CASE NextSwitch(x)
    BY <1>1 DEF NextSwitch
  <1>2. CASE \E pc \in {"set", "wake", "ext"} : GoTo(x, pc)
    BY <1>2 DEF GoTo
  <1> QED
    BY <1>1, <1>2

\* What the other contexts do does not depend on it.
LEMMA OthersGoOn ==
    ASSUME TypeOK, NEW x \in Contexts,
           NextSwitch(x) \/ \E pc \in {"set", "wake", "ext"} : GoTo(x, pc)
    PROVE  \A y \in Contexts : y # x => lpc'[y] = lpc[y] /\ todo'[y] = todo[y]
  BY DEF TypeOK, NextSwitch, GoTo

\* A switch of a line keeps the invariant.
LEMMA SwitchInv ==
    ASSUME LinesInv, NEW x \in Contexts, Switch(x)
    PROVE  LinesInv'
<1> USE LinesAssumption, Disjoint DEF LinesInv
<1>0. /\ todo[x] # <<>>
      /\ NextSwitch(x) \/ \E pc \in {"set", "wake", "ext"} : GoTo(x, pc)
  BY DEF Switch, SwitchTest, SwitchSet, SwitchWake, SwitchExt, TypeOK
<1>1. /\ x = Core => Head(todo[x]) \in Switches(Modem)
      /\ x \in Setters => Head(todo[x]) \in Switches(Control)
      /\ Head(todo[x]) \in Switches(Lines)
  BY <1>0, HeadSwitch DEF Contexts, Switches
<1>a. \A y \in Contexts : y # x => lpc'[y] = lpc[y] /\ todo'[y] = todo[y]
  BY <1>0, OthersGoOn
<1>b. Core \in Contexts /\ Setters \subseteq Contexts
  BY DEF Contexts
<1>2. TypeOK'
  <2>0. ASSUME SwitchSet(x)
        PROVE  on' \in [Lines -> BOOLEAN] /\ early' \in [Waiters -> SUBSET Modem]
    <3>1. Head(todo[x]).line \in Lines /\ Head(todo[x]).on \in BOOLEAN
      BY <1>1 DEF Switches
    <3>2. on' \in [Lines -> BOOLEAN]
      BY <2>0, <3>1 DEF SwitchSet, TypeOK
    <3>3. early' \in [Waiters -> SUBSET Modem]
      <4> DEFINE changed == {Head(todo[x]).line} \cap Modem
      <4>1. changed \subseteq Modem
        OBVIOUS
      <4>2. early' = [p \in Waiters |-> IF wpc[p] \in {"idle", "sleep"}
                                          THEN early[p] ELSE early[p] \cup changed]
        BY <2>0 DEF SwitchSet
      <4> HIDE DEF changed
      <4> QED
        BY <4>1, <4>2 DEF TypeOK
    <3> QED
      BY <3>2, <3>3
  <2>1. on' \in [Lines -> BOOLEAN] /\ early' \in [Waiters -> SUBSET Modem]
    BY <2>0 DEF Switch, SwitchTest, SwitchWake, SwitchExt, TypeOK
  <2>2. /\ asleep' \subseteq Waiters
        /\ pending' \in BOOLEAN
        /\ UNCHANGED <<bpc, told, wpc, k, mask, old, new>>
    BY DEF Switch, SwitchTest, SwitchSet, SwitchWake, SwitchExt, TypeOK, ext, waiter
  <2> QED
    BY <1>0, <2>1, <2>2, TodoType DEF TypeOK
<1>3. CASE SwitchTest(x)
  <2>1. lpc[x] = "test" /\ lpc'[x] \in {"test", "set"}
    BY <1>3 DEF SwitchTest, NextSwitch, GoTo, TypeOK
  <2>2. WakesThere'
    BY <1>a, <2>1 DEF WakesThere
  <2>3. ExternalIntKept'
    BY <1>3, <1>a, <1>b, <2>1 DEF SwitchTest, ExternalIntKept, ext
  <2>4. (\A p \in Waiters : Knows(p)')
    BY <1>3 DEF SwitchTest, Knows, UpToDate, waiter
  <2>5. NoMissedChange'
    BY <1>3, <1>a, <1>b, <2>1 DEF SwitchTest, NoMissedChange, waiter
  <2> QED
    BY <1>2, <2>2, <2>3, <2>4, <2>5
<1>4. CASE SwitchSet(x)
  <2> DEFINE s == Head(todo[x])
  <2>1. WakesThere'
    <3>1. lpc'[x] = "wake" => Wakes(Head(todo'[x]))
      BY <1>4 DEF SwitchSet, NextSwitch, GoTo, TypeOK
    <3> QED
      BY <1>a, <3>1 DEF WakesThere
  <2>2. ExternalIntKept'
    <3> SUFFICES ASSUME NEW l \in Control, told'[l] # on'[l], l = "DTR" => ~on'[l],
                        ~pending', bpc' # "call"
                 PROVE  \E y \in Setters : /\ lpc'[y] \in {"wake", "ext"}
                                           /\ Head(todo'[y]).line = l
      BY DEF ExternalIntKept
    <3>1. CASE l = s.line
      <4>1. x \in Setters /\ on'[l] = s.on /\ l \in {"RTS", "DTR"}
        BY <1>1, <1>4, <3>1 DEF SwitchSet, Contexts, Switches, TypeOK, Control
      <4>2. Wakes(s) \/ Announces(s)
        BY <1>1, <3>1, <4>1 DEF Announces, Switches
      <4>3. GoTo(x, "wake") \/ GoTo(x, "ext")
        BY <1>4, <4>2 DEF SwitchSet
      <4> QED
        BY <3>1, <4>1, <4>3 DEF GoTo, TypeOK
    <3>2. CASE l # s.line
      <4>1. on'[l] = on[l] /\ told' = told /\ pending' = pending /\ bpc' = bpc
        BY <1>4, <3>2 DEF SwitchSet, TypeOK, ext
      <4>2. PICK y \in Setters : lpc[y] \in {"wake", "ext"} /\ Head(todo[y]).line = l
        BY <4>1 DEF ExternalIntKept
      <4>3. y # x
        BY <1>4, <4>2 DEF SwitchSet
      <4> QED
        BY <1>a, <1>b, <4>2, <4>3
    <3> QED
      BY <3>1, <3>2
  <2>3. \A p \in Waiters : Knows(p)'
    <3> SUFFICES ASSUME NEW p \in Waiters PROVE Knows(p)'
      OBVIOUS
    <3>1. UNCHANGED <<wpc, k, mask, old, new, asleep>>
      BY <1>4 DEF SwitchSet, waiter
    <3>2. ASSUME wpc[p] \notin {"idle", "sleep"}, NEW l \in Modem
          PROVE  on'[l] = on[l] \/ l \in early'[p]
      BY <1>4, <3>2 DEF SwitchSet, TypeOK
    <3>3. early[p] \subseteq early'[p]
      BY <1>4 DEF SwitchSet, TypeOK
    <3>4. \A m \in 1..Len(Status) : Status[m] \in Modem
      BY LenProperties DEF Modem
    <3>5. ASSUME NEW values, NEW n \in 0..Len(Status), wpc[p] \notin {"idle", "sleep"},
                 UpToDate(p, values, n)
          PROVE  \A m \in 1..n : Status[m] \in early'[p] \/ values[Status[m]] = on'[Status[m]]
      BY <3>2, <3>3, <3>4, <3>5, LenProperties DEF UpToDate
    <3>6. wpc[p] = "prepare" => \A l \in mask[p] \ early'[p] : old[p][l] = on'[l]
      BY <3>2, <3>3 DEF Knows, TypeOK
    <3>7. Len(Status) \in Nat
      BY LenProperties
    <3>8. ASSUME wpc[p] = "old" PROVE UpToDate(p, old[p], k[p])'
      <4>1. UpToDate(p, old[p], k[p]) /\ k[p] \in 0..Len(Status)
        BY <3>8, <3>7 DEF Knows
      <4>2. \A m \in 1..k[p] : Status[m] \in early'[p] \/ old[p][Status[m]] = on'[Status[m]]
        BY <3>5, <3>8, <4>1
      <4> QED
        BY <3>1, <4>2 DEF UpToDate
    <3>9. ASSUME wpc[p] = "new" PROVE UpToDate(p, new[p], k[p])'
      <4>1. UpToDate(p, new[p], k[p]) /\ k[p] \in 0..Len(Status)
        BY <3>9, <3>7 DEF Knows
      <4>2. \A m \in 1..k[p] : Status[m] \in early'[p] \/ new[p][Status[m]] = on'[Status[m]]
        BY <3>5, <3>9, <4>1
      <4> QED
        BY <3>1, <4>2 DEF UpToDate
    <3>10. ASSUME wpc[p] = "decide" PROVE UpToDate(p, new[p], Len(Status))'
      <4>1. UpToDate(p, new[p], Len(Status)) /\ Len(Status) \in 0..Len(Status)
        BY <3>10, <3>7 DEF Knows
      <4>2. \A m \in 1..Len(Status) : Status[m] \in early'[p] \/ new[p][Status[m]] = on'[Status[m]]
        BY <3>5, <3>10, <4>1
      <4> QED
        BY <3>1, <4>2 DEF UpToDate
    <3> QED
      BY <3>1, <3>6, <3>8, <3>9, <3>10 DEF Knows
  <2>4. NoMissedChange'
    <3> SUFFICES ASSUME NEW p \in asleep, NEW l \in mask[p] \ early[p], on'[l] # old[p][l]
                 PROVE  lpc'[Core] = "wake"
      <4>1. UNCHANGED <<asleep, mask, old>> /\ \A p \in asleep : early'[p] = early[p]
        BY <1>4 DEF SwitchSet, waiter, Knows, TypeOK
      <4> QED
        BY <4>1 DEF NoMissedChange
    <3>1. l \in Modem
      BY DEF TypeOK
    <3>2. CASE l = s.line
      <4>1. x = Core
        BY <1>1, <3>1, <3>2 DEF Contexts, Switches
      <4>2. Wakes(s)
        BY <3>1, <3>2 DEF Wakes
      <4> QED
        BY <1>4, <4>1, <4>2 DEF SwitchSet, GoTo, TypeOK
    <3>3. CASE l # s.line
      <4>1. lpc[Core] = "wake"
        BY <1>4, <3>1, <3>3 DEF SwitchSet, NoMissedChange, TypeOK
      <4> QED
        BY <1>4, <4>1 DEF SwitchSet, NextSwitch, GoTo, TypeOK, Contexts
    <3> QED
      BY <3>2, <3>3
  <2> QED
    BY <1>2, <2>1, <2>2, <2>3, <2>4
<1>5. CASE SwitchWake(x)
  <2>1. x \in Setters => Announces(Head(todo[x]))
    BY <1>1, <1>5 DEF SwitchWake, WakesThere, Wakes, Announces, Switches
  <2>2. WakesThere'
    <3>1. lpc'[x] # "wake"
      BY <1>5 DEF SwitchWake, NextSwitch, GoTo, TypeOK
    <3> QED
      BY <1>a, <3>1 DEF WakesThere
  <2>3. ExternalIntKept'
    <3>1. UNCHANGED <<on, told, pending, bpc>>
      BY <1>5 DEF SwitchWake, ext
    <3>2. x \in Setters => GoTo(x, "ext")
      BY <1>5, <2>1 DEF SwitchWake
    <3>3. x \in Setters => lpc'[x] = "ext" /\ todo' = todo
      BY <3>2 DEF GoTo, TypeOK
    <3>4. \A y \in Setters : lpc[y] \in {"wake", "ext"} =>
              lpc'[y] \in {"wake", "ext"} /\ todo'[y] = todo[y]
      BY <1>a, <1>b, <3>3
    <3> QED
      BY <3>1, <3>4 DEF ExternalIntKept
  <2>4. (\A p \in Waiters : Knows(p)') /\ NoMissedChange'
    BY <1>5 DEF SwitchWake, Knows, UpToDate, NoMissedChange, waiter
  <2> QED
    BY <1>2, <2>2, <2>3, <2>4
<1>6. CASE SwitchExt(x)
  BY <1>2, <1>6 DEF SwitchExt, NextSwitch, WakesThere, ExternalIntKept, Knows, UpToDate,
                    NoMissedChange, waiter, TypeOK, Contexts
<1> QED
  BY <1>3, <1>4, <1>5, <1>6 DEF Switch

\* So does the start of a switch, by a process or by the modem core.
LEMMA CalledInv ==
    ASSUME LinesInv, (\E x \in Setters : SetterCalled(x)) \/ CoreSwitches
    PROVE  LinesInv'
<1> USE LinesAssumption DEF LinesInv
<1>1. PICK x \in Contexts :
        /\ todo[x] = <<>>
        /\ \E c : /\ todo' = [todo EXCEPT ![x] = c]
                  /\ x \in Setters => c \in Seq(Switches(Control))
                  /\ x \notin Setters => c \in Seq(Switches(Modem))
  <2>1. CASE \E x \in Setters : SetterCalled(x)
    BY <2>1 DEF SetterCalled, Contexts
  <2>2. CASE CoreSwitches
    <3>1. PICK s \in Switches(Modem) : todo' = [todo EXCEPT ![Core] = <<s>>]
      BY <2>2 DEF CoreSwitches
    <3>2. <<s>> \in Seq(Switches(Modem))
      OBVIOUS
    <3> QED
      BY <2>2, <3>1, <3>2 DEF CoreSwitches, Contexts
  <2> QED
    BY <2>1, <2>2
<1>2. UNCHANGED <<on, lpc, asleep, ext, waiter, early>>
  BY DEF SetterCalled, CoreSwitches
<1>3. lpc[x] = "test" /\ \A y \in Contexts : y # x => todo'[y] = todo[y]
  BY <1>1 DEF TypeOK
<1>4. TypeOK'
  BY <1>1, <1>2, <1>3 DEF TypeOK, ext, waiter, Contexts
<1>5. WakesThere' /\ ExternalIntKept'
  BY <1>2, <1>3 DEF WakesThere, ExternalIntKept, ext, Contexts
<1>6. (\A p \in Waiters : Knows(p)') /\ NoMissedChange'
  BY <1>2 DEF Knows, UpToDate, NoMissedChange, waiter
<1> QED
  BY <1>4, <1>5, <1>6

\* So does the handling of an external interrupt: the flag is cleared before
\* the lines are read.
LEMMA ExternalIntInv ==
    ASSUME LinesInv, external_int
    PROVE  LinesInv'
<1> USE LinesAssumption, Disjoint DEF LinesInv, line, waiter
<1>1. TypeOK'
  BY DEF external_int, ExtTest, ExtClear, ExtCall, TypeOK
<1>2. WakesThere' /\ (\A p \in Waiters : Knows(p)') /\ NoMissedChange'
  BY DEF external_int, ExtTest, ExtClear, ExtCall, WakesThere, Knows, UpToDate,
         NoMissedChange
<1>3. ExternalIntKept'
  BY DEF external_int, ExtTest, ExtClear, ExtCall, ExternalIntKept, TypeOK
<1> QED
  BY <1>1, <1>2, <1>3

\* So does the reading of a line, before or after the wait.
LEMMA ReadInv ==
    ASSUME LinesInv, NEW p \in Waiters,
           WaitRead(p, "old", "prepare") \/ WaitRead(p, "new", "decide")
    PROVE  LinesInv'
<1> USE LinesAssumption, Disjoint DEF LinesInv
<1> DEFINE n == k[p] + 1
           l == Status[n]
<1>0. /\ Len(Status) \in Nat /\ k[p] \in 0..Len(Status)-1
      /\ n \in 1..Len(Status)
      /\ \A m \in 1..Len(Status) : Status[m] \in Modem
  BY LenProperties DEF Knows, Modem
<1>1. /\ UNCHANGED <<line, ext, mask, early>>
      /\ wpc[p] \in {"old", "new"}
      /\ \A q \in Waiters : q # p => UNCHANGED <<wpc[q], k[q], old[q], new[q]>>
  BY DEF WaitRead, get_line_status, TypeOK
<1>2. CASE WaitRead(p, "old", "prepare")
  <2>1. wpc[p] = "old" /\ new' = new /\ old' = [old EXCEPT ![p][l] = on[l]]
    BY <1>2 DEF WaitRead, get_line_status
  <2>2. \/ n = Len(Status) /\ k'[p] = 0 /\ wpc'[p] = "prepare"
        \/ n < Len(Status) /\ k'[p] = n /\ wpc'[p] = "old"
    BY <1>0, <1>2, <2>1 DEF WaitRead, get_line_status, TypeOK
  <2>3. \A m \in 1..n : Status[m] \in early[p] \/ old'[p][Status[m]] = on[Status[m]]
    BY <1>0, <2>1 DEF Knows, UpToDate, TypeOK
  <2>4. wpc'[p] = "prepare" => \A x \in mask[p] \ early[p] : old'[p][x] = on[x]
    BY <2>2, <2>3 DEF TypeOK, Modem
  <2>5. Knows(p)'
    BY <1>0, <1>1, <2>1, <2>2, <2>3, <2>4 DEF Knows, UpToDate, line
  <2>6. TypeOK'
    <3>1. old' \in [Waiters -> [Modem -> BOOLEAN]]
      BY <1>0, <2>1 DEF TypeOK
    <3>2. wpc' \in [Waiters -> {"idle", "old", "prepare", "sleep", "new", "decide"}]
      <4>1. wpc' = wpc \/ wpc' = [wpc EXCEPT ![p] = "prepare"]
        BY <1>2 DEF WaitRead, get_line_status
      <4> QED
        BY <4>1 DEF TypeOK
    <3>3. k' \in [Waiters -> Nat]
      BY <1>0, <1>2 DEF WaitRead, get_line_status, TypeOK
    <3> QED
      BY <1>1, <2>1, <3>1, <3>2, <3>3 DEF TypeOK, line, ext
  <2>7. \A q \in Waiters : q # p => Knows(q)'
    BY <1>1 DEF Knows, UpToDate, line
  <2>8. WakesThere' /\ ExternalIntKept' /\ NoMissedChange'
    BY <1>1 DEF WakesThere, ExternalIntKept, NoMissedChange, Knows, TypeOK, line, ext
  <2> QED
    BY <2>5, <2>6, <2>7, <2>8
<1>3. CASE WaitRead(p, "new", "decide")
  <2>1. wpc[p] = "new" /\ old' = old /\ new' = [new EXCEPT ![p][l] = on[l]]
    BY <1>3 DEF WaitRead, get_line_status
  <2>2. \/ n = Len(Status) /\ k'[p] = 0 /\ wpc'[p] = "decide"
        \/ n < Len(Status) /\ k'[p] = n /\ wpc'[p] = "new"
    BY <1>0, <1>3, <2>1 DEF WaitRead, get_line_status, TypeOK
  <2>3. \A m \in 1..n : Status[m] \in early[p] \/ new'[p][Status[m]] = on[Status[m]]
    BY <1>0, <2>1 DEF Knows, UpToDate, TypeOK
  <2>5. Knows(p)'
    BY <1>0, <1>1, <2>1, <2>2, <2>3 DEF Knows, UpToDate, line
  <2>6. TypeOK'
    <3>1. new' \in [Waiters -> [Modem -> BOOLEAN]]
      BY <1>0, <2>1 DEF TypeOK
    <3>2. wpc' \in [Waiters -> {"idle", "old", "prepare", "sleep", "new", "decide"}]
      <4>1. wpc' = wpc \/ wpc' = [wpc EXCEPT ![p] = "decide"]
        BY <1>3 DEF WaitRead, get_line_status
      <4> QED
        BY <4>1 DEF TypeOK
    <3>3. k' \in [Waiters -> Nat]
      BY <1>0, <1>3 DEF WaitRead, get_line_status, TypeOK
    <3> QED
      BY <1>1, <2>1, <3>1, <3>2, <3>3 DEF TypeOK, line, ext
  <2>7. \A q \in Waiters : q # p => Knows(q)'
    BY <1>1 DEF Knows, UpToDate, line
  <2>8. WakesThere' /\ ExternalIntKept' /\ NoMissedChange'
    BY <1>1 DEF WakesThere, ExternalIntKept, NoMissedChange, Knows, TypeOK, line, ext
  <2> QED
    BY <2>5, <2>6, <2>7, <2>8
<1> QED
  BY <1>2, <1>3

\* And so do the other steps of TIOCMIWAIT.
LEMMA WaitInv ==
    ASSUME LinesInv, NEW p \in Waiters,
           \/ WaitCalled(p) \/ WaitPrepare(p) \/ WaitWoken(p)
           \/ WaitSignal(p) \/ WaitDecide(p)
    PROVE  LinesInv'
<1> USE LinesAssumption, Disjoint DEF LinesInv
<1>0. Len(Status) \in Nat /\ \A l \in Modem : \E m \in 1..Len(Status) : l = Status[m]
  BY LenProperties DEF Modem
<1>1. /\ UNCHANGED <<on, lpc, todo, ext>>
      /\ \A q \in Waiters : q # p => /\ UNCHANGED <<wpc[q], k[q], mask[q]>>
                                     /\ UNCHANGED <<old[q], new[q], early[q]>>
                                     /\ q \in asleep' <=> q \in asleep
  BY DEF WaitCalled, WaitPrepare, WaitWoken, WaitSignal, WaitDecide, WaitReturns,
         TypeOK, line
<1>2. TypeOK'
  <2>1. CASE WaitCalled(p)
    BY <2>1 DEF WaitCalled, TypeOK, line, ext
  <2>2. CASE WaitPrepare(p)
    BY <2>2 DEF WaitPrepare, TypeOK, ext
  <2>3. CASE WaitWoken(p)
    BY <2>3 DEF WaitWoken, TypeOK, line, ext
  <2>4. CASE WaitSignal(p)
    BY <2>4 DEF WaitSignal, WaitReturns, TypeOK, ext
  <2>5. CASE WaitDecide(p)
    <3>1. CASE WaitReturns(p)
      BY <2>5, <3>1 DEF WaitDecide, WaitReturns, TypeOK, line, ext
    <3>2. CASE ~WaitReturns(p)
      <4>1. /\ wpc' = [wpc EXCEPT ![p] = "prepare"]
            /\ UNCHANGED <<mask, old, new, early, line, ext, k>>
        BY <2>5, <3>2 DEF WaitDecide
      <4> QED
        BY <4>1 DEF TypeOK, line, ext
    <3> QED
      BY <3>1, <3>2
  <2> QED
    BY <2>1, <2>2, <2>3, <2>4, <2>5
<1>3. WakesThere' /\ ExternalIntKept'
  BY <1>1 DEF WakesThere, ExternalIntKept, ext
<1>4. \A q \in Waiters : q # p => Knows(q)'
  BY <1>1 DEF Knows, UpToDate
<1>5. /\ Knows(p)'
      /\ \A l \in mask'[p] \ early'[p] : p \in asleep' => on'[l] = old'[p][l]
  <2>1. CASE WaitCalled(p)
    <3>1. /\ wpc[p] = "idle" /\ wpc'[p] = "old"
          /\ UNCHANGED <<line, k, old, new, early>>
      BY <2>1 DEF WaitCalled, TypeOK
    <3>2. k'[p] = 0 /\ p \notin asleep'
      BY <3>1 DEF Knows, line
    <3>3. UpToDate(p, old[p], k[p])'
      BY <3>2 DEF UpToDate
    <3> QED
      BY <1>0, <3>1, <3>2, <3>3 DEF Knows
  <2>2. CASE WaitPrepare(p)
    BY <2>2 DEF WaitPrepare, Knows, TypeOK
  <2>3. CASE WaitWoken(p)
    <3>1. /\ wpc[p] = "sleep" /\ wpc'[p] = "new"
          /\ UNCHANGED <<line, k, mask, old, new, early>>
          /\ p \notin asleep
      BY <2>3 DEF WaitWoken, TypeOK
    <3>2. k'[p] = 0 /\ p \notin asleep'
      BY <3>1 DEF Knows, line
    <3>3. UpToDate(p, new[p], k[p])'
      BY <3>2 DEF UpToDate
    <3> QED
      BY <1>0, <3>1, <3>2, <3>3 DEF Knows
  <2>4. CASE WaitSignal(p)
    BY <2>4 DEF WaitSignal, WaitReturns, Knows, TypeOK
  <2>5. CASE WaitDecide(p)
    <3>1. \A l \in Modem : l \in early[p] \/ new[p][l] = on[l]
      BY <1>0, <2>5 DEF WaitDecide, Knows, UpToDate
    <3>2. UNCHANGED <<line, k>> /\ p \notin asleep /\ k[p] = 0
      BY <2>5 DEF WaitDecide, Knows
    <3>3. CASE WaitReturns(p)
      BY <3>2, <3>3 DEF WaitReturns, Knows, TypeOK, line
    <3>4. CASE ~WaitReturns(p)
      <4>1. /\ wpc'[p] = "prepare" /\ UNCHANGED <<mask, old, new, early>>
            /\ \A l \in mask[p] : new[p][l] = old[p][l]
        BY <2>5, <3>4 DEF WaitDecide, TypeOK
      <4>2. \A l \in mask[p] \ early[p] : old[p][l] = on[l]
        BY <3>1, <4>1 DEF TypeOK
      <4> QED
        BY <3>2, <4>1, <4>2, <1>0 DEF Knows, line
    <3> QED
      BY <3>3, <3>4
  <2> QED
    BY <2>1, <2>2, <2>3, <2>4, <2>5
<1>6. NoMissedChange'
  <2> SUFFICES ASSUME NEW q \in asleep', NEW l \in mask'[q] \ early'[q],
                      on'[l] # old'[q][l]
               PROVE  lpc'[Core] = "wake"
    BY DEF NoMissedChange
  <2>1. q \in Waiters /\ q # p
    BY <1>2, <1>5 DEF TypeOK
  <2>2. q \in asleep /\ l \in mask[q] \ early[q] /\ on[l] # old[q][l]
    BY <1>1, <2>1
  <2> QED
    BY <1>1, <2>2 DEF NoMissedChange
<1> QED
  BY <1>2, <1>3, <1>4, <1>5, <1>6

\* Every step keeps the invariant.
LEMMA LinesNextInv == LinesInv /\ [Next]_vars => LinesInv'
<1> SUFFICES ASSUME LinesInv, [Next]_vars PROVE LinesInv'
  OBVIOUS
<1>1. CASE UNCHANGED vars
  BY <1>1 DEF vars, line, ext, waiter, LinesInv, TypeOK, WakesThere, ExternalIntKept,
              Knows, UpToDate, NoMissedChange
<1>2. ASSUME NEW p \in Waiters, WaitCalled(p) \/ WaitSignal(p) \/ TIOCMIWAIT(p)
      PROVE  LinesInv'
  BY <1>2, ReadInv, WaitInv DEF TIOCMIWAIT
<1> QED
  BY <1>1, <1>2, SwitchInv, CalledInv, ExternalIntInv DEF Next

\* The invariant holds whatever the processes and the modem core do.
THEOREM LinesInvariance == Spec => []LinesInv
  BY LinesInitInv, LinesNextInv, PTL DEF Spec

\* The variables keep their types.
THEOREM LinesTypeCorrect == Spec => []TypeOK
<1>1. LinesInv => TypeOK
  BY DEF LinesInv
<1> QED
  BY <1>1, LinesInvariance, PTL

\* The modem core is never left with an RTS, or a dropped DTR, that it has not
\* read and is not about to be told of (clm_external_int, clm_rx_int).
THEOREM ExternalIntIsKept == Spec => []ExternalIntKept
<1>1. LinesInv => ExternalIntKept
  BY DEF LinesInv
<1> QED
  BY <1>1, LinesInvariance, PTL

\* A process on delta_msr_wait is woken for every change of its lines since it
\* joined the queue (UART_msr_wait, and the routines of the lines).
THEOREM ChangeIsNotMissed == Spec => []NoMissedChange
<1>1. LinesInv => NoMissedChange
  BY DEF LinesInv
<1> QED
  BY <1>1, LinesInvariance, PTL

\* TIOCMIWAIT decides on lines as they are: what it has read one after the other is
\* still so, but for lines that changed while it was not on the queue.
DecidesOnPresent ==
    \A p \in Waiters : wpc[p] = "decide" =>
        \A l \in Modem \ early[p] : new[p][l] = on[l]

\* For the theorem, any process and any of its calls of TIOCMIWAIT.
THEOREM DecisionIsPresent == Spec => []DecidesOnPresent
<1>1. LinesInv => DecidesOnPresent
  <2> SUFFICES ASSUME LinesInv, NEW p \in Waiters, wpc[p] = "decide",
                      NEW l \in Modem \ early[p]
               PROVE  new[p][l] = on[l]
    BY DEF DecidesOnPresent
  <2>1. UpToDate(p, new[p], Len(Status))
    BY DEF LinesInv, Knows
  <2>2. PICK m \in 1..Len(Status) : l = Status[m]
    BY LinesAssumption DEF Modem
  <2> QED
    BY <2>1, <2>2 DEF UpToDate
<1> QED
  BY <1>1, LinesInvariance, PTL
=============================================================================
