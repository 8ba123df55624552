--------------------------- MODULE TermiosProofs ---------------------------
(***************************************************************************)
(* The settings of uart and c_cflag agree whenever no call runs, for every *)
(* set of speeds and of requests.                                          *)
(*                                                                         *)
(* InSync says nothing of the steps between; the invariant says what each  *)
(* of the two routines has copied when it comes to a field.  Apart from    *)
(* that: which parities ever reach uart, whatever overlaps, and that the   *)
(* two translations between uart and c_cflag are inverse (FlagsReadBack),  *)
(* though not on odd and mark parity (OddComesToEven, AskedReadsFlags).    *)
(***************************************************************************)
EXTENDS Termios, TLAPS

\* s and t agree in the fields that come before f, and in all four.
SameBefore(s, t, f) ==
    /\ f # "speed" => s.speed = t.speed
    /\ f \in {"parity", "stop"} => s.size = t.size
    /\ f = "stop" => s.parity = t.parity
Same(s, t) == SameBefore(s, t, "stop") /\ s.stop = t.stop

\* Only no parity and even parity reach uart, and whenever it has two stop bits
\* so has dce_stop_bits.
Values ==
    /\ uart.parity \in {0, 2}
    /\ want.parity \in {0, 2, 8}
    /\ want.stop \in {1, 2}
    /\ uart.stop = 2 => dceStop = 2
    /\ up = "open" => uart.stop # 0

\* Nobody is inside a call on a closed tty; without an overlap one routine at
\* most runs, and none before the device has started.
Alone ==
    /\ up = "closed" => tpc = Out /\ lpc = Out
    /\ ~mixed => tpc = Out \/ lpc = Out
    /\ ~mixed /\ up = "starting" => tpc = Out /\ lpc = Out /\ cflag = InitCflag

\* What softserial_set_termios has done.
Setting ==
    /\ tpc = Out /\ lpc = Out => Agrees(cflag)
    /\ tpc = <<"compare", "speed">> => Agrees(before)
    /\ \A f \in Fields : tpc = <<"read", f>> => SameBefore(want, Translate(cflag), f)
    /\ tpc = <<"enable", "parity">> =>
           /\ SameBefore(want, Translate(cflag), "parity")
           /\ "PARENB" \notin cflag.parity => want.parity = 0
    /\ \A f \in Fields : tpc = <<"set", f>> =>
           Same(want, Translate(cflag)) /\ SameBefore(uart, want, f)

\* What softserial_set_ldisc has done.
Getting ==
    \A f \in Fields :
        /\ lpc = <<"get", f>> => SameBefore(got, uart, f)
        /\ lpc \in {<<"clear", f>>, <<"put", f>>} =>
               /\ SameBefore(got, uart, "stop") /\ got.stop = dceStop
               /\ SameBefore(cflag, Flags(got), f)

TermiosInv ==
    /\ TypeOK /\ Values /\ Alone
    /\ up = "open" /\ ~mixed => Setting /\ Getting

\* softserial_set_termios takes c_cflag for what it asks for, except that odd and
\* mark parity become even parity.
LEMMA TranslateAsked ==
    ASSUME NEW c \in Cflags
    PROVE  /\ Asked(c).speed = Translate(c).speed /\ Asked(c).size = Translate(c).size
           /\ \/ Translate(c).parity = Asked(c).parity
              \/ Asked(c).parity \in {1, 3} /\ Translate(c).parity = 2
           /\ Asked(c).stop = Translate(c).stop
<1>1. CASE "PARENB" \notin c.parity
  BY <1>1 DEF Asked, Translate
<1>2. CASE "PARENB" \in c.parity /\ "CMSPAR" \in c.parity
  BY <1>2 DEF Asked, Translate
<1>3. CASE "PARENB" \in c.parity /\ "CMSPAR" \notin c.parity
  <2>1. c.parity = {"PARENB", "PARODD"} \/ c.parity = {"PARENB"}
    BY <1>3 DEF Cflags
  <2> QED
    BY <1>3, <2>1 DEF Asked, Translate
<1> QED
  BY <1>1, <1>2, <1>3

LEMMA InitTermiosInv == Init => TermiosInv
<1> SUFFICES ASSUME Init PROVE TermiosInv
  OBVIOUS
<1> USE TermiosAssumption
<1>1. InitCflag \in Cflags /\ InitUart \in Settings
  BY DEF InitCflag, InitUart, Cflags, Settings
<1>2. TypeOK
  <2>1. uart \in Settings
    BY DEF Init, Settings
  <2>2. want \in [speed: Speeds, size: 5..8, parity: 0..8, stop: 0..2]
    BY DEF Init, InitUart
  <2>3. tpc \in Steps({"compare", "enable", "read", "set"})
    BY DEF Init, Steps
  <2>4. lpc \in Steps({"get", "clear", "put"})
    BY DEF Init, Steps
  <2>5. mixed \in BOOLEAN
    BY DEF Init
  <2> QED
    BY <1>1, <2>1, <2>2, <2>3, <2>4, <2>5 DEF Init, TypeOK
<1>3. Values /\ Alone
  BY DEF Init, Values, Alone, InitUart
<1> QED
  BY <1>2, <1>3 DEF Init, TermiosInv

\* Each action keeps the invariant.
LEMMA OpenCalledKeeps == TermiosInv /\ OpenCalled => TermiosInv'
<1> SUFFICES ASSUME TermiosInv, OpenCalled PROVE TermiosInv'
  OBVIOUS
<1> USE TermiosAssumption DEF TermiosInv, OpenCalled, tvars, lvars
<1>1. InitCflag \in Cflags
  BY DEF InitCflag, Cflags
<1>2. TypeOK'
  BY <1>1 DEF TypeOK
<1>3. Values' /\ Alone'
  BY DEF Values, Alone
<1> QED
  BY <1>2, <1>3

LEMMA OpenReadyKeeps == TermiosInv /\ OpenReady => TermiosInv'
<1> SUFFICES ASSUME TermiosInv, OpenReady PROVE TermiosInv'
  OBVIOUS
<1> USE TermiosAssumption DEF TermiosInv, OpenReady, tvars, lvars
<1>1. InitUart \in Settings
  BY DEF InitUart, Settings
<1>2. TypeOK'
  <2>1. mixed' \in BOOLEAN
    BY ZenonT(20)
  <2> QED
    BY <1>1, <2>1 DEF TypeOK
<1>3. Values' /\ Alone'
  <2>1. Values'
    BY DEF Values, InitUart
  <2>2. ~mixed' => tpc' = Out /\ lpc' = Out
    OBVIOUS
  <2> QED
    BY <2>1, <2>2 DEF Alone
<1>4. ASSUME ~mixed' PROVE Setting' /\ Getting'
  <2>1. cflag' = InitCflag /\ tpc' = Out /\ lpc' = Out
    BY <1>4 DEF Alone
  <2>2. Agrees(cflag)'
    BY <2>1 DEF Agrees, Asked, InitUart, InitCflag
  <2> QED
    BY <2>1, <2>2 DEF Setting, Getting, Out
<1> QED
  BY <1>2, <1>3, <1>4

LEMMA CloseKeeps == TermiosInv /\ Close => TermiosInv'
<1> SUFFICES ASSUME TermiosInv, Close PROVE TermiosInv'
  OBVIOUS
<1> USE DEF TermiosInv, Close, tvars, lvars
<1>1. TypeOK'
  BY DEF TypeOK
<1>2. Values' /\ Alone'
  BY DEF Values, Alone
<1> QED
  BY <1>1, <1>2

LEMMA SetTermiosKeeps ==
    ASSUME TermiosInv, NEW c \in Requests, SetTermios(c)
    PROVE  TermiosInv'
<1> USE TermiosAssumption DEF TermiosInv, SetTermios, lvars
<1>1. TypeOK'
  <2>1. cflag' \in Cflags /\ before' \in Cflags
    BY DEF TypeOK
  <2>2. want' \in [speed: Speeds, size: 5..8, parity: 0..8, stop: 0..2]
    OBVIOUS
  <2>3. tpc' \in Steps({"compare", "enable", "read", "set"})
    BY DEF Steps, Fields
  <2> QED
    BY <2>1, <2>2, <2>3 DEF TypeOK
<1>2. Values' /\ Alone'
  BY DEF Values, Alone
<1>3. ASSUME up' = "open", ~mixed' PROVE Setting' /\ Getting'
  <2>1. ~mixed /\ lpc = Out /\ tpc = Out /\ before' = cflag
    BY <1>3
  <2>2. Agrees(before)'
    BY <2>1, <1>3 DEF Setting, Agrees, Asked, EvenInstead
  <2> QED
    BY <2>1, <2>2 DEF Setting, Getting, Out
<1> QED
  BY <1>1, <1>2, <1>3

LEMMA CompareKeeps == TermiosInv /\ Compare => TermiosInv'
<1> SUFFICES ASSUME TermiosInv, Compare PROVE TermiosInv'
  OBVIOUS
<1> USE TermiosAssumption DEF TermiosInv, Compare, lvars
<1>1. TypeOK'
  <2>1. InitCflag \in Cflags
    BY DEF InitCflag, Cflags
  <2>2. tpc' \in Steps({"compare", "enable", "read", "set"})
    BY DEF Steps, Fields
  <2>3. mixed' \in BOOLEAN
    BY ZenonT(20) DEF TypeOK
  <2> QED
    BY <2>1, <2>2, <2>3 DEF TypeOK
<1>2. Values' /\ Alone'
  BY DEF Values, Alone, Out
<1>3. ASSUME up' = "open", ~mixed' PROVE Setting' /\ Getting'
  <2>1. CASE SameSettings
    <3>1. ~mixed /\ tpc' = Out /\ lpc' = Out /\ before = cflag /\ lpc = Out
      BY <1>3, <2>1 DEF SameSettings, Alone, Out
    <3>2. Agrees(cflag)'
      BY <3>1, <1>3 DEF Setting, Agrees, Asked, EvenInstead
    <3> QED
      BY <3>1, <3>2 DEF Setting, Getting, Out
  <2>2. CASE ~SameSettings
    <3>1. tpc' = <<"read", "speed">> /\ lpc' = Out
      BY <1>3, <2>2
    <3> QED
      BY <3>1 DEF Setting, Getting, SameBefore, Out
  <2> QED
    BY <2>1, <2>2
<1> QED
  BY <1>1, <1>2, <1>3
\* What softserial_set_termios hands to set_char.
LEMMA TranslateType ==
    ASSUME NEW c \in Cflags
    PROVE  Translate(c) \in [speed: Speeds, size: 5..8, parity: {0, 2}, stop: {1, 2}]
  BY DEF Cflags, Translate

LEMMA ReadCflagKeeps ==
    ASSUME TermiosInv, NEW f \in Fields, ReadCflag(f)
    PROVE  TermiosInv'
<1> USE DEF TermiosInv, ReadCflag, lvars
<1>1. cflag \in Cflags /\ Translate(cflag)' = Translate(cflag)
  BY DEF TypeOK, Translate
<1>2. /\ Translate(cflag).speed \in Speeds /\ Translate(cflag).size \in 5..8
      /\ Translate(cflag).stop \in {1, 2}
  BY <1>1, TranslateType
<1>3. want \in [speed: Speeds, size: 5..8, parity: 0..8, stop: 0..2]
  BY DEF TypeOK
<1>4. Out # <<"read", f>>
  BY DEF Out
<1>5. CASE f = "speed"
  <2>1. /\ tpc = <<"read", "speed">> /\ tpc' = <<"read", "size">>
        /\ want' = [want EXCEPT !.speed = Translate(cflag).speed]
    BY <1>5 DEF Advance
  <2> QED
    BY <1>1, <1>2, <1>3, <1>4, <2>1
       DEF TypeOK, Steps, Values, Alone, Setting, Getting, SameBefore, Fields, Out
<1>6. CASE f = "size"
  <2>1. /\ tpc = <<"read", "size">> /\ tpc' = <<"read", "parity">>
        /\ want' = [want EXCEPT !.size = Translate(cflag).size]
    BY <1>6 DEF Advance
  <2> QED
    BY <1>1, <1>2, <1>3, <1>4, <2>1
       DEF TypeOK, Steps, Values, Alone, Setting, Getting, SameBefore, Fields, Out
<1>7. CASE f = "stop"
  <2>1. /\ tpc = <<"read", "stop">> /\ tpc' = <<"set", "speed">>
        /\ want' = [want EXCEPT !.stop = Translate(cflag).stop]
    BY <1>7 DEF Advance
  <2> QED
    BY <1>1, <1>2, <1>3, <1>4, <2>1
       DEF TypeOK, Steps, Values, Alone, Setting, Getting, SameBefore, Same, Fields, Out
<1> QED
  BY <1>5, <1>6, <1>7 DEF Fields, ReadCflag

LEMMA ReadNoParityKeeps == TermiosInv /\ ReadNoParity => TermiosInv'
<1> SUFFICES ASSUME TermiosInv, ReadNoParity PROVE TermiosInv'
  OBVIOUS
<1> USE DEF TermiosInv, ReadNoParity, lvars
<1>1. Translate(cflag)' = Translate(cflag)
  BY DEF Translate
<1>2. want \in [speed: Speeds, size: 5..8, parity: 0..8, stop: 0..2]
  BY DEF TypeOK
<1> QED
  BY <1>1, <1>2
     DEF TypeOK, Steps, Values, Alone, Setting, Getting, SameBefore, Fields, Out

LEMMA ReadParityKeeps == TermiosInv /\ ReadParity => TermiosInv'
<1> SUFFICES ASSUME TermiosInv, ReadParity PROVE TermiosInv'
  OBVIOUS
<1> USE DEF TermiosInv, ReadParity, lvars
<1>1. Translate(cflag)' = Translate(cflag)
  BY DEF Translate
<1>2. want \in [speed: Speeds, size: 5..8, parity: 0..8, stop: 0..2]
  BY DEF TypeOK
<1>3. Translate(cflag).parity = IF "PARENB" \in cflag.parity THEN 2 ELSE 0
  BY DEF Translate
<1> QED
  BY <1>1, <1>2, <1>3
     DEF TypeOK, Steps, Values, Alone, Setting, Getting, SameBefore, Fields, Out

LEMMA SetCharKeeps ==
    ASSUME TermiosInv, NEW f \in Fields, SetChar(f)
    PROVE  TermiosInv'
<1> USE TermiosAssumption DEF TermiosInv, SetChar, lvars
<1>1. Translate(cflag)' = Translate(cflag)
  BY DEF Translate
<1>2. /\ want \in [speed: Speeds, size: 5..8, parity: 0..8, stop: 0..2]
      /\ uart \in Settings
  BY DEF TypeOK
<1>3. Out # <<"set", f>>
  BY DEF Out
<1>4. CASE f = "speed"
  <2>1. /\ tpc = <<"set", "speed">> /\ tpc' = <<"set", "size">>
        /\ uart' = [uart EXCEPT !.speed = want.speed]
        /\ UNCHANGED <<want, dceStop>>
    BY <1>4 DEF Advance, UartSet, Accepts
  <2> QED
    BY <1>1, <1>2, <1>3, <2>1
       DEF TypeOK, Steps, Values, Alone, Setting, Getting, SameBefore, Same, Fields, Out, Settings
<1>5. CASE f = "size"
  <2>1. /\ tpc = <<"set", "size">> /\ tpc' = <<"set", "parity">>
        /\ uart' = [uart EXCEPT !.size = want.size]
        /\ UNCHANGED <<want, dceStop>>
    BY <1>5 DEF Advance, UartSet, Accepts
  <2> QED
    BY <1>1, <1>2, <1>3, <2>1
       DEF TypeOK, Steps, Values, Alone, Setting, Getting, SameBefore, Same, Fields, Out, Settings
<1>6. CASE f = "parity"
  <2>1. /\ tpc = <<"set", "parity">> /\ tpc' = <<"set", "stop">>
        /\ uart' = [uart EXCEPT !.parity = IF want.parity \in 0..4 THEN want.parity ELSE @]
        /\ UNCHANGED <<want, dceStop>>
    BY <1>6 DEF Advance, UartSet, Accepts
  <2>2. up = "open" /\ ~mixed => want.parity \in {0, 2}
    BY <2>1, TranslateType DEF Setting, Same, SameBefore, TypeOK, Fields
  <2> QED
    BY <1>1, <1>2, <1>3, <2>1, <2>2
       DEF TypeOK, Steps, Values, Alone, Setting, Getting, SameBefore, Same, Fields, Out, Settings
<1>7. CASE f = "stop"
  <2>1. /\ tpc = <<"set", "stop">> /\ tpc' = Out
        /\ uart' = [uart EXCEPT !.stop = want.stop]
        /\ dceStop' = want.stop /\ want' = InitUart
    BY <1>7, <1>2 DEF Advance, UartSet, Accepts
  <2>2. InitUart \in Settings /\ InitUart.parity = 0 /\ InitUart.stop = 1
    BY DEF InitUart, Settings
  <2>3. TypeOK'
    BY <1>2, <2>1, <2>2 DEF TypeOK, Steps, Settings
  <2>4. Values' /\ Alone'
    BY <1>2, <2>1, <2>2, <1>3 DEF Values, Alone, Settings
  <2>5. ASSUME up = "open", ~mixed PROVE Setting' /\ Getting'
    <3>1. /\ Same(want, Translate(cflag)) /\ SameBefore(uart, want, "stop")
          /\ lpc = Out
      BY <2>1, <2>5, <1>3 DEF Setting, Fields, Alone
    <3>2. Agrees(cflag)'
      <4>1. /\ uart'.speed = Translate(cflag).speed /\ uart'.size = Translate(cflag).size
            /\ uart'.parity = Translate(cflag).parity /\ uart'.stop = Translate(cflag).stop
        BY <1>1, <1>2, <2>1, <3>1 DEF Same, SameBefore, Settings
      <4>2. cflag' = cflag /\ cflag \in Cflags
        BY DEF TypeOK
      <4> QED
        BY <4>1, <4>2, TranslateAsked DEF Agrees, EvenInstead
    <3> QED
      BY <2>1, <3>1, <3>2 DEF Setting, Getting, Out
  <2> QED
    BY <2>3, <2>4, <2>5
<1> QED
  BY <1>4, <1>5, <1>6, <1>7 DEF Fields
LEMMA SetLdiscKeeps == TermiosInv /\ SetLdisc => TermiosInv'
<1> SUFFICES ASSUME TermiosInv, SetLdisc PROVE TermiosInv'
  OBVIOUS
<1> USE DEF TermiosInv, SetLdisc, tvars
<1>1. TypeOK'
  <2>1. lpc' \in Steps({"get", "clear", "put"})
    BY DEF Steps, Fields
  <2>2. mixed' \in BOOLEAN
    BY ZenonT(20)
  <2> QED
    BY <2>1, <2>2 DEF TypeOK
<1>2. Values' /\ Alone'
  BY DEF Values, Alone
<1>3. ASSUME up' = "open", ~mixed' PROVE Setting' /\ Getting'
  <2>1. tpc = Out /\ lpc' = <<"get", "speed">>
    BY <1>3
  <2> QED
    BY <2>1 DEF Setting, Getting, SameBefore, Out
<1> QED
  BY <1>1, <1>2, <1>3

LEMMA GetCharKeeps ==
    ASSUME TermiosInv, NEW f \in Fields, GetChar(f)
    PROVE  TermiosInv'
<1> USE DEF TermiosInv, GetChar, tvars
<1>1. got \in Settings /\ uart \in Settings /\ dceStop \in 0..2
  BY DEF TypeOK
<1>2. up = "open" /\ ~mixed => tpc = Out
  BY DEF Alone, Out
<1>3. Out # <<"get", f>>
  BY DEF Out
<1>4. Values'
  BY DEF Values
<1>5. Alone'
  BY <1>3 DEF Alone
<1>6. CASE f = "speed"
  <2>1. /\ lpc = <<"get", "speed">> /\ lpc' = <<"get", "size">>
        /\ got' = [got EXCEPT !.speed = uart.speed]
    BY <1>6 DEF Advance
  <2> QED
    BY <1>1, <1>2, <1>4, <1>5, <2>1
       DEF TypeOK, Steps, Setting, Getting, SameBefore, Fields, Out, Settings
<1>7. CASE f = "size"
  <2>1. /\ lpc = <<"get", "size">> /\ lpc' = <<"get", "parity">>
        /\ got' = [got EXCEPT !.size = uart.size]
    BY <1>7 DEF Advance
  <2> QED
    BY <1>1, <1>2, <1>4, <1>5, <2>1
       DEF TypeOK, Steps, Setting, Getting, SameBefore, Fields, Out, Settings
<1>8. CASE f = "parity"
  <2>1. /\ lpc = <<"get", "parity">> /\ lpc' = <<"get", "stop">>
        /\ got' = [got EXCEPT !.parity = uart.parity]
    BY <1>8 DEF Advance
  <2> QED
    BY <1>1, <1>2, <1>4, <1>5, <2>1
       DEF TypeOK, Steps, Setting, Getting, SameBefore, Fields, Out, Settings
<1>9. CASE f = "stop"
  <2>1. /\ lpc = <<"get", "stop">> /\ lpc' = <<"clear", "speed">>
        /\ got' = [got EXCEPT !.stop = dceStop]
    BY <1>9 DEF Advance
  <2> QED
    BY <1>1, <1>2, <1>4, <1>5, <2>1
       DEF TypeOK, Steps, Setting, Getting, SameBefore, Fields, Out, Settings
<1> QED
  BY <1>6, <1>7, <1>8, <1>9 DEF Fields

LEMMA ClearCflagKeeps ==
    ASSUME TermiosInv, NEW f \in Fields, ClearCflag(f)
    PROVE  TermiosInv'
<1> USE TermiosAssumption DEF TermiosInv, ClearCflag, tvars
<1>1. cflag \in Cflags /\ Flags(got)' = Flags(got)
  BY DEF TypeOK, Flags
<1>2. up = "open" /\ ~mixed => tpc = Out
  BY DEF Alone, Out
<1>3. Out # <<"clear", f>>
  BY DEF Out
<1>4. Values'
  BY DEF Values
<1>5. Alone'
  BY <1>3 DEF Alone
<1>6. \/ f = "speed" /\ cflag' = [cflag EXCEPT !.speed = ClearedFlags.speed]
      \/ f = "size" /\ cflag' = [cflag EXCEPT !.size = ClearedFlags.size]
      \/ f = "parity" /\ cflag' = [cflag EXCEPT !.parity = ClearedFlags.parity]
      \/ f = "stop" /\ cflag' = [cflag EXCEPT !.stop = ClearedFlags.stop]
  BY DEF Fields
<1>7. TypeOK'
  <2>1. ClearedFlags \in Cflags
    BY DEF ClearedFlags, Cflags
  <2>2. cflag' \in Cflags
    BY <1>1, <1>6, <2>1 DEF Cflags
  <2>3. lpc' \in Steps({"get", "clear", "put"})
    BY DEF Steps
  <2> QED
    BY <2>2, <2>3 DEF TypeOK
<1>8. ASSUME up = "open", ~mixed PROVE Setting' /\ Getting'
  <2>1. SameBefore(cflag, Flags(got), f)
    BY <1>8 DEF Getting
  <2>2. SameBefore(cflag', Flags(got), f)
    BY <1>1, <1>6, <2>1 DEF SameBefore, Cflags
  <2> QED
    BY <1>1, <1>2, <1>8, <2>2 DEF Setting, Getting, Out, Fields
<1> QED
  BY <1>4, <1>5, <1>7, <1>8

\* The flags that softserial_set_ldisc finds have a type, and agree with the
\* settings they come from.
LEMMA FlagsType ==
    ASSUME NEW s \in Settings
    PROVE  Flags(s) \in Cflags
<1> USE TermiosAssumption DEF Settings, Flags, Cflags
<1>1. Flags(s).speed \in Speeds /\ Flags(s).size \in 5..8 /\ Flags(s).stop \in BOOLEAN
  OBVIOUS
<1>2. Flags(s).parity \in SUBSET {"PARENB", "PARODD", "CMSPAR"}
  OBVIOUS
<1> QED
  BY <1>1, <1>2

LEMMA PutCflagKeeps ==
    ASSUME TermiosInv, NEW f \in Fields, PutCflag(f)
    PROVE  TermiosInv'
<1> USE TermiosAssumption DEF TermiosInv, PutCflag, tvars
<1>1. cflag \in Cflags /\ got \in Settings /\ Flags(got) \in Cflags
  BY FlagsType DEF TypeOK
<1>2. up = "open" /\ ~mixed => tpc = Out
  BY DEF Alone, Out
<1>3. Out # <<"put", f>>
  BY DEF Out
<1>4. Values'
  BY DEF Values
<1>5. Alone'
  BY <1>3 DEF Alone
<1>6. \/ f = "speed" /\ cflag' = [cflag EXCEPT !.speed = Flags(got).speed]
      \/ f = "size" /\ cflag' = [cflag EXCEPT !.size = Flags(got).size]
      \/ f = "parity" /\ cflag' = [cflag EXCEPT !.parity = Flags(got).parity]
      \/ f = "stop" /\ cflag' = [cflag EXCEPT !.stop = Flags(got).stop]
  BY DEF Fields
<1>7. InitUart \in Settings
  BY DEF InitUart, Settings
<1>8. TypeOK'
  <2>1. cflag' \in Cflags
    BY <1>1, <1>6 DEF Cflags
  <2>2. got' \in Settings
    BY <1>1, <1>7
  <2>3. lpc' \in Steps({"get", "clear", "put"})
    BY DEF Steps, Advance, Fields
  <2> QED
    BY <2>1, <2>2, <2>3 DEF TypeOK
<1>9. ASSUME up = "open", ~mixed PROVE Setting' /\ Getting'
  <2>1. /\ SameBefore(got, uart, "stop") /\ got.stop = dceStop
        /\ SameBefore(cflag, Flags(got), f)
    BY <1>9 DEF Getting
  <2>2. CASE f = "stop"
    <3>1. lpc' = Out /\ cflag' = [cflag EXCEPT !.stop = Flags(got).stop]
      BY <1>6, <2>2 DEF Advance
    <3>2. Same(cflag', Flags(got))
      BY <1>1, <2>1, <2>2, <3>1 DEF Same, SameBefore, Cflags
    <3>3. Agrees(cflag)'
      <4>1. /\ uart.speed = got.speed /\ uart.size = got.size /\ uart.parity = got.parity
            /\ cflag'.speed = Flags(got).speed /\ cflag'.size = Flags(got).size
            /\ cflag'.parity = Flags(got).parity /\ cflag'.stop = Flags(got).stop
        BY <2>1, <3>2 DEF Same, SameBefore
      <4>2. \/ uart.speed = cflag'.speed
            \/ uart.speed \notin KnownSpeeds /\ cflag'.speed = DefaultSpeed
        BY <4>1 DEF Flags
      <4>3. uart.size = cflag'.size
        BY <4>1 DEF Flags
      <4>4. uart.parity = Asked(cflag').parity
        <5>1. CASE got.parity = 0
          <6>1. cflag'.parity = {}
            BY <4>1, <5>1 DEF Flags
          <6> QED
            BY <4>1, <5>1, <6>1 DEF Asked
        <5>2. CASE got.parity = 2
          <6>1. cflag'.parity = {"PARENB"}
            BY <4>1, <5>2 DEF Flags
          <6> QED
            BY <4>1, <5>2, <6>1 DEF Asked
        <5> QED
          BY <4>1, <5>1, <5>2 DEF Values
      <4>5. /\ cflag'.stop = (dceStop = 2)
            /\ uart.stop \in {1, 2} /\ (uart.stop = 2 => dceStop = 2)
        BY <1>1, <1>9, <2>1, <4>1 DEF Flags, Values, TypeOK, Settings
      <4>6. \/ uart.stop = Asked(cflag').stop
            \/ cflag'.stop /\ dceStop = 2 /\ uart.stop = 1
        BY <4>5 DEF Asked
      <4>7. Asked(cflag').speed = cflag'.speed /\ Asked(cflag').size = cflag'.size
        BY DEF Asked
      <4> QED
        BY <4>2, <4>3, <4>4, <4>6, <4>7 DEF Agrees
    <3>4. tpc' = Out
      BY <1>2, <1>9
    <3> QED
      BY <3>1, <3>3, <3>4 DEF Setting, Getting, Out
  <2>3. CASE f # "stop"
    <3>1. PICK g \in Fields : lpc' = <<"clear", g>> /\ SameBefore(cflag', Flags(got), g)
      BY <1>1, <1>6, <2>1, <2>3 DEF Advance, Fields, SameBefore, Cflags
    <3>2. got' = got /\ Flags(got)' = Flags(got)
      BY <2>3 DEF Flags
    <3>3. tpc' = Out /\ UNCHANGED <<uart, dceStop>>
      BY <1>2, <1>9
    <3>4. Setting'
      BY <3>1, <3>3 DEF Setting, Out
    <3>5. Getting'
      BY <2>1, <3>1, <3>2, <3>3 DEF Getting
    <3> QED
      BY <3>4, <3>5
  <2> QED
    BY <2>2, <2>3
<1> QED
  BY <1>4, <1>5, <1>8, <1>9

\* Every step keeps the invariant.
LEMMA NextTermiosInv == TermiosInv /\ [Next]_vars => TermiosInv'
<1> SUFFICES ASSUME TermiosInv, [Next]_vars PROVE TermiosInv'
  OBVIOUS
<1>1. CASE UNCHANGED vars
  BY <1>1 DEF vars, tvars, lvars, TermiosInv, TypeOK, Values, Alone, Setting, Getting,
              Agrees, EvenInstead
<1>2. CASE Next
  BY <1>2, OpenCalledKeeps, OpenReadyKeeps, CloseKeeps, SetTermiosKeeps, CompareKeeps,
     ReadCflagKeeps, ReadNoParityKeeps, ReadParityKeeps, SetCharKeeps, SetLdiscKeeps,
     GetCharKeeps, ClearCflagKeeps, PutCflagKeeps DEF Next
<1> QED
  BY <1>1, <1>2

\* The invariant holds in every reachable state.
THEOREM TermiosInvariance == Spec => []TermiosInv
  BY InitTermiosInv, NextTermiosInv, PTL DEF Spec

\* The settings keep their types; above all, uart never has a parity that
\* UART_parity does not know.
THEOREM TermiosTypeCorrect == Spec => []TypeOK
<1>1. TermiosInv => TypeOK
  BY DEF TermiosInv
<1> QED
  BY <1>1, TermiosInvariance, PTL

\* Whenever no call runs and none overlapped another, uart holds what c_cflag asks
\* for, as Asked reads it, but for the speed and the stop bits that
\* softserial_set_ldisc may leave apart, and for odd and mark parity, which are even
\* in uart (OddComesToEven).
THEOREM SettingsAgree == Spec => []InSync
<1>1. TermiosInv => InSync
  BY DEF TermiosInv, InSync, Setting
<1> QED
  BY <1>1, TermiosInvariance, PTL

\* Whatever processes ask for, and however their calls overlap, uart never has odd,
\* mark or space parity: every request for parity comes to even parity.
OnlyEvenParity == uart.parity \in {0, 2}

\* softserial_set_termios has one test for all of them, PARENB & PARODD, which is 0.
THEOREM ParityIsEven == Spec => []OnlyEvenParity
<1>1. TermiosInv => OnlyEvenParity
  BY DEF TermiosInv, Values, OnlyEvenParity
<1> QED
  BY <1>1, TermiosInvariance, PTL

\* So uart.c:586, "1 - Odd Parity", and the case 1 of softserial_set_ldisc are for
\* nothing: a process that asks for odd or mark parity, with no call overlapping,
\* finds even parity in uart, and its request still in c_cflag.
OddAsEven ==
    up = "open" /\ tpc = Out /\ lpc = Out /\ ~mixed /\ Asked(cflag).parity \in {1, 3}
        => uart.parity = 2

\* The divergence of softserial_set_termios from uart.c:586, for every request.
THEOREM OddComesToEven == Spec => []OddAsEven
<1>1. TermiosInv /\ InSync => OddAsEven
  BY DEF TermiosInv, Values, InSync, Agrees, EvenInstead, OddAsEven
<1> QED
  BY <1>1, TermiosInvariance, SettingsAgree, PTL

\* The settings that uart.c names and c_cflag has flags for.
Documented ==
    {s \in Settings : s.speed \in KnownSpeeds /\ s.parity \in 0..3 /\ s.stop \in {1, 2}}

\* Asked is how softserial_set_ldisc writes: it reads the flags of every setting back
\* as that setting, odd and mark parity included.
THEOREM AskedReadsFlags == \A s \in Documented : Asked(Flags(s)) = s
<1> SUFFICES ASSUME NEW s \in Documented PROVE Asked(Flags(s)) = s
  OBVIOUS
<1> USE DEF Documented, Settings, Asked, Flags
<1>1. Flags(s).speed = s.speed /\ Flags(s).size = s.size
  OBVIOUS
<1>2. Asked(Flags(s)).parity = s.parity
  <2>1. s.parity \in {0, 1, 2, 3}
    OBVIOUS
  <2> QED
    BY <2>1
<1>3. IF Flags(s).stop THEN s.stop = 2 ELSE s.stop = 1
  OBVIOUS
<1> QED
  BY <1>1, <1>2, <1>3

\* The settings that uart can have from a process, but for an unknown speed.
Reachable ==
    {s \in Settings : s.speed \in KnownSpeeds /\ s.parity \in {0, 2} /\ s.stop \in {1, 2}}

\* softserial_set_ldisc and a softserial_set_termios after it are inverse: what the
\* first puts into c_cflag the second reads back as the settings it came from.
THEOREM FlagsReadBack == \A s \in Reachable : Translate(Flags(s)) = s
<1> SUFFICES ASSUME NEW s \in Reachable PROVE Translate(Flags(s)) = s
  OBVIOUS
<1> USE DEF Reachable, Settings, Translate, Flags
<1>1. Flags(s).speed = s.speed /\ Flags(s).size = s.size
  OBVIOUS
<1>2. IF "PARENB" \in Flags(s).parity THEN s.parity = 2 ELSE s.parity = 0
  OBVIOUS
<1>3. IF Flags(s).stop THEN s.stop = 2 ELSE s.stop = 1
  OBVIOUS
<1> QED
  BY <1>1, <1>2, <1>3
=============================================================================
