----------------------------- MODULE Radio_proofs -----------------------------
(***************************************************************************)
(* Proofs about Radio: whatever is called in whatever legal order, and     *)
(* wherever the program is reset, any number of times.                     *)
(*                                                                         *)
(* The invariants of Radio hold between two calls or at every access; what *)
(* makes them inductive is what the accesses left of the call in progress  *)
(* are going to do, so the parts below speak of those.                     *)
(***************************************************************************)
EXTENDS Radio, Functions, SequenceTheorems, TLAPS

Dirs == {"INPUT", "OUTPUT"}
FRFs == {"MSB", "MID", "LSB"}
Measures == {"TEMP", "RCCAL", "RSSI"}

\* Every access a call may contain.
Accesses ==
  ({"OPMODE", "_mode"} \X Modes) \cup ({"TESTPA", "PALEVEL", "attach"} \X BOOLEAN)
    \cup ({"pin"} \X Dirs) \cup ({"FRF"} \X FRFs) \cup ({"data"} \X {0, 1})
    \cup ({"START", "DONE"} \X Measures)
    \cup { << "CONFIG" >>, << "MODEREADY" >>, << "LEVEL" >> }

\* The accesses left, without their order.
Left == Range(todo)

\* The calls OOKTransmit has left in setup, and in loop.
SettingUp ==
  { setup, << "transmitBegin", "setFrequency", "setPowerLevel" >>,
    << "setFrequency", "setPowerLevel" >>, << "setPowerLevel" >> }

Looping ==
  { << >>, << "send0" >>, << "send1", "send0" >>, << "send0", "send1", "send0" >>,
    << "send1", "send0", "send1", "send0" >>,
    << "send0", "send1", "send0", "send1", "send0" >> }

TypeOK ==
  /\ app \in {"OOKTransmit", "transceiver"} /\ hw \in BOOLEAN
  /\ chip \in [ mode : Modes, ready : BOOLEAN, testpa : BOOLEAN,
                frf : SUBSET FRFs, level : BOOLEAN, busy : SUBSET Measures ]
  /\ pin \in [dir : Dirs, high : {0, 1}]
  /\ attached \in BOOLEAN /\ mode \in Modes
  /\ todo \in Seq(Accesses) /\ resets \in Nat
  /\ calls \in IF app = "OOKTransmit" THEN SettingUp \cup Looping
                ELSE { << "initialize" >>, << >> }

\* The program has just started: nothing was called, and what the chip holds
\* may come from before the reset.
Fresh == calls \in { setup, << "initialize" >> }

FreshStart ==
  Fresh => todo = << >> /\ mode = "STANDBY" /\ pin.dir = "INPUT" /\ ~attached

\* Once the accesses left are made, what is `now` will be v: all of those that
\* set it set it to v, and if there is none it is v already.
Will(left, what, now, v) ==
  /\ \A a \in left : a[1] = what => a[2] = v
  /\ (\E a \in left : a[1] = what) \/ now = v

\* A mode of the chip and of the driver, its amplifier, the interrupt and the
\* pin that fit together.
Fits(m, t, a, d) ==
  /\ m = "RX" => ~t
  /\ m = "TX" => (t <=> hw)
  /\ a => m = "RX"
  /\ d = "OUTPUT" => m = "TX"

\* Wherever the call in progress is, its end finds the driver in step.
WillBeInStep ==
  \E m \in Modes, t \in BOOLEAN, a \in BOOLEAN, d \in Dirs :
    /\ Fits(m, t, a, d)
    /\ Will(Left, "OPMODE", chip.mode, m) /\ Will(Left, "_mode", mode, m)
    /\ Will(Left, "TESTPA", chip.testpa, t) /\ Will(Left, "attach", attached, a)
    /\ Will(Left, "pin", pin.dir, d)

\* The high power registers are written when there is an amplifier only.
OnlyHW ==
  /\ chip.testpa => hw
  /\ << "TESTPA", TRUE >> \in Left => hw

\* A call that drives the pin does it last, when it has nothing left that
\* could interfere ...
DrivesLast ==
  << "pin", "OUTPUT" >> \in Left =>
    /\ \A i \in 1 .. Len(todo) : todo[i] = << "pin", "OUTPUT" >> => i = Len(todo)
    /\ ~attached \/ << "attach", FALSE >> \in Left
    /\ chip.mode # "RX" \/ << "OPMODE", "TX" >> \in Left
    /\ << "attach", TRUE >> \notin Left /\ << "OPMODE", "RX" >> \notin Left

\* ... and a call that interferes releases the pin first.
ReleasesFirst ==
  << "attach", TRUE >> \in Left \/ << "OPMODE", "RX" >> \in Left =>
    pin.dir = "INPUT" \/ Head(todo) = << "pin", "INPUT" >>

\* The frequency is complete when the power is set, and both are before
\* anything is sent.
TunedWhenSending ==
  app = "OOKTransmit" =>
    /\ pin.high = 1 \/ << "data", 1 >> \in Left => chip.frf = FRFs /\ chip.level
    /\ calls = << "setPowerLevel" >> =>
         \A r \in FRFs : r \in chip.frf \/ << "FRF", r >> \in Left
    /\ calls \in Looping => chip.frf = FRFs /\ (chip.level \/ << "LEVEL" >> \in Left)

IInv ==
  /\ TypeOK /\ FreshStart /\ (Fresh \/ WillBeInStep) /\ OnlyHW
  /\ PinSafe /\ DrivesLast /\ ReleasesFirst /\ TunedWhenSending

USE MaxResetsAssumption

-----------------------------------------------------------------------------
(* Sequences of accesses *)

\* The first of the accesses left is made, the others are left.
LEMMA MakingTheFirst ==
  ASSUME TypeOK, todo # << >>
  PROVE  /\ Head(todo) \in Accesses /\ Tail(todo) \in Seq(Accesses)
         /\ Head(todo) = todo[1]
         /\ Left = {Head(todo)} \cup Range(Tail(todo))
  <1>1. todo \in Seq(Accesses)
    BY DEF TypeOK
  <1> HIDE DEF Accesses
  <1>2. Head(todo) \in Accesses /\ Tail(todo) \in Seq(Accesses) /\ Head(todo) = todo[1]
    BY <1>1
  <1>3. /\ Range(todo) = { todo[i] : i \in 1 .. Len(todo) }
        /\ Range(Tail(todo)) = { Tail(todo)[i] : i \in 1 .. Len(Tail(todo)) }
    BY <1>1, <1>2, RangeEquality
  <1>4. /\ Len(todo) \in Nat \ {0} /\ Len(Tail(todo)) = Len(todo) - 1
        /\ \A i \in 1 .. Len(todo) - 1 : Tail(todo)[i] = todo[i + 1]
    BY <1>1
  <1>5. ASSUME NEW a PROVE a \in Range(todo) <=> a = todo[1] \/ a \in Range(Tail(todo))
    <2>1. ASSUME NEW i \in 1 .. Len(todo), a = todo[i], i # 1
          PROVE  i - 1 \in 1 .. Len(Tail(todo)) /\ Tail(todo)[i - 1] = a
      BY <1>4, <2>1
    <2>2. 1 \in 1 .. Len(todo)
      BY <1>4
    <2>3. ASSUME NEW i \in 1 .. Len(Tail(todo)), a = Tail(todo)[i]
          PROVE  i + 1 \in 1 .. Len(todo) /\ todo[i + 1] = a
      BY <1>4, <2>3
    <2>4. QED
      BY <1>3, <2>1, <2>2, <2>3
  <1>6. QED
    BY <1>2, <1>5 DEF Left

\* What will be is not changed by making the first access.
LEMMA WillRemains ==
  ASSUME NEW first, NEW rest, NEW what, NEW now, NEW next, NEW v,
         Will({first} \cup rest, what, now, v),
         next = IF first[1] = what THEN first[2] ELSE now
  PROVE  Will(rest, what, next, v)
  BY DEF Will

LEMMA NothingLeft == Range(<< >>) = {}
  BY DEF Range

-----------------------------------------------------------------------------
(* What an access does *)

\* An access makes the first of the accesses left and sets what it names.
LEMMA AccessEffect ==
  ASSUME TypeOK, Access
  PROVE  /\ todo # << >> /\ todo' = Tail(todo) /\ UNCHANGED << app, hw, calls, resets >>
         /\ chip'.mode = IF Head(todo)[1] = "OPMODE" THEN Head(todo)[2] ELSE chip.mode
         /\ chip'.testpa = IF Head(todo)[1] = "TESTPA" THEN Head(todo)[2] ELSE chip.testpa
         /\ chip'.frf = IF Head(todo)[1] = "FRF" THEN chip.frf \cup {Head(todo)[2]}
                                                 ELSE chip.frf
         /\ chip'.level = (chip.level \/ Head(todo)[1] = "LEVEL")
         /\ pin'.dir = IF Head(todo)[1] = "pin" THEN Head(todo)[2] ELSE pin.dir
         /\ pin'.high = IF Head(todo)[1] = "data" THEN Head(todo)[2] ELSE pin.high
         /\ attached' = IF Head(todo)[1] = "attach" THEN Head(todo)[2] ELSE attached
         /\ mode' = IF Head(todo)[1] = "_mode" THEN Head(todo)[2] ELSE mode
  <1> USE DEF TypeOK, Doing, Arg, Done
  <1>1. CASE writeOPMODE
    BY <1>1 DEF writeOPMODE
  <1>2. CASE writeReg
    BY <1>2 DEF writeReg
  <1>3. CASE readFlag
    BY <1>3 DEF readFlag
  <1>4. CASE setPin
    BY <1>4 DEF setPin
  <1>5. CASE attachInterrupt
    BY <1>5 DEF attachInterrupt
  <1>6. CASE storeMode
    BY <1>6 DEF storeMode
  <1>7. QED
    BY <1>1, <1>2, <1>3, <1>4, <1>5, <1>6 DEF Access

\* What an access of each kind sets it to.
LEMMA AccessTypes ==
  ASSUME NEW a \in Accesses
  PROVE  /\ a[1] \in {"OPMODE", "_mode"} => a[2] \in Modes
         /\ a[1] \in {"TESTPA", "attach"} => a[2] \in BOOLEAN
         /\ a[1] = "pin" => a[2] \in Dirs
         /\ a[1] = "FRF" => a[2] \in FRFs
         /\ a[1] = "data" => a[2] \in {0, 1}
         /\ a[1] = "START" => a[2] \in Measures
         /\ a[1] \in {"OPMODE", "_mode", "TESTPA", "attach", "pin", "FRF", "data"}
              => a = << a[1], a[2] >>
         /\ a[1] = "LEVEL" => a = << "LEVEL" >>
  BY DEF Accesses, Modes, Dirs, FRFs, Measures

LEMMA AccessTypeOK ==
  ASSUME TypeOK, Access
  PROVE  TypeOK'
  <1>1. Head(todo) \in Accesses /\ todo' \in Seq(Accesses)
    BY AccessEffect, MakingTheFirst
  <1> USE DEF TypeOK, Doing, Arg, Done
  <1> HIDE DEF Accesses
  <1>2. CASE writeOPMODE
    BY <1>1, <1>2, AccessTypes DEF writeOPMODE
  <1>3. CASE writeReg
    <2>1. todo # << >> /\ UNCHANGED << pin, attached, mode >> /\ Done
      BY <1>3 DEF writeReg
    <2>2. chip' \in [ mode : Modes, ready : BOOLEAN, testpa : BOOLEAN,
                     frf : SUBSET FRFs, level : BOOLEAN, busy : SUBSET Measures ]
      <3>1. CASE Doing("TESTPA") /\ chip' = [chip EXCEPT !.testpa = Arg]
        BY <1>1, <3>1, AccessTypes
      <3>2. CASE Doing("FRF") /\ chip' = [chip EXCEPT !.frf = @ \cup {Arg}]
        BY <1>1, <3>2, AccessTypes
      <3>3. CASE Doing("LEVEL") /\ chip' = [chip EXCEPT !.level = TRUE]
        BY <3>3
      <3>4. CASE Doing("START") /\ chip' = [chip EXCEPT !.busy = @ \cup {Arg}]
        BY <1>1, <3>4, AccessTypes
      <3>5. QED
        BY <1>3, <3>1, <3>2, <3>3, <3>4 DEF writeReg
    <2>3. QED
      BY <1>1, <2>1, <2>2
  <1>4. CASE readFlag
    BY <1>1, <1>4 DEF readFlag
  <1>5. CASE setPin
    BY <1>1, <1>5, AccessTypes DEF setPin
  <1>6. CASE attachInterrupt
    BY <1>1, <1>6, AccessTypes DEF attachInterrupt
  <1>7. CASE storeMode
    BY <1>1, <1>7, AccessTypes DEF storeMode
  <1>8. QED
    BY <1>2, <1>3, <1>4, <1>5, <1>6, <1>7 DEF Access

-----------------------------------------------------------------------------
(* What a call consists of *)

\* The accesses of setMode, in whatever order.
SetModeParts(m) ==
  IF m = mode THEN {}
  ELSE { << "OPMODE", m >>, << "_mode", m >> }
         \cup (IF hw /\ m \in {"TX", "RX"} THEN { << "TESTPA", m = "TX" >> } ELSE {})
         \cup (IF mode = "SLEEP" THEN { << "MODEREADY" >> } ELSE {})

LEMMA IsAccess ==
  /\ \A m \in Modes : << "OPMODE", m >> \in Accesses /\ << "_mode", m >> \in Accesses
  /\ \A b \in BOOLEAN : /\ << "TESTPA", b >> \in Accesses /\ << "attach", b >> \in Accesses
                       /\ << "PALEVEL", b >> \in Accesses
  /\ \A d \in Dirs : << "pin", d >> \in Accesses
  /\ \A r \in FRFs : << "FRF", r >> \in Accesses
  /\ \A b \in {0, 1} : << "data", b >> \in Accesses
  /\ \A m \in Measures : << "START", m >> \in Accesses /\ << "DONE", m >> \in Accesses
  /\ << "CONFIG" >> \in Accesses /\ << "MODEREADY" >> \in Accesses
  /\ << "LEVEL" >> \in Accesses
  BY DEF Accesses

LEMMA OneAccess ==
  ASSUME NEW a \in Accesses
  PROVE  << a >> \in Seq(Accesses) /\ Range(<< a >>) = {a}
  <1> HIDE DEF Accesses
  <1>1. QED
    BY DEF Range

LEMMA NoAccess == << >> \in Seq(Accesses) /\ Range(<< >>) = {}
  BY DEF Range

LEMMA Joined ==
  ASSUME NEW s \in Seq(Accesses), NEW t \in Seq(Accesses)
  PROVE  s \o t \in Seq(Accesses) /\ Range(s \o t) = Range(s) \cup Range(t)
  BY ConcatProperties, RangeConcatenation

LEMMA SetModeContents ==
  ASSUME TypeOK, NEW m \in Modes
  PROVE  setMode(m) \in Seq(Accesses) /\ Range(setMode(m)) = SetModeParts(m)
  <1> DEFINE o == << << "OPMODE", m >> >>
             t == IF hw /\ m \in {"TX", "RX"} THEN << << "TESTPA", m = "TX" >> >> ELSE << >>
             r == IF mode = "SLEEP" THEN << << "MODEREADY" >> >> ELSE << >>
             e == << << "_mode", m >> >>
             T == IF hw /\ m \in {"TX", "RX"} THEN { << "TESTPA", m = "TX" >> } ELSE {}
             R == IF mode = "SLEEP" THEN { << "MODEREADY" >> } ELSE {}
  <1>1. o \in Seq(Accesses) /\ Range(o) = { << "OPMODE", m >> }
    BY IsAccess, OneAccess
  <1>2. t \in Seq(Accesses) /\ Range(t) = T
    <2>1. (m = "TX") \in BOOLEAN
      OBVIOUS
    <2>2. << "TESTPA", m = "TX" >> \in Accesses
      BY <2>1, IsAccess
    <2>3. QED
      BY <2>2, OneAccess, NoAccess
  <1>3. r \in Seq(Accesses) /\ Range(r) = R
    BY IsAccess, OneAccess, NoAccess
  <1>4. e \in Seq(Accesses) /\ Range(e) = { << "_mode", m >> }
    BY IsAccess, OneAccess
  <1>5. setMode(m) = IF m = mode THEN << >> ELSE o \o t \o r \o e
    BY DEF setMode
  <1>6. SetModeParts(m) = IF m = mode THEN {}
                          ELSE { << "OPMODE", m >>, << "_mode", m >> } \cup T \cup R
    BY DEF SetModeParts
  <1> HIDE DEF o, t, r, e, T, R, Accesses
  <1>7. o \o t \in Seq(Accesses) /\ Range(o \o t) = Range(o) \cup Range(t)
    BY <1>1, <1>2, Joined
  <1>8. /\ o \o t \o r \in Seq(Accesses)
        /\ Range(o \o t \o r) = Range(o \o t) \cup Range(r)
    BY <1>3, <1>7, Joined
  <1>9. /\ o \o t \o r \o e \in Seq(Accesses)
        /\ Range(o \o t \o r \o e) = Range(o \o t \o r) \cup Range(e)
    BY <1>4, <1>8, Joined
  <1>10. QED
    BY <1>1, <1>2, <1>3, <1>4, <1>5, <1>6, <1>7, <1>8, <1>9, NoAccess

\* What the calls add to setMode, in whatever order.
CallParts(name) ==
  CASE name = "initialize" ->
         { << "OPMODE", "STANDBY" >>, << "CONFIG" >>, << "PALEVEL", hw >>, << "MODEREADY" >> }
           \cup SetModeParts("STANDBY")
    [] name = "transmitBegin" ->
         SetModeParts("TX") \cup { << "attach", FALSE >>, << "pin", "OUTPUT" >> }
    [] name = "transmitEnd" -> { << "pin", "INPUT" >> } \cup SetModeParts("STANDBY")
    [] name = "receiveBegin" ->
         { << "pin", "INPUT" >>, << "attach", TRUE >> } \cup SetModeParts("RX")
    [] name = "receiveEnd" -> SetModeParts("STANDBY") \cup { << "attach", FALSE >> }
    [] name = "sleep" -> SetModeParts("SLEEP")
    [] name = "setFrequency" -> { << "FRF", "MSB" >>, << "FRF", "MID" >>, << "FRF", "LSB" >> }
    [] name = "setPowerLevel" -> { << "LEVEL" >> }
    [] name = "readTemperature" ->
         SetModeParts("STANDBY") \cup { << "START", "TEMP" >>, << "DONE", "TEMP" >> }
    [] name = "rcCalibration" -> { << "START", "RCCAL" >>, << "DONE", "RCCAL" >> }
    [] name = "readRSSI" -> { << "START", "RSSI" >>, << "DONE", "RSSI" >> }
    [] name = "settings" -> { << "CONFIG" >> }
    [] name = "send1" -> { << "data", 1 >> }
    [] name = "send0" -> { << "data", 0 >> }

Names ==
  { "initialize", "transmitBegin", "transmitEnd", "receiveBegin", "receiveEnd", "sleep",
    "setFrequency", "setPowerLevel", "readTemperature", "rcCalibration", "readRSSI",
    "settings", "send1", "send0" }

LEMMA TwoAccesses ==
  ASSUME NEW a \in Accesses, NEW b \in Accesses
  PROVE  << a, b >> \in Seq(Accesses) /\ Range(<< a, b >>) = {a, b}
  <1> HIDE DEF Accesses
  <1>1. QED
    BY DEF Range

LEMMA ThreeAccesses ==
  ASSUME NEW a \in Accesses, NEW b \in Accesses, NEW c \in Accesses
  PROVE  << a, b, c >> \in Seq(Accesses) /\ Range(<< a, b, c >>) = {a, b, c}
  <1> HIDE DEF Accesses
  <1>1. QED
    BY DEF Range

LEMMA CallContents ==
  ASSUME TypeOK, NEW name \in Names
  PROVE  CallOf(name) \in Seq(Accesses) /\ Range(CallOf(name)) = CallParts(name)
  <1> USE DEF CallOf, CallParts
  <1> HIDE DEF Accesses
  <1> DEFINE OK(s, S) == s \in Seq(Accesses) /\ Range(s) = S
  <1>m. \A m \in {"STANDBY", "TX", "RX", "SLEEP"} : OK(setMode(m), SetModeParts(m))
    BY SetModeContents DEF Modes
  <1>1. CASE name = "initialize"
    <2>1. << "OPMODE", "STANDBY" >> \in Accesses /\ << "CONFIG" >> \in Accesses
          /\ << "PALEVEL", hw >> \in Accesses /\ << "MODEREADY" >> \in Accesses
      BY IsAccess DEF Modes, TypeOK
    <2> DEFINE first == << << "OPMODE", "STANDBY" >>, << "CONFIG" >>, << "PALEVEL", hw >> >>
    <2>2. OK(first, { << "OPMODE", "STANDBY" >>, << "CONFIG" >>, << "PALEVEL", hw >> })
      BY <2>1, ThreeAccesses
    <2>3. OK(<< << "MODEREADY" >> >>, { << "MODEREADY" >> })
      BY <2>1, OneAccess
    <2>4. initialize = first \o setMode("STANDBY") \o << << "MODEREADY" >> >>
      BY DEF initialize
    <2> HIDE DEF first
    <2>5. OK(first \o setMode("STANDBY"), Range(first) \cup SetModeParts("STANDBY"))
      BY <1>m, <2>2, Joined
    <2>6. OK(initialize, Range(first) \cup SetModeParts("STANDBY") \cup { << "MODEREADY" >> })
      BY <2>3, <2>4, <2>5, Joined
    <2>7. CallParts(name) = Range(first) \cup SetModeParts("STANDBY") \cup { << "MODEREADY" >> }
      BY <1>1, <2>2
    <2>8. QED
      BY <1>1, <2>6, <2>7
  <1>2. CASE name = "transmitBegin"
    <2>1. << "attach", FALSE >> \in Accesses /\ << "pin", "OUTPUT" >> \in Accesses
      BY IsAccess DEF Modes, Dirs, Measures
    <2>2. OK(<< << "attach", FALSE >>, << "pin", "OUTPUT" >> >>, { << "attach", FALSE >>, << "pin", "OUTPUT" >> })
      BY <2>1, TwoAccesses
    <2>3. OK(transmitBegin, SetModeParts("TX")
                              \cup { << "attach", FALSE >>, << "pin", "OUTPUT" >> })
      BY <1>m, <2>2, Joined, ZenonT(40) DEF transmitBegin
    <2>4. QED
      BY <1>2, <2>3
  <1>3. CASE name = "transmitEnd"
    <2>1. OK(<< << "pin", "INPUT" >> >>, { << "pin", "INPUT" >> })
      BY IsAccess, OneAccess DEF Dirs
    <2>2. OK(transmitEnd, { << "pin", "INPUT" >> } \cup SetModeParts("STANDBY"))
      BY <1>m, <2>1, Joined DEF transmitEnd
    <2>3. QED
      BY <1>3, <2>2
  <1>4. CASE name = "receiveBegin"
    <2>1. << "pin", "INPUT" >> \in Accesses /\ << "attach", TRUE >> \in Accesses
      BY IsAccess DEF Modes, Dirs, Measures
    <2>2. OK(<< << "pin", "INPUT" >>, << "attach", TRUE >> >>, { << "pin", "INPUT" >>, << "attach", TRUE >> })
      BY <2>1, TwoAccesses
    <2>3. OK(receiveBegin, { << "pin", "INPUT" >>, << "attach", TRUE >> }
                             \cup SetModeParts("RX"))
      BY <1>m, <2>2, Joined DEF receiveBegin
    <2>4. QED
      BY <1>4, <2>3
  <1>5. CASE name = "receiveEnd"
    <2>1. OK(<< << "attach", FALSE >> >>, { << "attach", FALSE >> })
      BY IsAccess, OneAccess
    <2>2. OK(receiveEnd, SetModeParts("STANDBY") \cup { << "attach", FALSE >> })
      BY <1>m, <2>1, Joined, ZenonT(40) DEF receiveEnd
    <2>3. QED
      BY <1>5, <2>2
  <1>6. CASE name = "sleep"
    BY <1>m, <1>6 DEF sleep
  <1>7. CASE name = "setFrequency"
    <2>1. << "FRF", "MSB" >> \in Accesses /\ << "FRF", "MID" >> \in Accesses
          /\ << "FRF", "LSB" >> \in Accesses
      BY IsAccess DEF FRFs
    <2>2. QED
      BY <1>7, <2>1, ThreeAccesses DEF setFrequency
  <1>8. CASE name = "setPowerLevel"
    BY <1>8, IsAccess, OneAccess DEF setPowerLevel
  <1>9. CASE name = "readTemperature"
    <2>1. << "START", "TEMP" >> \in Accesses /\ << "DONE", "TEMP" >> \in Accesses
      BY IsAccess DEF Modes, Dirs, Measures
    <2>2. OK(<< << "START", "TEMP" >>, << "DONE", "TEMP" >> >>, { << "START", "TEMP" >>, << "DONE", "TEMP" >> })
      BY <2>1, TwoAccesses
    <2>3. OK(readTemperature, SetModeParts("STANDBY")
                                \cup { << "START", "TEMP" >>, << "DONE", "TEMP" >> })
      BY <1>m, <2>2, Joined, ZenonT(40) DEF readTemperature
    <2>4. QED
      BY <1>9, <2>3
  <1>10. CASE name = "rcCalibration"
    <2>1. << "START", "RCCAL" >> \in Accesses /\ << "DONE", "RCCAL" >> \in Accesses
      BY IsAccess DEF Modes, Dirs, Measures
    <2>2. OK(<< << "START", "RCCAL" >>, << "DONE", "RCCAL" >> >>, { << "START", "RCCAL" >>, << "DONE", "RCCAL" >> })
      BY <2>1, TwoAccesses
    <2>3. QED
      BY <1>10, <2>2 DEF rcCalibration
  <1>11. CASE name = "readRSSI"
    <2>1. << "START", "RSSI" >> \in Accesses /\ << "DONE", "RSSI" >> \in Accesses
      BY IsAccess DEF Modes, Dirs, Measures
    <2>2. OK(<< << "START", "RSSI" >>, << "DONE", "RSSI" >> >>, { << "START", "RSSI" >>, << "DONE", "RSSI" >> })
      BY <2>1, TwoAccesses
    <2>3. QED
      BY <1>11, <2>2 DEF readRSSI
  <1>12. CASE name = "settings"
    BY <1>12, IsAccess, OneAccess DEF settings
  <1>13. CASE name = "send1"
    <2>1. << "data", 1 >> \in Accesses
      BY IsAccess
    <2>2. QED
      BY <1>13, <2>1, OneAccess DEF send
  <1>14. CASE name = "send0"
    <2>1. << "data", 0 >> \in Accesses
      BY IsAccess
    <2>2. QED
      BY <1>14, <2>1, OneAccess DEF send
  <1>15. QED
    BY <1>1, <1>2, <1>3, <1>4, <1>5, <1>6, <1>7, <1>8, <1>9, <1>10, <1>11, <1>12, <1>13, <1>14 DEF Names

-----------------------------------------------------------------------------
(* What may be called *)

\* The calls that may be made in the middle of a transmission or a reception;
\* the others are for one mode only.
AtAnyTime ==
  { "transmitBegin", "receiveBegin", "settings", "setFrequency", "setPowerLevel",
    "send1", "send0" }

MayCall(name) ==
  \/ name \in AtAnyTime
  \/ name = "transmitEnd" /\ mode = "TX"
  \/ name \in {"receiveEnd", "readRSSI"} /\ mode = "RX"
  \/ name \in {"sleep", "readTemperature", "initialize", "rcCalibration"}
     /\ mode \notin {"TX", "RX"}

\* Which call comes next, and what is left then.
LEMMA NextCalls ==
  /\ Head(setup) = "initialize"
       /\ Tail(setup) = << "transmitBegin", "setFrequency", "setPowerLevel" >>
  /\ Head(<< "transmitBegin", "setFrequency", "setPowerLevel" >>) = "transmitBegin"
       /\ Tail(<< "transmitBegin", "setFrequency", "setPowerLevel" >>) = << "setFrequency", "setPowerLevel" >>
  /\ Head(<< "setFrequency", "setPowerLevel" >>) = "setFrequency"
       /\ Tail(<< "setFrequency", "setPowerLevel" >>) = << "setPowerLevel" >>
  /\ Head(<< "setPowerLevel" >>) = "setPowerLevel"
       /\ Tail(<< "setPowerLevel" >>) = << >>
  /\ Head(<< "send0" >>) = "send0"
       /\ Tail(<< "send0" >>) = << >>
  /\ Head(<< "send1", "send0" >>) = "send1"
       /\ Tail(<< "send1", "send0" >>) = << "send0" >>
  /\ Head(<< "send0", "send1", "send0" >>) = "send0"
       /\ Tail(<< "send0", "send1", "send0" >>) = << "send1", "send0" >>
  /\ Head(<< "send1", "send0", "send1", "send0" >>) = "send1"
       /\ Tail(<< "send1", "send0", "send1", "send0" >>) = << "send0", "send1", "send0" >>
  /\ Head(<< "send0", "send1", "send0", "send1", "send0" >>) = "send0"
       /\ Tail(<< "send0", "send1", "send0", "send1", "send0" >>) = << "send1", "send0", "send1", "send0" >>
  BY DEF setup

LEMMA SettingUpIs ==
  ASSUME NEW c \in SettingUp
  PROVE  /\ c # << >> /\ Head(c) \in {"initialize", "transmitBegin", "setFrequency", "setPowerLevel"}
         /\ c = setup <=> Head(c) = "initialize"
         /\ c = << "setPowerLevel" >> <=> Head(c) = "setPowerLevel"
         /\ IF c = << "setPowerLevel" >> THEN Tail(c) = << >> ELSE Tail(c) \in SettingUp
         /\ Tail(c) # setup
         /\ Tail(c) = << "setPowerLevel" >> => Head(c) = "setFrequency"
  <1> DEFINE c1 == << "transmitBegin", "setFrequency", "setPowerLevel" >>
             c2 == << "setFrequency", "setPowerLevel" >>
             c3 == << "setPowerLevel" >>
  <1>1. c = setup \/ c = c1 \/ c = c2 \/ c = c3
    BY DEF SettingUp
  <1>2. setup # << >> /\ c1 # << >> /\ c2 # << >> /\ c3 # << >>
    BY DEF setup
  <1>3. /\ Head(setup) = "initialize" /\ Head(c1) = "transmitBegin"
        /\ Head(c2) = "setFrequency" /\ Head(c3) = "setPowerLevel"
        /\ Tail(setup) = c1 /\ Tail(c1) = c2 /\ Tail(c2) = c3 /\ Tail(c3) = << >>
    BY NextCalls
  <1>4. setup \in SettingUp /\ c1 \in SettingUp /\ c2 \in SettingUp /\ c3 \in SettingUp
    BY DEF SettingUp
  <1> HIDE DEF c1, c2
  <1>5. QED
    BY <1>1, <1>2, <1>3, <1>4

LEMMA LoopingIs ==
  ASSUME NEW c \in Looping, c # << >>
  PROVE  Head(c) \in {"send1", "send0"} /\ Tail(c) \in Looping
  BY NextCalls DEF Looping

LEMMA SettingUpNotLooping ==
  ASSUME NEW c \in SettingUp PROVE c \notin Looping
  <1>1. c # << >> /\ Head(c) \notin {"send1", "send0"}
    BY SettingUpIs
  <1>2. QED
    BY <1>1, LoopingIs

LEMMA LoopingNotStart == setup \notin Looping /\ << "initialize" >> \notin Looping
  <1>1. Head(<< "initialize" >>) = "initialize" /\ << "initialize" >> # << >>
    OBVIOUS
  <1>2. setup \in SettingUp
    BY DEF SettingUp
  <1>3. QED
    BY <1>1, <1>2, LoopingIs, SettingUpNotLooping

LEMMA LoopStarts ==
  Head(loop) = "send1" /\ Tail(loop) \in Looping /\ << >> \in Looping
  BY DEF Looping, loop

LEMMA FreshCalls ==
  ASSUME TypeOK
  PROVE  /\ app = "OOKTransmit" => (Fresh <=> calls = setup)
         /\ app # "OOKTransmit" => (Fresh <=> calls # << >>)
  <1>1. CASE app = "OOKTransmit"
    <2>1. Head(<< "initialize" >>) = "initialize"
      OBVIOUS
    <2>2. Len(setup) = 4 /\ Len(<< "initialize" >>) = 1
      BY DEF setup
    <2>3. << "initialize" >> \notin SettingUp
      BY <2>1, <2>2, SettingUpIs, SMTT(30)
    <2>4. QED
      BY <1>1, <2>3, LoopingNotStart DEF TypeOK, Fresh
  <1>2. CASE app # "OOKTransmit"
    <2>1. setup # << >> /\ << "initialize" >> # << >>
      BY DEF setup
    <2>2. calls = << "initialize" >> \/ calls = << >>
      BY <1>2 DEF TypeOK
    <2>3. QED
      BY <1>2, <2>1, <2>2 DEF Fresh
  <1>3. QED
    BY <1>1, <1>2

\* A call that is made is the first one, or it may be made in the mode the
\* driver is in.
LEMMA CallNames ==
  ASSUME TypeOK, FreshStart, Call
  PROVE  /\ todo = << >> /\ UNCHANGED << app, hw, chip, pin, attached, mode, resets >>
         /\ ~Fresh'
         /\ \E name \in Names : /\ todo' = CallOf(name)
                                /\ IF Fresh THEN name = "initialize" ELSE MayCall(name)
  <1>1. todo = << >> /\ UNCHANGED << app, hw, chip, pin, attached, mode, resets >>
    BY DEF Call
  <1>2. CASE app = "OOKTransmit" /\ calls # << >>
    <2>1. calls \in SettingUp \cup Looping /\ todo' = CallOf(Head(calls)) /\ calls' = Tail(calls)
      BY <1>2 DEF Call, TypeOK
    <2>2. CASE calls \in SettingUp
      <3>1. Tail(calls) # setup /\ Tail(calls) # << "initialize" >>
        <4>1. Len(<< "initialize" >>) = 1 /\ Head(<< "initialize" >>) = "initialize"
              /\ setup # << "initialize" >> /\ << >> # << "initialize" >>
          BY DEF setup
        <4>2. QED
          BY <2>2, <4>1, SettingUpIs
      <3>2. Head(calls) \in Names /\ (~Fresh => Head(calls) \in AtAnyTime)
            /\ (Fresh => Head(calls) = "initialize")
        BY <1>2, <2>2, SettingUpIs, FreshCalls DEF Names, AtAnyTime
      <3>3. QED
        BY <1>1, <2>1, <3>1, <3>2 DEF Fresh, MayCall
    <2>3. CASE calls \in Looping
      <3>1. Head(calls) \in {"send1", "send0"} /\ Tail(calls) \in Looping
        BY <1>2, <2>3, LoopingIs
      <3>2. QED
        BY <1>1, <2>1, <2>3, <3>1, LoopingNotStart DEF Fresh, MayCall, Names, AtAnyTime
    <2>4. QED
      BY <2>1, <2>2, <2>3
  <1>3. CASE app = "OOKTransmit" /\ calls = << >>
    <2>1. todo' = CallOf("send1") /\ calls' = Tail(loop)
      BY <1>3, LoopStarts DEF Call
    <2>2. ~Fresh /\ ~Fresh'
      BY <1>3, <2>1, LoopingNotStart, LoopStarts DEF Fresh
    <2>3. QED
      BY <1>1, <2>1, <2>2 DEF MayCall, Names, AtAnyTime
  <1>4. CASE app # "OOKTransmit" /\ calls # << >>
    <2>1. calls = << "initialize" >>
      BY <1>4 DEF TypeOK
    <2>2. Head(<< "initialize" >>) = "initialize" /\ Tail(<< "initialize" >>) = << >>
          /\ << >> # << "initialize" >> /\ << >> # setup
      BY DEF setup
    <2>3. QED
      BY <1>1, <1>4, <2>1, <2>2 DEF Call, Fresh, Names
  <1>5. CASE app # "OOKTransmit" /\ calls = << >>
    <2>1. PICK name \in Legal : todo' = CallOf(name) /\ calls' = << >>
      BY <1>5 DEF Call
    <2>2. name \in Names /\ MayCall(name)
      BY <2>1 DEF Legal, Names, MayCall, AtAnyTime
    <2>3. << >> # setup /\ << >> # << "initialize" >>
      BY DEF setup
    <2>4. QED
      BY <1>1, <1>5, <2>1, <2>2, <2>3 DEF Fresh
  <1>6. QED
    BY <1>2, <1>3, <1>4, <1>5

-----------------------------------------------------------------------------
(* A call is made *)

\* Between two calls the driver is in step.
LEMMA NowInStep ==
  ASSUME TypeOK, WillBeInStep, todo = << >>
  PROVE  chip.mode = mode /\ Fits(mode, chip.testpa, attached, pin.dir)
  <1>1. Left = {}
    BY NothingLeft DEF Left
  <1>2. QED
    BY <1>1 DEF WillBeInStep, Will

\* What setMode leads to, whatever else (rest) the call does about other things.
LEMMA SetModeWill ==
  ASSUME TypeOK, NEW m \in Modes, NEW rest, NEW L, L = SetModeParts(m) \cup rest,
         \A a \in rest : a[1] \notin {"OPMODE", "_mode", "TESTPA"}
  PROVE  /\ chip.mode = mode => Will(L, "OPMODE", chip.mode, m)
         /\ Will(L, "_mode", mode, m)
         /\ IF m # mode /\ hw /\ m \in {"TX", "RX"}
            THEN Will(L, "TESTPA", chip.testpa, m = "TX")
            ELSE Will(L, "TESTPA", chip.testpa, chip.testpa)
  <1>1. \A a \in SetModeParts(m) :
          /\ a \in { << "OPMODE", m >>, << "_mode", m >>, << "TESTPA", m = "TX" >>,
                     << "MODEREADY" >> }
          /\ m # mode /\ (a[1] = "TESTPA" => hw /\ m \in {"TX", "RX"})
    BY DEF SetModeParts
  <1>2. m # mode => /\ << "OPMODE", m >> \in L /\ << "_mode", m >> \in L
                    /\ hw /\ m \in {"TX", "RX"} => << "TESTPA", m = "TX" >> \in L
    BY DEF SetModeParts
  <1>3. \A a \in L : /\ a[1] = "OPMODE" => a[2] = m
                     /\ a[1] = "_mode" => a[2] = m
                     /\ a[1] = "TESTPA" => a[2] = (m = "TX") /\ m # mode /\ hw /\ m \in {"TX", "RX"}
    BY <1>1
  <1>4. m = mode => \A a \in L : a[1] \notin {"OPMODE", "_mode", "TESTPA"}
    BY <1>1
  <1>5. chip.mode = mode => Will(L, "OPMODE", chip.mode, m)
    BY <1>2, <1>3 DEF Will
  <1>6. Will(L, "_mode", mode, m)
    BY <1>2, <1>3 DEF Will
  <1>7. CASE m # mode /\ hw /\ m \in {"TX", "RX"}
    BY <1>2, <1>3, <1>5, <1>6, <1>7 DEF Will
  <1>8. CASE ~(m # mode /\ hw /\ m \in {"TX", "RX"})
    BY <1>3, <1>5, <1>6, <1>8 DEF Will
  <1>9. QED
    BY <1>7, <1>8

\* The part setMode has nothing to do with.
LEMMA RestWill ==
  ASSUME TypeOK, NEW m \in Modes, NEW rest, NEW L, L = SetModeParts(m) \cup rest,
         NEW what \in {"attach", "pin"}, NEW now, NEW v, Will(rest, what, now, v)
  PROVE  Will(L, what, now, v)
  <1>1. \A a \in SetModeParts(m) : a[1] # what
    BY DEF SetModeParts
  <1>2. QED
    BY <1>1 DEF Will

\* What transmitBegin and receiveBegin do besides setMode.
LEMMA InterruptAndPin ==
  ASSUME NEW b \in BOOLEAN, NEW d, NEW now, NEW rest,
         rest = { << "attach", b >>, << "pin", d >> }
  PROVE  /\ \A a \in rest : a[1] \notin {"OPMODE", "_mode", "TESTPA"}
         /\ Will(rest, "attach", now, b) /\ Will(rest, "pin", now, d)
  BY DEF Will

LEMMA WillStart ==
  ASSUME TypeOK, Call, NEW name \in Names, todo' = CallOf(name),
         NEW m \in Modes, NEW t \in BOOLEAN, NEW a \in BOOLEAN, NEW d \in Dirs,
         Fits(m, t, a, d),
         Will(CallParts(name), "OPMODE", chip.mode, m),
         Will(CallParts(name), "_mode", mode, m),
         Will(CallParts(name), "TESTPA", chip.testpa, t),
         Will(CallParts(name), "attach", attached, a),
         Will(CallParts(name), "pin", pin.dir, d)
  PROVE  WillBeInStep'
  <1>1. Left' = CallParts(name)
    BY CallContents DEF Left
  <1>2. UNCHANGED << hw, chip, mode, attached, pin >>
    BY DEF Call
  <1>3. Fits(m, t, a, d)'
    BY <1>2 DEF Fits
  <1>4. QED
    BY <1>1, <1>2, <1>3 DEF WillBeInStep

LEMMA CallInStep ==
  ASSUME IInv, Call
  PROVE  WillBeInStep'
  <1> USE DEF IInv
  <1>1. PICK name \in Names : /\ todo' = CallOf(name) /\ todo = << >>
                              /\ IF Fresh THEN name = "initialize" ELSE MayCall(name)
    BY CallNames
  <1>2. /\ chip.mode \in Modes /\ chip.testpa \in BOOLEAN /\ attached \in BOOLEAN
        /\ pin.dir \in Dirs /\ mode \in Modes /\ hw \in BOOLEAN
        /\ (chip.testpa => hw) /\ "STANDBY" \in Modes
    BY DEF TypeOK, OnlyHW, Modes
  <1>3. CASE Fresh
    <2>1. name = "initialize" /\ mode = "STANDBY" /\ pin.dir = "INPUT" /\ attached = FALSE
      BY <1>1, <1>3 DEF FreshStart
    <2>2. CallParts(name) = { << "OPMODE", "STANDBY" >>, << "CONFIG" >>,
                              << "PALEVEL", hw >>, << "MODEREADY" >> }
      BY <2>1 DEF CallParts, SetModeParts
    <2>3. Fits("STANDBY", chip.testpa, FALSE, "INPUT")
      BY DEF Fits
    <2>4. \A a \in CallParts(name) : a[1] \in {"OPMODE", "CONFIG", "PALEVEL", "MODEREADY"}
                                     /\ (a[1] = "OPMODE" => a[2] = "STANDBY")
      BY <2>2
    <2>5. << "OPMODE", "STANDBY" >> \in CallParts(name)
      BY <2>2
    <2>6. Will(CallParts(name), "OPMODE", chip.mode, "STANDBY")
      BY <2>4, <2>5 DEF Will
    <2>7. /\ Will(CallParts(name), "_mode", mode, "STANDBY")
          /\ Will(CallParts(name), "TESTPA", chip.testpa, chip.testpa)
          /\ Will(CallParts(name), "attach", attached, FALSE)
          /\ Will(CallParts(name), "pin", pin.dir, "INPUT")
      BY <2>1, <2>4 DEF Will
    <2>8. QED
      BY <1>1, <1>2, <2>1, <2>3, <2>6, <2>7, WillStart DEF Dirs
  <1>4. CASE ~Fresh
    <2> DEFINE L == CallParts(name)
    <2>1. chip.mode = mode /\ Fits(mode, chip.testpa, attached, pin.dir)
      BY <1>1, <1>4, NowInStep
    <2>2. MayCall(name)
      BY <1>1, <1>4
    <2>m. "TX" \in Modes /\ "RX" \in Modes /\ "SLEEP" \in Modes
      BY DEF Modes
    <2>d. "INPUT" \in Dirs /\ "OUTPUT" \in Dirs
      BY DEF Dirs
    <2> HIDE DEF L
    <2>3. CASE name = "transmitBegin"
      <3> DEFINE rest == { << "attach", FALSE >>, << "pin", "OUTPUT" >> }
      <3>1. L = SetModeParts("TX") \cup rest
        BY <2>3 DEF CallParts, L
      <3>2. \A a \in rest : a[1] \notin {"OPMODE", "_mode", "TESTPA"}
        BY InterruptAndPin
      <3>3. Will(rest, "attach", attached, FALSE) /\ Will(rest, "pin", pin.dir, "OUTPUT")
        BY InterruptAndPin
      <3> HIDE DEF rest
      <3>4. /\ Will(L, "OPMODE", chip.mode, "TX") /\ Will(L, "_mode", mode, "TX")
            /\ Will(L, "attach", attached, FALSE) /\ Will(L, "pin", pin.dir, "OUTPUT")
        BY <2>1, <2>m, <3>1, <3>2, <3>3, SetModeWill, RestWill
      <3>5. Will(L, "TESTPA", chip.testpa, hw)
        <4>1. CASE mode # "TX" /\ hw
          BY <4>1, <2>m, <3>1, <3>2, SetModeWill
        <4>2. CASE ~(mode # "TX" /\ hw)
          <5>1. chip.testpa = hw
            BY <1>2, <2>1, <4>2 DEF Fits
          <5>2. Will(L, "TESTPA", chip.testpa, chip.testpa)
            BY <4>2, <2>m, <3>1, <3>2, SetModeWill
          <5>3. QED
            BY <5>1, <5>2
        <4>3. QED
          BY <4>1, <4>2
      <3>6. Fits("TX", hw, FALSE, "OUTPUT")
        BY DEF Fits
      <3>7. QED
        BY <1>1, <1>2, <2>m, <2>d, <3>4, <3>5, <3>6, WillStart DEF L
    <2>4. CASE name = "receiveBegin"
      <3> DEFINE rest == { << "attach", TRUE >>, << "pin", "INPUT" >> }
      <3>1. L = SetModeParts("RX") \cup rest
        BY <2>4 DEF CallParts, L
      <3>2. \A a \in rest : a[1] \notin {"OPMODE", "_mode", "TESTPA"}
        BY InterruptAndPin
      <3>3. Will(rest, "attach", attached, TRUE) /\ Will(rest, "pin", pin.dir, "INPUT")
        BY InterruptAndPin
      <3> HIDE DEF rest
      <3>4. /\ Will(L, "OPMODE", chip.mode, "RX") /\ Will(L, "_mode", mode, "RX")
            /\ Will(L, "attach", attached, TRUE) /\ Will(L, "pin", pin.dir, "INPUT")
        BY <2>1, <2>m, <3>1, <3>2, <3>3, SetModeWill, RestWill
      <3>5. Will(L, "TESTPA", chip.testpa, FALSE)
        <4>1. CASE mode # "RX" /\ hw
          <5>1. Will(L, "TESTPA", chip.testpa, "RX" = "TX")
            BY <4>1, <2>m, <3>1, <3>2, SetModeWill
          <5>2. ("RX" = "TX") = FALSE
            OBVIOUS
          <5>3. QED
            BY <5>1, <5>2
        <4>2. CASE ~(mode # "RX" /\ hw)
          <5>1. chip.testpa = FALSE
            BY <1>2, <2>1, <4>2 DEF Fits
          <5>2. Will(L, "TESTPA", chip.testpa, chip.testpa)
            BY <4>2, <2>m, <3>1, <3>2, SetModeWill
          <5>3. QED
            BY <5>1, <5>2
        <4>3. QED
          BY <4>1, <4>2
      <3>6. Fits("RX", FALSE, TRUE, "INPUT")
        BY DEF Fits
      <3>7. QED
        BY <1>1, <1>2, <2>m, <2>d, <3>4, <3>5, <3>6, WillStart DEF L
    <2>5. ASSUME NEW m \in {"STANDBY", "SLEEP"}, NEW rest, L = SetModeParts(m) \cup rest,
                 \A a \in rest : a[1] \notin {"OPMODE", "_mode", "TESTPA"},
                 Will(rest, "attach", attached, FALSE), Will(rest, "pin", pin.dir, "INPUT")
          PROVE  WillBeInStep'
      <3>1. m \in Modes /\ m \notin {"TX", "RX"}
        BY DEF Modes
      <3>2. /\ Will(L, "OPMODE", chip.mode, m) /\ Will(L, "_mode", mode, m)
            /\ Will(L, "TESTPA", chip.testpa, chip.testpa)
        BY <2>1, <2>5, <3>1, SetModeWill
      <3>3. Will(L, "attach", attached, FALSE) /\ Will(L, "pin", pin.dir, "INPUT")
        BY <2>5, <3>1, RestWill
      <3>4. Fits(m, chip.testpa, FALSE, "INPUT")
        BY <3>1 DEF Fits
      <3>5. QED
        BY <1>1, <1>2, <2>d, <3>1, <3>2, <3>3, <3>4, WillStart DEF L
    <2>6. CASE name = "transmitEnd"
      <3> DEFINE rest == { << "pin", "INPUT" >> }
      <3>1. L = SetModeParts("STANDBY") \cup rest
        BY <2>6 DEF CallParts, L
      <3>2. attached = FALSE
        BY <1>2, <2>1, <2>2, <2>6 DEF MayCall, AtAnyTime, Fits
      <3>3. Will(rest, "attach", attached, FALSE) /\ Will(rest, "pin", pin.dir, "INPUT")
        BY <3>2 DEF Will
      <3>4. \A a \in rest : a[1] \notin {"OPMODE", "_mode", "TESTPA"}
        OBVIOUS
      <3> HIDE DEF rest
      <3>5. QED
        BY <2>5, <3>1, <3>3, <3>4
    <2>7. CASE name = "receiveEnd"
      <3> DEFINE rest == { << "attach", FALSE >> }
      <3>1. L = SetModeParts("STANDBY") \cup rest
        BY <2>7 DEF CallParts, L
      <3>2. pin.dir = "INPUT"
        BY <1>2, <2>1, <2>2, <2>7 DEF MayCall, AtAnyTime, Fits, Dirs
      <3>3. Will(rest, "attach", attached, FALSE) /\ Will(rest, "pin", pin.dir, "INPUT")
        BY <3>2 DEF Will
      <3>4. \A a \in rest : a[1] \notin {"OPMODE", "_mode", "TESTPA"}
        OBVIOUS
      <3> HIDE DEF rest
      <3>5. QED
        BY <2>5, <3>1, <3>3, <3>4
    <2>8. CASE name \in {"sleep", "readTemperature"}
      <3> DEFINE rest == IF name = "sleep" THEN {}
                         ELSE { << "START", "TEMP" >>, << "DONE", "TEMP" >> }
                 m == IF name = "sleep" THEN "SLEEP" ELSE "STANDBY"
      <3>1. L = SetModeParts(m) \cup rest /\ m \in {"STANDBY", "SLEEP"}
        BY <2>8 DEF CallParts, L
      <3>2. pin.dir = "INPUT" /\ attached = FALSE
        BY <1>2, <2>1, <2>2, <2>8 DEF MayCall, AtAnyTime, Fits, Dirs
      <3>3. \A a \in rest : a[1] \in {"START", "DONE"}
        OBVIOUS
      <3>4. Will(rest, "attach", attached, FALSE) /\ Will(rest, "pin", pin.dir, "INPUT")
        BY <3>2, <3>3 DEF Will
      <3> HIDE DEF rest, m
      <3>5. QED
        BY <2>5, <3>1, <3>3, <3>4
    <2>9. CASE name = "initialize"
      <3> DEFINE rest == { << "OPMODE", "STANDBY" >>, << "CONFIG" >>, << "PALEVEL", hw >>,
                           << "MODEREADY" >> }
      <3>1. L = rest \cup SetModeParts("STANDBY")
        BY <2>9 DEF CallParts, L
      <3>2. pin.dir = "INPUT" /\ attached = FALSE
        BY <1>2, <2>1, <2>2, <2>9 DEF MayCall, AtAnyTime, Fits, Dirs
      <3>3. \A a \in L :
              /\ a[1] \in {"OPMODE", "CONFIG", "PALEVEL", "MODEREADY", "_mode"}
              /\ a[1] \in {"OPMODE", "_mode"} => a[2] = "STANDBY"
        BY <3>1 DEF SetModeParts
      <3>4. << "OPMODE", "STANDBY" >> \in L
            /\ (mode = "STANDBY" \/ << "_mode", "STANDBY" >> \in L)
        BY <3>1 DEF SetModeParts
      <3> HIDE DEF rest
      <3>5. Will(L, "OPMODE", chip.mode, "STANDBY")
        BY <3>3, <3>4 DEF Will
      <3>6. Will(L, "_mode", mode, "STANDBY")
        BY <3>3, <3>4 DEF Will
      <3>7. /\ Will(L, "TESTPA", chip.testpa, chip.testpa)
            /\ Will(L, "attach", attached, FALSE) /\ Will(L, "pin", pin.dir, "INPUT")
        BY <3>2, <3>3 DEF Will
      <3>8. Fits("STANDBY", chip.testpa, FALSE, "INPUT")
        BY DEF Fits
      <3>9. QED
        BY <1>1, <1>2, <2>d, <3>5, <3>6, <3>7, <3>8, WillStart DEF L
    <2>10. CASE name \in { "setFrequency", "setPowerLevel", "rcCalibration", "readRSSI",
                           "settings", "send1", "send0" }
      <3>1. \A a \in L : a[1] \in {"FRF", "LEVEL", "START", "DONE", "CONFIG", "data"}
        <4>1. CASE name = "setFrequency"
          BY <4>1 DEF CallParts, L
        <4>2. CASE name = "setPowerLevel"
          BY <4>2 DEF CallParts, L
        <4>3. CASE name = "rcCalibration"
          BY <4>3 DEF CallParts, L
        <4>4. CASE name = "readRSSI"
          BY <4>4 DEF CallParts, L
        <4>5. CASE name = "settings"
          BY <4>5 DEF CallParts, L
        <4>6. CASE name = "send1"
          BY <4>6 DEF CallParts, L
        <4>7. CASE name = "send0"
          BY <4>7 DEF CallParts, L
        <4>8. QED
          BY <2>10, <4>1, <4>2, <4>3, <4>4, <4>5, <4>6, <4>7
      <3>2. /\ Will(L, "OPMODE", chip.mode, mode) /\ Will(L, "_mode", mode, mode)
            /\ Will(L, "TESTPA", chip.testpa, chip.testpa)
            /\ Will(L, "attach", attached, attached) /\ Will(L, "pin", pin.dir, pin.dir)
        BY <2>1, <3>1 DEF Will
      <3>3. QED
        BY <1>1, <1>2, <2>1, <3>2, WillStart DEF L
    <2>11. QED
      BY <2>3, <2>4, <2>6, <2>7, <2>8, <2>9, <2>10 DEF Names
  <1>5. QED
    BY <1>3, <1>4

LEMMA CallTypeOK ==
  ASSUME TypeOK, FreshStart, Call
  PROVE  TypeOK'
  <1>1. /\ UNCHANGED << app, hw, chip, pin, attached, mode, resets >>
        /\ \E name \in Names : todo' = CallOf(name)
    BY CallNames
  <1>2. todo' \in Seq(Accesses)
    BY <1>1, CallContents
  <1>3. calls' \in IF app = "OOKTransmit" THEN SettingUp \cup Looping
                   ELSE { << "initialize" >>, << >> }
    <2>1. CASE app = "OOKTransmit" /\ calls # << >>
      <3>1. calls' = Tail(calls) /\ calls \in SettingUp \cup Looping
        BY <2>1 DEF Call, TypeOK
      <3>2. QED
        BY <2>1, <3>1, SettingUpIs, LoopingIs, LoopStarts
    <2>2. CASE app = "OOKTransmit" /\ calls = << >>
      BY <2>2, LoopStarts DEF Call
    <2>3. CASE app # "OOKTransmit"
      <3>1. calls = << "initialize" >> \/ calls = << >>
        BY <2>3 DEF TypeOK
      <3>2. Tail(<< "initialize" >>) = << >>
        OBVIOUS
      <3>3. calls' = << >>
        BY <2>3, <3>1, <3>2 DEF Call
      <3>4. QED
        BY <2>3, <3>3
    <2>4. QED
      BY <2>1, <2>2, <2>3
  <1> HIDE DEF Accesses, SettingUp, Looping
  <1>4. QED
    BY <1>1, <1>2, <1>3 DEF TypeOK

\* Only setMode writes the high power registers, on with the amplifier only.
LEMMA CallOnlyHW ==
  ASSUME IInv, Call
  PROVE  OnlyHW'
  <1>1. PICK name \in Names : todo' = CallOf(name)
    BY CallNames DEF IInv
  <1>2. Left' = CallParts(name) /\ UNCHANGED << hw, chip >>
    BY <1>1, CallContents DEF Left, IInv, Call
  <1>3. ASSUME << "TESTPA", TRUE >> \in CallParts(name) PROVE hw
    <2>1. ASSUME NEW m, << "TESTPA", TRUE >> \in SetModeParts(m) PROVE hw
      BY <2>1 DEF SetModeParts
    <2>2. \E m : << "TESTPA", TRUE >> \in SetModeParts(m)
      BY <1>3 DEF CallParts, Names
    <2>3. QED
      BY <2>1, <2>2
  <1>4. QED
    BY <1>2, <1>3 DEF OnlyHW, IInv

\* The order of the accesses in the calls that begin something.
LEMMA TransmitBeginOrder ==
  ASSUME TypeOK, NEW i \in 1 .. Len(transmitBegin),
         transmitBegin[i] = << "pin", "OUTPUT" >>
  PROVE  i = Len(transmitBegin)
  <1> DEFINE s == setMode("TX")
             e == << << "attach", FALSE >>, << "pin", "OUTPUT" >> >>
  <1>1. s \in Seq(Accesses) /\ Range(s) = SetModeParts("TX")
    BY SetModeContents DEF Modes
  <1>2. e \in Seq(Accesses) /\ Len(e) = 2 /\ e[1] = << "attach", FALSE >>
    BY IsAccess, TwoAccesses DEF Dirs
  <1>3. /\ Len(s) \in Nat /\ Len(transmitBegin) = Len(s) + 2
        /\ transmitBegin[i] = IF i <= Len(s) THEN s[i] ELSE e[i - Len(s)]
    BY <1>1, <1>2, ConcatProperties DEF transmitBegin
  <1>4. ASSUME i <= Len(s) PROVE FALSE
    <2>1. s[i] \in Range(s)
      BY <1>1, <1>3, <1>4, RangeEquality
    <2>2. << "pin", "OUTPUT" >> \notin SetModeParts("TX")
      BY DEF SetModeParts
    <2>3. QED
      BY <1>1, <1>3, <1>4, <2>1, <2>2
  <1>5. i - Len(s) # 1
    BY <1>2, <1>3
  <1>6. QED
    BY <1>3, <1>4, <1>5

LEMMA ReceiveBeginOrder ==
  ASSUME TypeOK
  PROVE  Head(receiveBegin) = << "pin", "INPUT" >>
  <1> DEFINE s == << << "pin", "INPUT" >>, << "attach", TRUE >> >>
             e == setMode("RX")
  <1>1. e \in Seq(Accesses) /\ s \in Seq(Accesses) /\ Len(s) = 2 /\ s[1] = << "pin", "INPUT" >>
    BY SetModeContents, IsAccess, TwoAccesses DEF Dirs, Modes
  <1>2. receiveBegin \in Seq(Accesses) /\ Len(receiveBegin) = 2 + Len(e)
        /\ receiveBegin[1] = s[1] /\ Len(e) \in Nat
    BY <1>1, ConcatProperties DEF receiveBegin
  <1>3. QED
    BY <1>1, <1>2

LEMMA CallPins ==
  ASSUME IInv, Call
  PROVE  (PinSafe /\ DrivesLast /\ ReleasesFirst)'
  <1> USE DEF IInv
  <1>1. PICK name \in Names : /\ todo' = CallOf(name) /\ todo = << >>
                              /\ Fresh => name = "initialize"
    BY CallNames
  <1>2. Left' = CallParts(name) /\ UNCHANGED << pin, chip, attached, mode >>
    BY <1>1, CallContents DEF Left, Call
  <1>3. PinSafe'
    BY <1>2 DEF PinSafe
  <1>4. << "pin", "OUTPUT" >> \in CallParts(name) => name = "transmitBegin"
    BY DEF CallParts, SetModeParts, Names
  <1>5. << "attach", TRUE >> \in CallParts(name) \/ << "OPMODE", "RX" >> \in CallParts(name)
          => name = "receiveBegin"
    BY DEF CallParts, SetModeParts, Names
  <1>6. DrivesLast'
    <2> SUFFICES ASSUME name = "transmitBegin" PROVE DrivesLast'
      BY <1>2, <1>4 DEF DrivesLast
    <2>1. todo' = transmitBegin
      BY <1>1 DEF CallOf
    <2>2. << "attach", FALSE >> \in CallParts(name)
      BY DEF CallParts
    <2>3. chip.mode # "RX" \/ << "OPMODE", "TX" >> \in CallParts(name)
      <3>1. chip.mode = mode
        BY <1>1, NowInStep
      <3>2. mode # "TX" => << "OPMODE", "TX" >> \in CallParts(name)
        BY DEF CallParts, SetModeParts
      <3>3. QED
        BY <3>1, <3>2
    <2>4. QED
      BY <1>2, <1>5, <2>1, <2>2, <2>3, TransmitBeginOrder DEF DrivesLast
  <1>7. ReleasesFirst'
    <2> SUFFICES ASSUME name = "receiveBegin" PROVE ReleasesFirst'
      BY <1>2, <1>5 DEF ReleasesFirst
    <2>1. todo' = receiveBegin
      BY <1>1 DEF CallOf
    <2>2. QED
      BY <2>1, ReceiveBeginOrder DEF ReleasesFirst
  <1>8. QED
    BY <1>3, <1>6, <1>7

LEMMA CallTuned ==
  ASSUME IInv, Call
  PROVE  TunedWhenSending'
  <1> SUFFICES ASSUME app = "OOKTransmit"
               PROVE  /\ pin'.high = 1 \/ << "data", 1 >> \in Left' =>
                           chip'.frf = FRFs /\ chip'.level
                      /\ calls' = << "setPowerLevel" >> =>
                           \A r \in FRFs : r \in chip'.frf \/ << "FRF", r >> \in Left'
                      /\ calls' \in Looping =>
                           chip'.frf = FRFs /\ (chip'.level \/ << "LEVEL" >> \in Left')
    BY DEF TunedWhenSending, Call
  <1> USE DEF IInv
  <1>1. /\ todo = << >> /\ Left = {} /\ UNCHANGED << chip, pin >>
        /\ calls \in SettingUp \cup Looping
    BY NothingLeft DEF Call, Left, TypeOK
  <1>2. calls \in Looping => chip.frf = FRFs /\ chip.level
    BY <1>1 DEF TunedWhenSending
  <1>3. CASE calls \in SettingUp
    <2>1. /\ calls # << >> /\ todo' = CallOf(Head(calls)) /\ calls' = Tail(calls)
          /\ Head(calls) \in Names \ {"send1", "send0"}
      BY <1>3, SettingUpIs DEF Call, Names
    <2>2. Left' = CallParts(Head(calls))
      BY <2>1, CallContents DEF Left
    <2>3. << "data", 1 >> \notin Left'
      BY <2>1, <2>2 DEF CallParts, SetModeParts, Names
    <2>4. pin'.high = 1 => chip'.frf = FRFs /\ chip'.level
      BY <1>1 DEF TunedWhenSending
    <2>5. ASSUME calls' = << "setPowerLevel" >>, NEW r \in FRFs
          PROVE  << "FRF", r >> \in Left'
      <3>1. Head(calls) = "setFrequency"
        BY <1>3, <2>1, <2>5, SettingUpIs
      <3>2. QED
        BY <2>2, <3>1 DEF CallParts, FRFs
    <2>6. ASSUME calls' \in Looping
          PROVE  chip'.frf = FRFs /\ << "LEVEL" >> \in Left'
      <3>1. calls = << "setPowerLevel" >>
        BY <1>3, <2>1, <2>6, SettingUpIs, SettingUpNotLooping
      <3>2. FRFs \subseteq chip.frf
        BY <1>1, <3>1 DEF TunedWhenSending
      <3>3. chip.frf = FRFs
        BY <3>2 DEF TypeOK
      <3>4. Head(calls) = "setPowerLevel"
        BY <3>1, NextCalls
      <3>5. QED
        BY <1>1, <2>2, <3>3, <3>4 DEF CallParts
    <2>7. QED
      BY <2>3, <2>4, <2>5, <2>6
  <1>4. CASE calls \in Looping
    <2>1. calls' \in Looping
      BY <1>4, LoopingIs, LoopStarts DEF Call
    <2>2. << "setPowerLevel" >> \notin Looping
      BY SettingUpNotLooping DEF SettingUp
    <2>3. QED
      BY <1>1, <1>2, <1>4, <2>1, <2>2
  <1>5. QED
    BY <1>1, <1>3, <1>4

LEMMA CallIInv ==
  ASSUME IInv, Call
  PROVE  IInv'
  <1>1. FreshStart'
    BY CallNames DEF FreshStart, IInv
  <1>2. QED
    BY <1>1, CallTypeOK, CallInStep, CallOnlyHW, CallPins, CallTuned DEF IInv

-----------------------------------------------------------------------------
(* An access is made *)

LEMMA AccessInStep ==
  ASSUME TypeOK, WillBeInStep, Access
  PROVE  WillBeInStep'
  <1>1. PICK m \in Modes, t \in BOOLEAN, a \in BOOLEAN, d \in Dirs :
          /\ Fits(m, t, a, d)
          /\ Will(Left, "OPMODE", chip.mode, m) /\ Will(Left, "_mode", mode, m)
          /\ Will(Left, "TESTPA", chip.testpa, t) /\ Will(Left, "attach", attached, a)
          /\ Will(Left, "pin", pin.dir, d)
    BY DEF WillBeInStep
  <1>2. Left = {Head(todo)} \cup Left'
    BY AccessEffect, MakingTheFirst DEF Left
  <1>3. Fits(m, t, a, d)'
    BY <1>1, AccessEffect DEF Fits
  <1>4. Will(Left', "OPMODE", chip'.mode, m)
    BY <1>1, <1>2, AccessEffect, WillRemains
  <1>5. Will(Left', "_mode", mode', m)
    BY <1>1, <1>2, AccessEffect, WillRemains
  <1>6. Will(Left', "TESTPA", chip'.testpa, t)
    BY <1>1, <1>2, AccessEffect, WillRemains
  <1>7. Will(Left', "attach", attached', a)
    BY <1>1, <1>2, AccessEffect, WillRemains
  <1>8. Will(Left', "pin", pin'.dir, d)
    BY <1>1, <1>2, AccessEffect, WillRemains
  <1>9. QED
    BY <1>1, <1>3, <1>4, <1>5, <1>6, <1>7, <1>8 DEF WillBeInStep

LEMMA AccessOnlyHW ==
  ASSUME TypeOK, OnlyHW, Access
  PROVE  OnlyHW'
  <1>1. Left = {Head(todo)} \cup Left' /\ Head(todo) \in Accesses
    BY AccessEffect, MakingTheFirst DEF Left
  <1>2. ASSUME chip'.testpa PROVE hw
    <2>1. CASE Head(todo)[1] = "TESTPA"
      <3>1. Head(todo)[2] = TRUE
        BY <1>1, <1>2, <2>1, AccessEffect, AccessTypes
      <3>2. Head(todo) = << "TESTPA", TRUE >>
        BY <1>1, <2>1, <3>1, AccessTypes
      <3>3. QED
        BY <1>1, <3>2 DEF OnlyHW
    <2>2. CASE Head(todo)[1] # "TESTPA"
      BY <1>2, <2>2, AccessEffect DEF OnlyHW
    <2>3. QED
      BY <2>1, <2>2
  <1>3. hw' = hw
    BY AccessEffect
  <1>4. QED
    BY <1>1, <1>2, <1>3 DEF OnlyHW

LEMMA AccessPins ==
  ASSUME IInv, Access
  PROVE  (PinSafe /\ DrivesLast /\ ReleasesFirst)'
  <1> USE DEF IInv
  <1> DEFINE h == Head(todo)
             drives == << "pin", "OUTPUT" >>
  <1>1. /\ Left = {h} \cup Left' /\ h \in Accesses /\ h = todo[1]
        /\ todo # << >> /\ todo' = Tail(todo) /\ todo \in Seq(Accesses)
    BY AccessEffect, MakingTheFirst DEF Left, TypeOK
  <1>2. /\ chip'.mode = IF h[1] = "OPMODE" THEN h[2] ELSE chip.mode
        /\ pin'.dir = IF h[1] = "pin" THEN h[2] ELSE pin.dir
        /\ attached' = IF h[1] = "attach" THEN h[2] ELSE attached
    BY AccessEffect
  <1>3. /\ h[1] \in {"OPMODE", "attach", "pin"} => h = << h[1], h[2] >>
        /\ h[1] = "pin" => h[2] \in Dirs
        /\ h[1] = "attach" => h[2] \in BOOLEAN
    BY <1>1, AccessTypes
  <1> HIDE DEF Accesses
  <1>4. /\ Len(todo) \in Nat \ {0} /\ Len(todo') = Len(todo) - 1
        /\ \A i \in 1 .. Len(todo) - 1 : todo'[i] = todo[i + 1]
        /\ Left' = { todo'[i] : i \in 1 .. Len(todo') }
    <2>1. todo' \in Seq(Accesses)
      BY <1>1
    <2>2. Left' = { todo'[i] : i \in 1 .. Len(todo') }
      BY <2>1, RangeEquality DEF Left
    <2>3. QED
      BY <1>1, <2>2
  <1> HIDE DEF h
  \* When the pin is driven nothing is left.
  <1>5. ASSUME h = drives
        PROVE  Left' = {} /\ ~attached /\ chip.mode # "RX"
    <2>1. drives \in Left
      BY <1>1, <1>5
    <2>2. Len(todo) = 1
      <3>1. \A i \in 1 .. Len(todo) : todo[i] = drives => i = Len(todo)
        BY <2>1 DEF DrivesLast
      <3>2. todo[1] = drives /\ 1 \in 1 .. Len(todo)
        BY <1>1, <1>4, <1>5
      <3>3. QED
        BY <3>1, <3>2
    <2>3. Left' = {}
      BY <1>4, <2>2
    <2>4. Left = {drives}
      BY <1>1, <1>5, <2>3
    <2>5. << "attach", FALSE >> # drives /\ << "OPMODE", "TX" >> # drives
      OBVIOUS
    <2>6. QED
      BY <2>1, <2>3, <2>4, <2>5 DEF DrivesLast
  \* What would be in the way of a driven pin comes when it is not.
  <1>6. ASSUME h = << "attach", TRUE >> \/ h = << "OPMODE", "RX" >>
        PROVE  pin.dir = "INPUT" /\ drives \notin Left
    <2>1. h # << "pin", "INPUT" >>
      <3>1. ASSUME h = << "attach", TRUE >> PROVE h[1] = "attach"
        BY <3>1
      <3>2. ASSUME h = << "OPMODE", "RX" >> PROVE h[1] = "OPMODE"
        BY <3>2
      <3>3. ASSUME h = << "pin", "INPUT" >> PROVE h[1] = "pin"
        BY <3>3
      <3>4. QED
        BY <1>6, <3>1, <3>2, <3>3, Zenon
    <2>2. << "attach", TRUE >> \in Left \/ << "OPMODE", "RX" >> \in Left
      BY <1>1, <1>6
    <2>3. QED
      BY <2>1, <2>2 DEF ReleasesFirst, DrivesLast, h
  <1>7. PinSafe'
    <2>1. CASE h[1] = "pin"
      <3>1. pin'.dir = "OUTPUT" => h = drives
        BY <1>2, <1>3, <2>1
      <3>2. attached' = attached /\ chip'.mode = chip.mode
        BY <1>2, <2>1
      <3>3. QED
        BY <1>5, <3>1, <3>2 DEF PinSafe
    <2>2. CASE h[1] = "attach"
      <3>1. CASE h[2] = TRUE
        <4>1. h = << "attach", TRUE >>
          BY <1>3, <2>2, <3>1
        <4>2. QED
          BY <1>2, <1>6, <2>2, <4>1 DEF PinSafe
      <3>2. CASE h[2] = FALSE
        BY <1>2, <2>2, <3>2 DEF PinSafe
      <3>3. QED
        BY <1>3, <2>2, <3>1, <3>2
    <2>3. CASE h[1] = "OPMODE"
      <3>1. CASE h[2] = "RX"
        <4>1. h = << "OPMODE", "RX" >>
          BY <1>3, <2>3, <3>1
        <4>2. QED
          BY <1>2, <1>6, <2>3, <4>1 DEF PinSafe
      <3>2. CASE h[2] # "RX"
        BY <1>2, <2>3, <3>2 DEF PinSafe
      <3>3. QED
        BY <3>1, <3>2
    <2>4. CASE h[1] \notin {"pin", "attach", "OPMODE"}
      BY <1>2, <2>4 DEF PinSafe
    <2>5. QED
      BY <2>1, <2>2, <2>3, <2>4
  <1>8. DrivesLast'
    <2> SUFFICES ASSUME drives \in Left'
                 PROVE  /\ \A i \in 1 .. Len(todo') : todo'[i] = drives => i = Len(todo')
                        /\ ~attached' \/ << "attach", FALSE >> \in Left'
                        /\ chip'.mode # "RX" \/ << "OPMODE", "TX" >> \in Left'
                        /\ << "attach", TRUE >> \notin Left' /\ << "OPMODE", "RX" >> \notin Left'
      BY DEF DrivesLast
    <2>1. drives \in Left
      BY <1>1
    <2>2. \A i \in 1 .. Len(todo') : todo'[i] = drives => i = Len(todo')
      <3>1. \A i \in 1 .. Len(todo) : todo[i] = drives => i = Len(todo)
        BY <2>1 DEF DrivesLast
      <3>2. ASSUME NEW i \in 1 .. Len(todo'), todo'[i] = drives
            PROVE  i = Len(todo')
        <4>1. i \in 1 .. Len(todo) - 1 /\ i + 1 \in 1 .. Len(todo)
          BY <1>4, <3>2
        <4>2. todo[i + 1] = drives
          BY <1>4, <3>2, <4>1
        <4>3. i + 1 = Len(todo)
          BY <3>1, <4>1, <4>2
        <4>4. QED
          BY <1>4, <4>1, <4>3
      <3>3. QED
        BY <3>2
    <2>3. << "attach", TRUE >> \notin Left' /\ << "OPMODE", "RX" >> \notin Left'
          /\ h # << "attach", TRUE >> /\ h # << "OPMODE", "RX" >>
      BY <1>1, <2>1 DEF DrivesLast
    <2>4. ~attached' \/ << "attach", FALSE >> \in Left'
      <3>1. CASE h[1] = "attach"
        <4>1. h[2] # TRUE
          BY <1>3, <2>3, <3>1
        <4>2. QED
          BY <1>2, <1>3, <3>1, <4>1
      <3>2. CASE h[1] # "attach"
        <4>1. << "attach", FALSE >>[1] = "attach"
          OBVIOUS
        <4>2. QED
          <5>1. h # << "attach", FALSE >>
            BY <3>2, <4>1
          <5>2. QED
            BY <1>1, <1>2, <2>1, <3>2, <5>1 DEF DrivesLast
      <3>3. QED
        BY <3>1, <3>2
    <2>5. chip'.mode # "RX" \/ << "OPMODE", "TX" >> \in Left'
      <3>1. CASE h[1] = "OPMODE"
        <4>1. h[2] # "RX"
          BY <1>3, <2>3, <3>1
        <4>2. QED
          BY <1>2, <3>1, <4>1
      <3>2. CASE h[1] # "OPMODE"
        <4>1. h # << "OPMODE", "TX" >>
          BY <3>2
        <4>2. QED
          BY <1>1, <1>2, <2>1, <3>2, <4>1 DEF DrivesLast
      <3>3. QED
        BY <3>1, <3>2
    <2>6. QED
      BY <2>2, <2>3, <2>4, <2>5
  <1>9. ReleasesFirst'
    <2> SUFFICES ASSUME << "attach", TRUE >> \in Left' \/ << "OPMODE", "RX" >> \in Left'
                 PROVE  pin'.dir = "INPUT"
      BY DEF ReleasesFirst
    <2>1. << "attach", TRUE >> \in Left \/ << "OPMODE", "RX" >> \in Left
      BY <1>1
    <2>2. h # drives
      BY <1>1, <2>1 DEF DrivesLast
    <2>3. pin.dir = "INPUT" \/ h = << "pin", "INPUT" >>
      BY <2>1 DEF ReleasesFirst, h
    <2>4. CASE h[1] = "pin"
      BY <1>2, <1>3, <2>2, <2>4 DEF Dirs
    <2>5. CASE h[1] # "pin"
      BY <1>2, <2>3, <2>5
    <2>6. QED
      BY <2>4, <2>5
  <1>10. QED
    BY <1>7, <1>8, <1>9

LEMMA AccessTuned ==
  ASSUME IInv, Access
  PROVE  TunedWhenSending'
  <1> USE DEF IInv
  <1> DEFINE h == Head(todo)
  <1>1. /\ Left = {h} \cup Left' /\ h \in Accesses
        /\ UNCHANGED << app, calls >>
    BY AccessEffect, MakingTheFirst DEF Left
  <1>2. /\ chip'.frf = IF h[1] = "FRF" THEN chip.frf \cup {h[2]} ELSE chip.frf
        /\ chip'.level = (chip.level \/ h[1] = "LEVEL")
        /\ pin'.high = IF h[1] = "data" THEN h[2] ELSE pin.high
    BY AccessEffect
  <1>3. /\ h[1] \in {"FRF", "data"} => h = << h[1], h[2] >>
        /\ h[1] = "FRF" => h[2] \in FRFs
        /\ h[1] = "LEVEL" => h = << "LEVEL" >>
    BY <1>1, AccessTypes
  <1> HIDE DEF h
  <1>4. chip.frf = FRFs => chip'.frf = FRFs
    BY <1>2, <1>3
  <1> SUFFICES ASSUME app = "OOKTransmit"
               PROVE  /\ pin'.high = 1 \/ << "data", 1 >> \in Left' =>
                           chip'.frf = FRFs /\ chip'.level
                      /\ calls = << "setPowerLevel" >> =>
                           \A r \in FRFs : r \in chip'.frf \/ << "FRF", r >> \in Left'
                      /\ calls \in Looping =>
                           chip'.frf = FRFs /\ (chip'.level \/ << "LEVEL" >> \in Left')
    BY <1>1 DEF TunedWhenSending
  <1>5. ASSUME pin'.high = 1 \/ << "data", 1 >> \in Left'
        PROVE  chip'.frf = FRFs /\ chip'.level
    <2>1. pin.high = 1 \/ << "data", 1 >> \in Left
      BY <1>1, <1>2, <1>3, <1>5
    <2>2. QED
      BY <1>2, <1>4, <2>1 DEF TunedWhenSending
  <1>6. ASSUME calls = << "setPowerLevel" >>, NEW r \in FRFs
        PROVE  r \in chip'.frf \/ << "FRF", r >> \in Left'
    <2>1. r \in chip.frf \/ << "FRF", r >> \in Left
      BY <1>6 DEF TunedWhenSending
    <2>2. << "FRF", r >> = h => r \in chip'.frf
      BY <1>2
    <2>3. QED
      BY <1>1, <1>2, <2>1, <2>2
  <1>7. ASSUME calls \in Looping
        PROVE  chip'.frf = FRFs /\ (chip'.level \/ << "LEVEL" >> \in Left')
    <2>1. chip.frf = FRFs /\ (chip.level \/ << "LEVEL" >> \in Left)
      BY <1>7 DEF TunedWhenSending
    <2>2. << "LEVEL" >> = h => h[1] = "LEVEL"
      OBVIOUS
    <2>3. QED
      BY <1>1, <1>2, <1>4, <2>1, <2>2
  <1>8. QED
    BY <1>5, <1>6, <1>7

LEMMA AccessIInv ==
  ASSUME IInv, Access
  PROVE  IInv'
  <1>1. ~Fresh
    BY AccessEffect DEF IInv, FreshStart
  <1>2. ~Fresh'
    BY <1>1, AccessEffect DEF IInv, Fresh
  <1>3. FreshStart'
    BY <1>2 DEF FreshStart
  <1>4. QED
    BY <1>1, <1>3, AccessTypeOK, AccessInStep, AccessOnlyHW, AccessPins, AccessTuned DEF IInv

-----------------------------------------------------------------------------
(* The chip, a reset, and the theorems *)

LEMMA InitIInv == Init => IInv
  <1> SUFFICES ASSUME Init PROVE IInv
    OBVIOUS
  <1>1. Fresh /\ FreshStart
    BY DEF Init, Fresh, FreshStart
  <1>2. Left = {}
    BY NothingLeft DEF Init, Left
  <1>3. setup \in SettingUp
    BY DEF SettingUp
  <1>4. TypeOK
    <2>1. calls \in IF app = "OOKTransmit" THEN SettingUp \cup Looping
                    ELSE { << "initialize" >>, << >> }
      BY <1>3 DEF Init
    <2> HIDE DEF SettingUp, Looping, Accesses
    <2>2. todo \in Seq(Accesses)
      BY DEF Init
    <2>3. QED
      BY <2>1, <2>2 DEF Init, TypeOK, Modes, Dirs, FRFs, Measures
  <1>5. OnlyHW /\ PinSafe /\ DrivesLast /\ ReleasesFirst
    BY <1>2 DEF Init, OnlyHW, PinSafe, DrivesLast, ReleasesFirst
  <1>6. TunedWhenSending
    <2>1. app = "OOKTransmit" => calls = setup /\ calls \notin Looping
      BY <1>3, SettingUpNotLooping DEF Init
    <2>2. setup # << "setPowerLevel" >>
      BY <1>3, SettingUpIs
    <2>3. QED
      BY <1>2, <2>1, <2>2 DEF Init, TunedWhenSending
  <1>7. QED
    BY <1>1, <1>4, <1>5, <1>6 DEF IInv

\* The chip gets ready or ends a measurement: nothing the calls rely on.
LEMMA ChipReadyIInv ==
  ASSUME IInv, ChipReady
  PROVE  IInv'
  <1> USE DEF IInv
  <1>1. /\ UNCHANGED << app, hw, pin, attached, mode, todo, calls, resets >>
        /\ chip'.mode = chip.mode /\ chip'.testpa = chip.testpa
        /\ chip'.frf = chip.frf /\ chip'.level = chip.level
        /\ chip' \in [ mode : Modes, ready : BOOLEAN, testpa : BOOLEAN,
                       frf : SUBSET FRFs, level : BOOLEAN, busy : SUBSET Measures ]
    BY DEF ChipReady, TypeOK
  <1>2. Left' = Left
    BY <1>1 DEF Left
  <1>3. TypeOK'
    BY <1>1 DEF TypeOK
  <1>4. Fresh' = Fresh /\ FreshStart'
    BY <1>1 DEF Fresh, FreshStart
  <1>5. WillBeInStep => WillBeInStep'
    BY <1>1, <1>2 DEF WillBeInStep, Fits
  <1>6. (OnlyHW /\ PinSafe /\ DrivesLast /\ ReleasesFirst)'
    BY <1>1, <1>2 DEF OnlyHW, PinSafe, DrivesLast, ReleasesFirst
  <1>7. TunedWhenSending'
    BY <1>1, <1>2 DEF TunedWhenSending
  <1>8. QED
    BY <1>3, <1>4, <1>5, <1>6, <1>7

LEMMA ResetIInv ==
  ASSUME IInv, Reset
  PROVE  IInv'
  <1> USE DEF IInv
  <1>1. /\ pin' = [dir |-> "INPUT", high |-> 0] /\ attached' = FALSE
        /\ mode' = "STANDBY" /\ todo' = << >> /\ UNCHANGED << app, hw, chip >>
        /\ calls' = IF app = "OOKTransmit" THEN setup ELSE << "initialize" >>
    BY DEF Reset
  <1>2. Fresh' /\ FreshStart'
    BY <1>1 DEF Fresh, FreshStart
  <1>3. Left' = {}
    BY <1>1, NothingLeft DEF Left
  <1>4. setup \in SettingUp
    BY DEF SettingUp
  <1>5. TypeOK'
    <2>1. calls' \in IF app' = "OOKTransmit" THEN SettingUp \cup Looping
                     ELSE { << "initialize" >>, << >> }
      BY <1>1, <1>4
    <2> HIDE DEF SettingUp, Looping, Accesses
    <2>2. todo' \in Seq(Accesses) /\ resets' \in Nat /\ mode' \in Modes
          /\ pin' \in [dir : Dirs, high : {0, 1}]
      BY <1>1 DEF Reset, TypeOK, Modes, Dirs
    <2>3. QED
      BY <1>1, <2>1, <2>2 DEF TypeOK
  <1>6. (OnlyHW /\ PinSafe /\ DrivesLast /\ ReleasesFirst)'
    BY <1>1, <1>3 DEF OnlyHW, PinSafe, DrivesLast, ReleasesFirst
  <1>7. TunedWhenSending'
    <2>1. app' = "OOKTransmit" => calls' = setup /\ calls' \notin Looping
      BY <1>1, <1>4, SettingUpNotLooping
    <2>2. setup # << "setPowerLevel" >>
      BY <1>4, SettingUpIs
    <2>3. QED
      BY <1>1, <1>3, <2>1, <2>2 DEF TunedWhenSending
  <1>8. QED
    BY <1>2, <1>5, <1>6, <1>7

LEMMA NextIInv == IInv /\ [Next]_vars => IInv'
  <1> SUFFICES ASSUME IInv, [Next]_vars PROVE IInv'
    OBVIOUS
  <1>1. CASE UNCHANGED vars
    BY <1>1 DEF vars, IInv, TypeOK, FreshStart, Fresh, WillBeInStep, Fits, OnlyHW, PinSafe,
                DrivesLast, ReleasesFirst, TunedWhenSending, Left
  <1>2. QED
    BY <1>1, CallIInv, AccessIInv, ChipReadyIInv, ResetIInv DEF Next

LEMMA Inductive == Spec => []IInv
  BY InitIInv, NextIInv, PTL DEF Spec

\* The accesses left are accesses, the modes are modes, and the programs are
\* where they can be.
THEOREM TypeCorrect == Spec => []TypeOK
  BY Inductive, PTL DEF IInv

\* The program never drives the data pin while its own edges would interrupt
\* it or while the chip drives it as well: in no legal order of calls and after
\* no reset, at no access of any call.
THEOREM PinNeverContested == Spec => []PinSafe
  BY Inductive, PTL DEF IInv

\* Between any two calls _mode is the mode of the chip, and the amplifier, the
\* interrupt and the pin are what that mode needs.
THEOREM DriverInStep == Spec => []InStep
  <1>1. IInv => InStep
    <2> SUFFICES ASSUME IInv PROVE InStep
      OBVIOUS
    <2>1. chip.testpa => hw
      BY DEF IInv, OnlyHW
    <2>2. ASSUME todo = << >>, ~Fresh
          PROVE  chip.mode = mode /\ Fits(mode, chip.testpa, attached, pin.dir)
      BY <2>2, NowInStep DEF IInv
    <2>3. QED
      BY <2>1, <2>2 DEF InStep, Fresh, Fits
  <1>2. QED
    BY <1>1, Inductive, PTL

\* OOKTransmit keys the carrier only when frequency and power are set.
THEOREM CarrierOnlyTuned == Spec => []CarrierTuned
  <1>1. IInv => CarrierTuned
    BY DEF IInv, TunedWhenSending, CarrierTuned, FRFs
  <1>2. QED
    BY <1>1, Inductive, PTL
=============================================================================
