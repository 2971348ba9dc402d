-------------------------------- MODULE Radio --------------------------------
(***************************************************************************)
(* The OOK transmitter (earth_hour_433): the driver RFM69OOK.cpp, the      *)
(* registers of the radio chip it keeps in step with its own state, the    *)
(* data pin they share, and the programs that call the driver:             *)
(* OOKTransmit.cpp, and one that uses the other modes as well.             *)
(*                                                                         *)
(* A call of the driver is the sequence of its accesses.  An access to a   *)
(* register is atomic: select turns interrupts off and unselect on again.  *)
(* The chip is external: it gets ready in its own time, and a reset of the *)
(* program leaves it as it is.                                             *)
(***************************************************************************)
EXTENDS Integers, Sequences

CONSTANTS MaxResets   \* bound on the resets of the program

ASSUME MaxResetsAssumption == MaxResets \in Nat

VARIABLES
  app,        \* "OOKTransmit" or "transceiver"; fixed
  hw,         \* _isRFM69HW; fixed
  chip,       \* registers of the chip
  pin,        \* the data pin of the program: direction and level written
  attached,   \* the pin interrupt is attached
  mode,       \* _mode
  todo,       \* the accesses left of the call in progress
  calls,      \* OOKTransmit: the calls left; transceiver: "init" when there
              \* was no call of initialize yet
  resets

vars == << app, hw, chip, pin, attached, mode, todo, calls, resets >>

Modes == {"SLEEP", "STANDBY", "RX", "TX"}

-----------------------------------------------------------------------------
(* The calls *)

\* Slip: the amplifier stays at high power when the radio turns to reception.
setModeBoosted(m) ==
  IF m = mode THEN << >>
  ELSE << << "OPMODE", m >> >>
       \o (IF hw /\ m = "TX" THEN << << "TESTPA", TRUE >> >> ELSE << >>)
       \o (IF mode = "SLEEP" THEN << << "MODEREADY" >> >> ELSE << >>)
       \o << << "_mode", m >> >>

\* Waits only when it leaves SLEEP.
setMode(m) ==
  IF m = mode THEN << >>
  ELSE << << "OPMODE", m >> >>
       \o (IF hw /\ m \in {"TX", "RX"} THEN << << "TESTPA", m = "TX" >> >>
           ELSE << >>)
       \o (IF mode = "SLEEP" THEN << << "MODEREADY" >> >> ELSE << >>)
       \o << << "_mode", m >> >>

initialize ==
  << << "OPMODE", "STANDBY" >>, << "CONFIG" >>, << "PALEVEL", hw >> >>
    \o setMode("STANDBY") \o << << "MODEREADY" >> >>

\* Slip: the pin is driven while its interrupt is attached.
transmitBeginEarly ==
  setMode("TX") \o << << "pin", "OUTPUT" >>, << "attach", FALSE >> >>

transmitBegin ==
  setMode("TX") \o << << "attach", FALSE >>, << "pin", "OUTPUT" >> >>

transmitEnd == << << "pin", "INPUT" >> >> \o setMode("STANDBY")

receiveBegin ==
  << << "pin", "INPUT" >>, << "attach", TRUE >> >> \o setMode("RX")

receiveEnd == setMode("STANDBY") \o << << "attach", FALSE >> >>

sleep == setMode("SLEEP")

\* Slip: the frequency is left half written.
setFrequencyShort == << << "FRF", "MSB" >>, << "FRF", "MID" >> >>

setFrequency == << << "FRF", "MSB" >>, << "FRF", "MID" >>, << "FRF", "LSB" >> >>

setPowerLevel == << << "LEVEL" >> >>

\* Slip: the temperature is measured in whatever mode the radio is.
readTemperatureAnyMode == << << "START", "TEMP" >>, << "DONE", "TEMP" >> >>

readTemperature ==
  setMode("STANDBY") \o << << "START", "TEMP" >>, << "DONE", "TEMP" >> >>

rcCalibration == << << "START", "RCCAL" >>, << "DONE", "RCCAL" >> >>

\* With forceTrigger; without it one register is read.
readRSSI == << << "START", "RSSI" >>, << "DONE", "RSSI" >> >>

\* One register each that no other call depends on: setBitrate, setBandwidth,
\* setRSSIThreshold, setFixedThreshold and setSensitivityBoost.
settings == << << "CONFIG" >> >>

send(b) == << << "data", b >> >>

-----------------------------------------------------------------------------
(* OOKTransmit.cpp: the names of the calls of setup and loop, in order *)

setup == << "initialize", "transmitBegin", "setFrequency", "setPowerLevel" >>
loop == << "send1", "send0", "send1", "send0", "send1", "send0" >>

CallOf(name) ==
  CASE name = "initialize" -> initialize
    [] name = "transmitBegin" -> transmitBegin
    [] name = "transmitEnd" -> transmitEnd
    [] name = "receiveBegin" -> receiveBegin
    [] name = "receiveEnd" -> receiveEnd
    [] name = "sleep" -> sleep
    [] name = "setFrequency" -> setFrequency
    [] name = "setPowerLevel" -> setPowerLevel
    [] name = "readTemperature" -> readTemperature
    [] name = "rcCalibration" -> rcCalibration
    [] name = "readRSSI" -> readRSSI
    [] name = "settings" -> settings
    [] name = "send1" -> send(1)
    [] name = "send0" -> send(0)

\* What may be called next: a transmission or reception is begun at any time,
\* ended by its own call, and the rest is called in between; the signal is
\* measured in reception, the oscillator calibrated in standby.
Legal ==
  {"transmitBegin", "receiveBegin", "settings"}
    \cup (IF mode = "TX" THEN {"send1", "send0", "transmitEnd"}
          ELSE IF mode = "RX" THEN {"receiveEnd", "readRSSI"}
          ELSE {"sleep", "readTemperature", "initialize", "setFrequency"}
                 \cup (IF mode = "STANDBY" THEN {"rcCalibration"} ELSE {}))

Init ==
  /\ app \in {"OOKTransmit", "transceiver"} /\ hw \in BOOLEAN
  /\ chip = [ mode |-> "STANDBY", ready |-> TRUE, testpa |-> FALSE,
              frf |-> {}, level |-> FALSE, busy |-> {} ]
  /\ pin = [dir |-> "INPUT", high |-> 0]
  /\ attached = FALSE /\ mode = "STANDBY"
  /\ todo = << >> /\ calls = (IF app = "OOKTransmit" THEN setup ELSE << "initialize" >>)
  /\ resets = 0

Call ==
  /\ todo = << >>
  /\ IF calls # << >>
     THEN todo' = CallOf(Head(calls)) /\ calls' = Tail(calls)
     ELSE IF app = "OOKTransmit"
     THEN todo' = CallOf(Head(loop)) /\ calls' = Tail(loop)
     ELSE \E name \in Legal : todo' = CallOf(name) /\ calls' = << >>
  /\ UNCHANGED << app, hw, chip, pin, attached, mode, resets >>

-----------------------------------------------------------------------------
(* The accesses *)

Doing(what) == todo # << >> /\ Head(todo)[1] = what
Arg == Head(todo)[2]
Done == todo' = Tail(todo) /\ UNCHANGED << app, hw, calls, resets >>

writeOPMODE ==
  /\ Doing("OPMODE")
  /\ chip' = [chip EXCEPT !.mode = Arg, !.ready = (@ /\ chip.mode = Arg)]
  /\ UNCHANGED << pin, attached, mode >> /\ Done

\* The other registers written: only those later calls depend on.
writeReg ==
  /\ \/ Doing("TESTPA") /\ chip' = [chip EXCEPT !.testpa = Arg]
     \/ Doing("FRF") /\ chip' = [chip EXCEPT !.frf = @ \cup {Arg}]
     \/ Doing("LEVEL") /\ chip' = [chip EXCEPT !.level = TRUE]
     \/ Doing("START") /\ chip' = [chip EXCEPT !.busy = @ \cup {Arg}]
     \/ (Doing("CONFIG") \/ Doing("PALEVEL")) /\ UNCHANGED chip
  /\ UNCHANGED << pin, attached, mode >> /\ Done

\* The loops that read a flag until it is set.
readFlag ==
  /\ \/ Doing("MODEREADY") /\ chip.ready
     \/ Doing("DONE") /\ Arg \notin chip.busy
  /\ UNCHANGED << chip, pin, attached, mode >> /\ Done

setPin ==
  /\ \/ Doing("pin") /\ pin' = [pin EXCEPT !.dir = Arg]
     \/ Doing("data") /\ pin' = [pin EXCEPT !.high = Arg]
  /\ UNCHANGED << chip, attached, mode >> /\ Done

attachInterrupt ==
  /\ Doing("attach") /\ attached' = Arg
  /\ UNCHANGED << chip, pin, mode >> /\ Done

storeMode ==
  /\ Doing("_mode") /\ mode' = Arg
  /\ UNCHANGED << chip, pin, attached >> /\ Done

\* What the chip measures, and the mode it does so in.
Measured == [TEMP |-> "STANDBY", RCCAL |-> "STANDBY", RSSI |-> "RX"]

\* The chip reaches the mode written, or ends a measurement.
ChipReady ==
  /\ \/ ~chip.ready /\ chip' = [chip EXCEPT !.ready = TRUE]
     \/ \E m \in chip.busy : chip.ready /\ chip.mode = Measured[m]
                             /\ chip' = [chip EXCEPT !.busy = @ \ {m}]
  /\ UNCHANGED << app, hw, pin, attached, mode, todo, calls, resets >>

\* The program starts again: its pins and variables, not the chip.
Reset ==
  /\ resets < MaxResets /\ resets' = resets + 1
  /\ pin' = [dir |-> "INPUT", high |-> 0] /\ attached' = FALSE
  /\ mode' = "STANDBY" /\ todo' = << >>
  /\ calls' = (IF app = "OOKTransmit" THEN setup ELSE << "initialize" >>)
  /\ UNCHANGED << app, hw, chip >>

Access ==
  writeOPMODE \/ writeReg \/ readFlag \/ setPin \/ attachInterrupt \/ storeMode

Next == Call \/ Access \/ ChipReady \/ Reset

\* The program runs, and the chip gets done what it was told.
Spec ==
  Init /\ [][Next]_vars /\ WF_vars(Access) /\ WF_vars(ChipReady)

-----------------------------------------------------------------------------
(* Properties *)

\* At no point of any call the program drives the data pin while its own edges
\* would interrupt it, or while the chip drives the pin as well, as it does in
\* reception: the order of the accesses in transmitBegin, transmitEnd and
\* receiveBegin.
PinSafe ==
  pin.dir = "OUTPUT" => ~attached /\ chip.mode # "RX"

\* Between two calls the driver knows the mode of the chip, whatever was called
\* before and wherever the program was reset: setMode relies on it to write
\* nothing; the chip is at high power when it sends and never when it receives,
\* never at any time when it has no amplifier for it, and only reception has the
\* interrupt attached.
InStep ==
  /\ chip.testpa => hw
  /\ todo = << >> /\ calls \notin { setup, << "initialize" >> } =>
    /\ chip.mode = mode
    /\ mode = "RX" => ~chip.testpa
    /\ mode = "TX" => (chip.testpa <=> hw)
    /\ attached => mode = "RX"
    /\ pin.dir = "OUTPUT" => mode = "TX"

\* OOKTransmit sets the radio to transmit before the frequency and the power
\* are set; all the same it keys the carrier only when both were, every
\* register of them.
CarrierTuned ==
  app = "OOKTransmit" /\ chip.mode = "TX" /\ pin = [dir |-> "OUTPUT", high |-> 1]
    => chip.frf = {"MSB", "MID", "LSB"} /\ chip.level

\* Every call returns, also the ones that wait for the chip: none waits for a
\* flag the chip does not set in the mode it was left in.
CallsReturn == todo # << >> ~> todo = << >>
=============================================================================
