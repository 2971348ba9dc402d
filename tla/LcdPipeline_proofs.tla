------------------------- MODULE LcdPipeline_proofs -------------------------
(***************************************************************************)
(* Proofs about LcdPipeline, for every picture height, strip size, queue   *)
(* size of at least six and number of frames told apart.                   *)
(***************************************************************************)
EXTENDS LcdPipeline, TLAPS

\* How many descriptors the task has queued and not collected yet.
Outstanding ==
  IF pc = "queue" THEN x
  ELSE IF pc = "finish" THEN 6 - x
  ELSE IF pc = "calc" /\ sending_line # NoLine THEN 6 ELSE 0

\* The driver and its queues hold exactly the outstanding descriptors.
Conserved ==
  Len(transQ) + (IF onWire = NoTrans THEN 0 ELSE 1) + Len(retQ) = Outstanding

\* The buffer handed over last is the only one a descriptor points to, and it
\* is never the one being calculated.
Separated ==
  /\ sending_line # calc_line
  /\ \A i \in Index : trans[i].line \in {NoLine, sending_line}

\* The loop index is back at 0 outside the two loops that use it.
LoopIndex ==
  /\ pc \in {"calc", "send"} => x = 0
  /\ pc \in {"finish", "queue"} => sending_line # NoLine

IInv == TypeOK /\ Conserved /\ Separated /\ LoopIndex

USE SpiLcdAssumption, FrameModAssumption, QueueHoldsStrip

-----------------------------------------------------------------------------

LEMMA ModuloBound ==
  ASSUME NEW m \in Nat \ {0}, NEW a \in Nat
  PROVE  a % m \in 0 .. m - 1
  OBVIOUS

LEMMA InitTypeOK == Init => TypeOK
  <1> SUFFICES ASSUME Init PROVE TypeOK
    OBVIOUS
  <1> USE DEF Init, SpiLcdInit, TypeOK, Index, Rows, Blank, NoLine, NoTrans
  <1>1. Blank \in Tags
    BY DEF Tags
  <1>2. Command("none") \in Descs
    BY DEF Command, Descs
  <1>3. QED
    BY <1>1, <1>2

\* The descriptors send_lines writes are descriptors.
LEMMA StripDescriptorsType ==
  ASSUME NEW a \in Nat, NEW b \in {0, 1}, NEW i \in Index
  PROVE  StripDescriptors(a, b)[i + 1] \in Descs
  <1>1. a + Lines \in Nat
    OBVIOUS
  <1>2. i \in {0, 1, 2, 3, 4, 5}
    BY DEF Index
  <1>3. QED
    BY <1>1, <1>2 DEF StripDescriptors, Command, Args, Pixels, Descs, NoLine

\* ... and the last one is the only one with a buffer.
LEMMA StripDescriptorsLine ==
  ASSUME NEW a \in Nat, NEW b \in {0, 1}, NEW i \in Index
  PROVE  StripDescriptors(a, b)[i + 1].line \in {NoLine, b}
  <1>1. i \in {0, 1, 2, 3, 4, 5}
    BY DEF Index
  <1>2. QED
    BY <1>1 DEF StripDescriptors, Command, Args, Pixels, NoLine

LEMMA NextTypeOK == TypeOK /\ [Next]_vars => TypeOK'
  <1> SUFFICES ASSUME TypeOK, [Next]_vars PROVE TypeOK'
    OBVIOUS
  <1>1. CASE CalcRow
    <2>1. prev_frame' = frame /\ prev_frame' \in 0 .. FrameMod
      BY <1>1 DEF CalcRow, Offsets, TypeOK
    <2>2. y + k \in Nat
      BY DEF TypeOK, Rows
    <2>3. <<prev_frame', y + k>> \in Tags
      BY <2>1, <2>2 DEF Tags
    <2>4. lines' \in [{0, 1} -> [0 .. Lines - 1 -> Tags]]
      BY <1>1, <2>3 DEF CalcRow, CalcBuffer, TypeOK
    <2>5. k' \in 0 .. Lines - 1
      BY <1>1 DEF CalcRow, TypeOK
    <2>6. QED
      BY <1>1, <2>1, <2>4, <2>5 DEF CalcRow, TypeOK, spiVars, panelVars
  <1>2. CASE FinishLine
    BY <1>2 DEF FinishLine, ResultsWanted, TypeOK, panelVars
  <1>3. CASE SendLines
    <2>1. sending_line' \in {0, 1} /\ calc_line' \in {0, 1} /\ x' \in 0 .. 5
      BY <1>3 DEF SendLines, TypeOK
    <2>2. trans' \in [Index -> Descs]
      BY <1>3, <2>1, StripDescriptorsType DEF SendLines, TypeOK, Rows
    <2>3. QED
      BY <1>3, <2>1, <2>2 DEF SendLines, TypeOK, spiVars, panelVars
  <1>4. CASE QueueTrans
    <2>1. x \in Index /\ transQ' \in Seq(Index)
      BY <1>4 DEF QueueTrans, TypeOK, Index
    <2>2. x' \in 0 .. 5 /\ y' \in Rows
      <3>1. (x + 1 < 6 /\ x' = x + 1) \/ x' = 0
        BY <1>4 DEF QueueTrans, Trans6
      <3>2. y' = y \/ (y + Lines < Height /\ y' = y + Lines) \/ y' = 0
        BY <1>4 DEF QueueTrans, MoreStrips
      <3>3. x \in 0 .. 5 /\ y \in 0 .. Height - 1
        BY DEF TypeOK, Rows
      <3>4. QED
        BY <3>1, <3>2, <3>3 DEF Rows
    <2>3. frame' \in 1 .. FrameMod
      <3>1. (frame % FrameMod) + 1 \in 1 .. FrameMod
        BY ModuloBound DEF TypeOK
      <3>2. frame' = frame \/ frame' = (frame % FrameMod) + 1
        BY <1>4 DEF QueueTrans, Trans6
      <3>3. QED
        BY <3>1, <3>2 DEF TypeOK
    <2>4. QED
      BY <1>4, <2>1, <2>2, <2>3 DEF QueueTrans, TypeOK, panelVars
  <1>5. CASE StartTransfer /\ UNCHANGED taskVars
    <2>1. Head(transQ) \in Index /\ Tail(transQ) \in Seq(Index)
      BY <1>5 DEF StartTransfer, TypeOK
    <2>2. dc' \in {0, 1}
      BY <1>5, <2>1 DEF StartTransfer, PreTransfer, TypeOK, Descs
    <2>3. QED
      BY <1>5, <2>1, <2>2 DEF StartTransfer, TypeOK, panelVars, taskVars
  <1>6. CASE Transfer /\ UNCHANGED taskVars
    <2> DEFINE d == trans[onWire]
    <2>1. d \in Descs /\ onWire \in Index
      BY <1>6 DEF Transfer, TypeOK
    <2>2. sent' \in Nat
      BY <1>6 DEF Transfer, TypeOK
    <2>3. CASE PanelCommand(d)
      <3>1. reg' \in {"none", "CASET", "PASET", "RAMWR"} /\ ptr' \in Nat
        BY <2>1, <2>3 DEF PanelCommand, TypeOK, Descs
      <3>2. QED
        BY <1>6, <2>2, <2>3, <3>1 DEF Transfer, PanelCommand, TypeOK, taskVars
    <2>4. CASE PanelData(d)
      <3>1. CASE d.line # NoLine /\ reg = "RAMWR"
        <4>1. d.line \in {0, 1}
          BY <2>1, <3>1 DEF Descs
        <4>2. sent \in 0 .. Lines - 1
          BY <1>6, <3>1 DEF Transfer, Units, TypeOK
        <4>3. lines[d.line][sent] \in Tags
          BY <4>1, <4>2 DEF TypeOK
        <4>4. gram' \in [Rows -> Tags]
          BY <2>4, <3>1, <4>3 DEF PanelData, TypeOK
        <4>5. ptr' \in Nat
          BY <2>4, <3>1 DEF PanelData, TypeOK
        <4>6. QED
          BY <1>6, <2>2, <2>4, <3>1, <4>4, <4>5
             DEF Transfer, PanelData, TypeOK, taskVars
      <3>2. CASE ~(d.line # NoLine /\ reg = "RAMWR")
        <4>1. page' \in Nat \X Nat
          BY <2>1, <2>4, <3>2 DEF PanelData, TypeOK, Descs
        <4>2. QED
          BY <1>6, <2>2, <2>4, <3>2, <4>1 DEF Transfer, PanelData, TypeOK, taskVars
      <3>3. QED
        BY <3>1, <3>2
    <2>5. QED
      BY <1>6, <2>3, <2>4 DEF Transfer
  <1>7. CASE EndTransfer /\ UNCHANGED taskVars
    <2>1. onWire \in Index
      BY <1>7 DEF EndTransfer, TypeOK
    <2>2. retQ' \in Seq(Index)
      BY <1>7, <2>1 DEF EndTransfer, TypeOK
    <2>3. QED
      BY <1>7, <2>2 DEF EndTransfer, TypeOK, panelVars, taskVars
  <1>8. CASE UNCHANGED vars
    BY <1>8 DEF vars, spiVars, panelVars, taskVars, TypeOK
  <1>9. QED
    BY <1>1, <1>2, <1>3, <1>4, <1>5, <1>6, <1>7, <1>8 DEF Next, Task, Driver

-----------------------------------------------------------------------------

LEMMA InitIInv == Init => IInv
  <1> SUFFICES ASSUME Init PROVE IInv
    OBVIOUS
  <1>1. Conserved /\ LoopIndex
    BY DEF Init, SpiLcdInit, Conserved, Outstanding, LoopIndex, NoTrans, NoLine
  <1>2. Separated
    BY DEF Init, SpiLcdInit, Separated, Command, NoLine
  <1>3. QED
    BY <1>1, <1>2, InitTypeOK DEF IInv

\* At most six descriptors are outstanding.
LEMMA OutstandingBound ==
  ASSUME TypeOK PROVE Outstanding \in 0 .. 6
  BY DEF TypeOK, Outstanding

\* The queue is long enough: neither the task nor the interrupt finds it full.
LEMMA QueuesSufficeLemma == IInv => QueuesSuffice
  <1> SUFFICES ASSUME IInv PROVE QueuesSuffice
    OBVIOUS
  <1>1. Len(transQ) \in Nat /\ Len(retQ) \in Nat
    BY DEF IInv, TypeOK
  <1>2. ASSUME pc = "queue" PROVE Len(transQ) < QueueSize
    BY <1>1, <1>2 DEF IInv, TypeOK, Conserved, Outstanding
  <1>3. ASSUME onWire # NoTrans PROVE Len(retQ) < QueueSize
    BY <1>1, <1>3, OutstandingBound DEF IInv, Conserved
  <1>4. QED
    BY <1>2, <1>3 DEF QueuesSuffice

LEMMA NextConserved == IInv /\ [Next]_vars => (Conserved /\ LoopIndex)'
  <1> SUFFICES ASSUME IInv, [Next]_vars PROVE (Conserved /\ LoopIndex)'
    OBVIOUS
  <1> USE DEF IInv, Conserved, Outstanding, LoopIndex
  <1>0. Len(transQ) \in Nat /\ Len(retQ) \in Nat /\ x \in 0 .. 5
    BY DEF TypeOK
  <1>1. CASE CalcRow
    BY <1>1 DEF CalcRow, MustFinish, TypeOK, spiVars
  <1>2. CASE FinishLine
    <2>1. Len(retQ') = Len(retQ) - 1
      BY <1>2 DEF FinishLine, TypeOK
    <2>2. CASE x = 5
      BY <1>0, <1>2, <2>1, <2>2 DEF FinishLine, ResultsWanted, TypeOK
    <2>3. CASE x # 5
      <3>1. (x + 1) % 6 = x + 1 /\ x + 1 < 6
        BY <1>0, <2>3
      <3>2. x' = x + 1 /\ pc' = "finish"
        BY <1>2, <3>1 DEF FinishLine, ResultsWanted
      <3>3. QED
        BY <1>0, <1>2, <2>1, <3>2 DEF FinishLine, TypeOK
    <2>4. QED
      BY <2>2, <2>3
  <1>3. CASE SendLines
    BY <1>3 DEF SendLines, TypeOK, spiVars, NoLine
  <1>4. CASE QueueTrans
    <2>1. Len(transQ') = Len(transQ) + 1
      BY <1>4 DEF QueueTrans, TypeOK, Index
    <2>2. /\ pc = "queue" /\ onWire' = onWire /\ retQ' = retQ
          /\ sending_line' = sending_line
          /\ \/ x + 1 < 6 /\ x' = x + 1 /\ pc' = pc
             \/ ~(x + 1 < 6) /\ x' = 0 /\ pc' = "calc"
      BY <1>4 DEF QueueTrans, Trans6
    <2>3. QED
      BY <1>0, <2>1, <2>2
  <1>5. CASE StartTransfer /\ UNCHANGED taskVars
    <2>1. Len(transQ') = Len(transQ) - 1 /\ Head(transQ) \in Index
      BY <1>5 DEF StartTransfer, TypeOK
    <2>2. onWire = NoTrans /\ onWire' # NoTrans
      BY <1>5, <2>1 DEF StartTransfer, Index, NoTrans
    <2>3. QED
      BY <1>0, <1>5, <2>1, <2>2 DEF StartTransfer, taskVars
  <1>6. CASE Transfer /\ UNCHANGED taskVars
    BY <1>6 DEF Transfer, taskVars
  <1>7. CASE EndTransfer /\ UNCHANGED taskVars
    <2>1. Len(retQ) < QueueSize
      BY <1>7, QueuesSufficeLemma DEF EndTransfer, QueuesSuffice
    <2>2. Len(retQ') = Len(retQ) + 1
      BY <1>7, <2>1 DEF EndTransfer, TypeOK
    <2>3. QED
      BY <1>0, <1>7, <2>2 DEF EndTransfer, taskVars
  <1>8. CASE UNCHANGED vars
    BY <1>8 DEF vars, spiVars, taskVars
  <1>9. QED
    BY <1>1, <1>2, <1>3, <1>4, <1>5, <1>6, <1>7, <1>8 DEF Next, Task, Driver

LEMMA NextSeparated == IInv /\ [Next]_vars => Separated'
  <1> SUFFICES ASSUME IInv, [Next]_vars PROVE Separated'
    OBVIOUS
  <1>1. CASE SendLines
    <2>1. sending_line' \in {0, 1} /\ sending_line' # calc_line'
      BY <1>1 DEF SendLines, IInv, TypeOK
    <2>2. \A i \in Index : trans'[i].line \in {NoLine, sending_line'}
      BY <1>1, <2>1, StripDescriptorsLine DEF SendLines, IInv, TypeOK, Rows
    <2>3. QED
      BY <2>1, <2>2 DEF Separated
  <1>2. ASSUME UNCHANGED << trans, sending_line, calc_line >> PROVE Separated'
    BY <1>2 DEF IInv, Separated
  <1>3. UNCHANGED << trans, sending_line, calc_line >> \/ SendLines
    BY DEF Next, Task, Driver, CalcRow, FinishLine, QueueTrans, StartTransfer,
           Transfer, EndTransfer, taskVars, vars
  <1>4. QED
    BY <1>1, <1>2, <1>3

LEMMA NextIInv == IInv /\ [Next]_vars => IInv'
  BY NextTypeOK, NextConserved, NextSeparated DEF IInv

LEMMA Inductive == Spec => []IInv
  BY InitIInv, NextIInv, PTL DEF Spec

-----------------------------------------------------------------------------

\* Type correctness of the task, the driver and the panel.
THEOREM TypeCorrect == Spec => []TypeOK
  BY InitTypeOK, NextTypeOK, PTL DEF Spec

\* The task never writes the buffer the driver may still be reading.
THEOREM BufferRaceFree == Spec => []NoBufferRace
  <1>1. IInv => NoBufferRace
    <2> SUFFICES ASSUME IInv, NEW i \in Index PROVE trans[i].line # calc_line
      BY DEF NoBufferRace, CalcBuffer
    <2>1. trans[i].line \in {NoLine, sending_line} /\ sending_line # calc_line
      BY DEF IInv, Separated
    <2>2. calc_line # NoLine
      BY DEF IInv, TypeOK, NoLine
    <2>3. QED
      BY <2>1, <2>2
  <1>2. QED
    BY <1>1, Inductive, PTL

\* The task is never held up by a full queue, and no result is lost.
THEOREM QueuesLongEnough == Spec => []QueuesSuffice
  BY QueuesSufficeLemma, Inductive, PTL

\* No descriptor is rewritten while the driver may still read it.
THEOREM DescriptorsStayPut == Spec => DescriptorsStable
  <1>1. IInv /\ [Next]_vars
          => [\A i \in Index : Owned(i) => trans'[i] = trans[i]]_vars
    <2> SUFFICES ASSUME IInv, [Next]_vars, NEW i \in Index, Owned(i)
                 PROVE  trans'[i] = trans[i]
      OBVIOUS
    <2>1. CASE SendLines
      <3>1. Len(transQ) \in Nat /\ Len(retQ) \in Nat
        BY DEF IInv, TypeOK
      <3>2. Outstanding = 0
        BY <2>1 DEF SendLines, Outstanding
      <3>3. onWire = NoTrans /\ Len(transQ) = 0
        BY <3>1, <3>2 DEF IInv, Conserved
      <3>4. FALSE
        BY <3>3 DEF Owned, Index, NoTrans
      <3>5. QED
        BY <3>4
    <2>2. CASE UNCHANGED trans
      BY <2>2
    <2>3. UNCHANGED trans \/ SendLines
      BY DEF Next, Task, Driver, CalcRow, FinishLine, QueueTrans, StartTransfer,
             Transfer, EndTransfer, vars
    <2>4. QED
      BY <2>1, <2>2, <2>3
  <1>2. QED
    BY <1>1, Inductive, PTL DEF Spec, DescriptorsStable

-----------------------------------------------------------------------------
(***************************************************************************)
(* LcdPipeline implements LcdDisplay, step by step: what the panel shows   *)
(* starts blank, and every step of the task or the driver leaves it alone  *)
(* or paints the row the beam is about to paint.                           *)
(*                                                                         *)
(* The invariant follows a strip from the rows calculated to the rows      *)
(* painted.  The strip on its way is the one the descriptors were written  *)
(* for; its frame is in the tags of its buffer.                            *)
(***************************************************************************)

StripY == trans[3].args[1]
StripFrame == lines[sending_line][0][1]

\* The transactions of the strip that were started, and that have ended.
Started == (IF pc = "queue" THEN x ELSE 6) - Len(transQ)
Ended == Started - (IF onWire = NoTrans THEN 0 ELSE 1)

\* The panel has received (the beginning of) transaction i of the strip.
Received(i) == Ended > i \/ (onWire = i /\ sent > 0)

\* The rows of the strip that are painted.
Painted == IF onWire = 5 THEN sent ELSE IF Ended = 6 THEN Lines ELSE 0

\* The transactions are sent in the order they were queued in, each whole and
\* with the D/C level it asks for.
InOrder ==
  /\ \A i \in 1 .. Len(transQ) : transQ[i] = Started + i - 1
  /\ onWire # NoTrans => /\ onWire = Started - 1 /\ dc = trans[onWire].user
                         /\ sent <= Units(trans[onWire])

\* A strip begins at a multiple of Lines and fits the picture.
IsStrip(r) == r \in Rows /\ r + Lines <= Height /\ \E q \in Nat : r = q * Lines

NextFrame(f) == (f % FrameMod) + 1

\* The strip on its way has its own descriptors and pixels, and the next one is
\* being calculated.
OnItsWay ==
  sending_line # NoLine =>
    /\ \A i \in Index : trans[i] = StripDescriptors(StripY, sending_line)[i + 1]
    /\ IsStrip(StripY) /\ StripFrame \in 1 .. FrameMod
    /\ \A j \in 0 .. Lines - 1 : lines[sending_line][j] = << StripFrame, StripY + j >>
    /\ IF pc = "queue" THEN y = StripY /\ frame = StripFrame
       ELSE IF StripY + Lines < Height THEN y = StripY + Lines /\ frame = StripFrame
       ELSE y = 0 /\ frame = NextFrame(StripFrame)

Calculated ==
  /\ IsStrip(y) /\ (pc # "calc" => k = 0)
  /\ \A j \in 0 .. Lines - 1 :
       pc \in {"finish", "send"} \/ (pc = "calc" /\ j < k) =>
         lines[calc_line][j] = << frame, y + j >>

\* What the panel knows once it has received a part of the strip.
Panel ==
  sending_line # NoLine =>
    /\ Received(2) /\ ~Received(4) => reg = "PASET"
    /\ Received(3) => page = << StripY, StripY + Lines >>
    /\ Received(4) => reg = "RAMWR" /\ ptr = StripY + Painted

\* The rows above the beam show the frame of the strip, the others the frame
\* before it.
Picture ==
  IF sending_line = NoLine
  THEN /\ frame = 1 /\ y = 0 /\ pc \in {"calc", "send"}
       /\ \A r \in Rows : Screen[r] = 0
  ELSE \E old \in 0 .. FrameMod :
         /\ StripFrame = NextFrame(old)
         /\ \A r \in Rows : Screen[r] = IF r < StripY + Painted THEN StripFrame ELSE old

PInv == InOrder /\ OnItsWay /\ Calculated /\ Panel /\ Picture

USE SpiLcdAssumption, FrameModAssumption, QueueHoldsStrip

-----------------------------------------------------------------------------
(* Frames and strips *)

LEMMA SmallModulo ==
  ASSUME NEW m \in Nat, NEW a \in Nat, a < m
  PROVE  a % m = a
  OBVIOUS

LEMMA NextFrameIs ==
  ASSUME NEW f \in 0 .. FrameMod
  PROVE  NextFrame(f) \in 1 .. FrameMod /\ NextFrame(f) # f
  <1>1. CASE f = FrameMod
    <2>1. f % FrameMod = 0
      BY <1>1
    <2>2. QED
      BY <1>1, <2>1 DEF NextFrame
  <1>2. CASE f # FrameMod
    <2>1. f % FrameMod = f
      BY <1>2
    <2>2. QED
      BY <1>2, <2>1 DEF NextFrame
  <1>3. QED
    BY <1>1, <1>2

LEMMA FirstFrame == NextFrame(0) = 1
  BY DEF NextFrame

\* "Make sure 240 is dividable by this": another strip fits as long as a row is
\* left.
LEMMA Multiples ==
  ASSUME NEW q \in Nat, NEW h \in Nat, NEW l \in Nat, q * l < h * l
  PROVE  (q + 1) * l <= h * l
  <1>1. q < h
    BY SMT
  <1>2. q + 1 <= h
    BY <1>1
  <1>3. QED
    BY <1>2, SMT

LEMMA Strips == \E h \in Nat : Height = h * Lines
  <1> DEFINE h == Height \div Lines
  <1>1. Height = Lines * h + (Height % Lines)
    BY SMT
  <1>2. h \in Nat
    BY SMT
  <1> HIDE DEF h
  <1>3. Lines * h = h * Lines
    BY <1>2, SMT
  <1>4. Lines * h \in Nat
    BY <1>2, SMT
  <1>5. Height = h * Lines
    BY <1>1, <1>3, <1>4, LinesDivideHeight
  <1>6. QED
    BY <1>2, <1>5

LEMMA NextStrip ==
  ASSUME NEW r, IsStrip(r), r + Lines < Height
  PROVE  IsStrip(r + Lines)
  <1>1. PICK h \in Nat : Height = h * Lines
    BY Strips
  <1>2. PICK q \in Nat : r = q * Lines
    BY DEF IsStrip
  <1>3. r + Lines = (q + 1) * Lines /\ q + 1 \in Nat
    BY <1>2, SMT
  <1>4. (q + 1) * Lines < h * Lines
    BY <1>1, <1>3
  <1>5. (q + 1 + 1) * Lines <= h * Lines
    BY <1>3, <1>4, Multiples
  <1>6. (q + 1 + 1) * Lines = r + Lines + Lines
    BY <1>2, SMT
  <1>7. QED
    BY <1>1, <1>3, <1>5, <1>6 DEF IsStrip, Rows

LEMMA FirstStrip == IsStrip(0)
  <1>1. PICK h \in Nat : Height = h * Lines
    BY Strips
  <1>2. 0 * Lines < h * Lines
    BY <1>1
  <1>3. (0 + 1) * Lines <= h * Lines
    BY <1>2, Multiples
  <1>4. QED
    BY <1>1, <1>3 DEF IsStrip, Rows

-----------------------------------------------------------------------------
(* The transactions of a strip *)

LEMMA Counts ==
  ASSUME TypeOK, Conserved, InOrder
  PROVE  /\ Started \in 0 .. 6 /\ Ended \in 0 .. 6
         /\ onWire = NoTrans => Ended = Started
         /\ onWire # NoTrans => onWire = Ended /\ Ended \in 0 .. 5
         /\ transQ # << >> => Started \in 0 .. 5
         /\ Outstanding = 0 => transQ = << >> /\ onWire = NoTrans
         /\ sending_line = NoLine => Outstanding = 0 \/ pc \in {"queue", "finish"}
  <1>1. /\ Len(transQ) \in Nat /\ Len(retQ) \in Nat /\ x \in 0 .. 5
        /\ pc \in {"calc", "finish", "send", "queue"}
        /\ transQ # << >> => Len(transQ) > 0
        /\ Len(transQ) = 0 => transQ = << >>
    BY DEF TypeOK, NoTrans, Index
  <1>2. Len(transQ) + (IF onWire = NoTrans THEN 0 ELSE 1) + Len(retQ) = Outstanding
    BY DEF Conserved
  <1>3. /\ Outstanding \in 0 .. 6
        /\ Outstanding <= IF pc = "queue" THEN x ELSE 6
        /\ (sending_line = NoLine) => Outstanding = 0 \/ pc \in {"queue", "finish"}
    BY <1>1 DEF Outstanding
  <1>4. /\ Outstanding = 0 => Len(transQ) = 0 /\ onWire = NoTrans
        /\ Started \in 0 .. 6 /\ Ended \in 0 .. 6
        /\ Len(transQ) > 0 => Started \in 0 .. 5
        /\ onWire # NoTrans => Ended = Started - 1
        /\ onWire = NoTrans => Ended = Started
    <2> DEFINE top == IF pc = "queue" THEN x ELSE 6
               busy == IF onWire = NoTrans THEN 0 ELSE 1
               queued == Len(transQ)
               done == Len(retQ)
    <2>1. Started = top - queued /\ Ended = Started - busy
      BY DEF Started, Ended
    <2>2. top \in 0 .. 6 /\ Outstanding <= top
      BY <1>1, <1>3
    <2>3. IF onWire = NoTrans THEN busy = 0 ELSE busy = 1
      OBVIOUS
    <2>4. queued + busy + done = Outstanding /\ queued \in Nat /\ done \in Nat
      BY <1>1, <1>2
    <2>5. Outstanding \in 0 .. 6
      BY <1>3
    <2> HIDE DEF top, busy, queued, done
    <2>6. /\ Outstanding = 0 => queued = 0 /\ onWire = NoTrans
          /\ Started \in 0 .. 6 /\ Ended \in 0 .. 6
          /\ queued > 0 => Started \in 0 .. 5
          /\ onWire # NoTrans => Ended = Started - 1
          /\ onWire = NoTrans => Ended = Started
      BY <2>1, <2>2, <2>3, <2>4, <2>5
    <2>7. QED
      BY <2>6 DEF queued
  <1>5. onWire # NoTrans => onWire = Started - 1
    BY DEF InOrder
  <1>6. QED
    BY <1>1, <1>3, <1>4, <1>5

\* A strip that is neither touched nor moved on stays as it is on the screen.
LEMMA Unseen ==
  ASSUME Panel, Picture, sending_line # NoLine,
         UNCHANGED << panelVars, sending_line, StripY, StripFrame,
                      Ended, onWire, sent >>
  PROVE  Panel' /\ Picture'
  <1>1. UNCHANGED << reg, page, ptr, gram, sending_line, onWire, sent >>
    BY DEF panelVars
  <1>2. Painted' = Painted /\ \A i \in Index : Received(i)' = Received(i)
    BY <1>1 DEF Painted, Received
  <1>3. Screen' = Screen
    BY <1>1 DEF Screen
  <1>4. Panel'
    BY <1>1, <1>2 DEF Panel, Index
  <1>5. Picture'
    BY <1>1, <1>2, <1>3 DEF Picture
  <1>6. QED
    BY <1>4, <1>5

LEMMA PictureInit == Init => PInv
  <1> SUFFICES ASSUME Init PROVE PInv
    OBVIOUS
  <1>1. InOrder /\ OnItsWay /\ Panel
    BY DEF Init, SpiLcdInit, InOrder, OnItsWay, Panel
  <1>2. Calculated
    BY FirstStrip DEF Init, Calculated
  <1>3. Picture
    BY DEF Init, SpiLcdInit, Picture, Screen
  <1>4. QED
    BY <1>1, <1>2, <1>3 DEF PInv

LEMMA CalcRowPicture ==
  ASSUME IInv, PInv, CalcRow
  PROVE  PInv'
  <1> USE DEF CalcRow, CalcBuffer, Offsets, PInv
  <1>1. /\ pc = "calc" /\ pc' \in {"calc", "finish", "send"}
        /\ calc_line \in {0, 1} /\ sending_line \in {NoLine, 0, 1}
        /\ sending_line # calc_line /\ k \in 0 .. Lines - 1
        /\ lines \in [{0, 1} -> [0 .. Lines - 1 -> Tags]]
    BY DEF IInv, TypeOK, Separated, MustFinish
  <1>2. UNCHANGED << trans, transQ, onWire, sent, dc, reg, page, ptr, gram, x,
                     sending_line, calc_line, frame, y >>
    BY DEF spiVars, panelVars
  <1>3. UNCHANGED << Started, Ended >>
    BY <1>1, <1>2 DEF Started, Ended
  <1>4. sending_line # NoLine => lines'[sending_line] = lines[sending_line]
    BY <1>1
  <1>5. InOrder'
    BY <1>2, <1>3 DEF InOrder
  <1>6. sending_line # NoLine => UNCHANGED << StripY, StripFrame >>
    BY <1>2, <1>4 DEF StripY, StripFrame
  <1>7. OnItsWay'
    BY <1>1, <1>2, <1>4, <1>6 DEF OnItsWay
  <1>8. Calculated'
    <2>1. \A j \in 0 .. Lines - 1 :
            lines'[calc_line][j] = IF j = k THEN << frame, y + k >>
                                            ELSE lines[calc_line][j]
      BY <1>1, <1>2
    <2>2. IF k + 1 < Lines THEN pc' = "calc" /\ k' = k + 1
                           ELSE pc' \in {"finish", "send"} /\ k' = 0 /\ k + 1 = Lines
      <3>1. k + 1 < Lines => (k + 1) % Lines = k + 1
        <4>1. k + 1 \in Nat /\ Lines \in Nat
          BY <1>1
        <4>2. QED
          BY <4>1, SmallModulo
      <3>2. ~(k + 1 < Lines) => k + 1 = Lines /\ Lines % Lines = 0
        BY <1>1
      <3>3. QED
        BY <1>1, <3>1, <3>2
    <2>3. \A j \in 0 .. Lines - 1 : j < k => lines[calc_line][j] = << frame, y + j >>
      BY <1>1 DEF Calculated
    <2>4. pc' # "calc" => k' = 0
      BY <1>2, <2>2 DEF Calculated
    <2>5. ASSUME NEW j \in 0 .. Lines - 1,
                 pc' \in {"finish", "send"} \/ (pc' = "calc" /\ j < k')
          PROVE  lines'[calc_line'][j] = << frame', y' + j >>
      <3>1. j = k \/ j < k
        BY <1>1, <2>2, <2>5
      <3>2. QED
        BY <1>2, <2>1, <2>3, <3>1
    <2>6. IsStrip(y')
      BY <1>2 DEF Calculated
    <2>7. QED
      BY <2>4, <2>5, <2>6 DEF Calculated
  <1>9. CASE sending_line # NoLine
    <2>1. Panel' /\ Picture'
      BY <1>2, <1>3, <1>6, <1>9, Unseen DEF panelVars
    <2>2. QED
      BY <1>5, <1>7, <1>8, <2>1
  <1>10. CASE sending_line = NoLine
    <2>1. pc' # "finish"
      BY <1>10 DEF MustFinish
    <2>2. Screen' = Screen
      BY <1>2 DEF Screen
    <2>3. Panel' /\ Picture'
      BY <1>1, <1>2, <1>10, <2>1, <2>2 DEF Panel, Picture
    <2>4. QED
      BY <1>5, <1>7, <1>8, <2>3
  <1>11. QED
    BY <1>9, <1>10

LEMMA FinishLinePicture ==
  ASSUME IInv, PInv, FinishLine
  PROVE  PInv'
  <1> USE DEF FinishLine, PInv
  <1>1. /\ pc = "finish" /\ pc' \in {"finish", "send"}
        /\ sending_line # NoLine
    BY DEF IInv, LoopIndex
  <1>2. UNCHANGED << trans, lines, transQ, onWire, sent, dc, reg, page, ptr, gram,
                     sending_line, calc_line, frame, y, k >>
    BY DEF panelVars
  <1>3. UNCHANGED << Started, Ended, StripY, StripFrame >>
    BY <1>1, <1>2 DEF Started, Ended, StripY, StripFrame
  <1>4. InOrder'
    BY <1>2, <1>3 DEF InOrder
  <1>5. OnItsWay'
    BY <1>1, <1>2, <1>3 DEF OnItsWay
  <1>6. Calculated'
    BY <1>1, <1>2 DEF Calculated, IsStrip
  <1>7. Panel' /\ Picture'
    BY <1>1, <1>2, <1>3, Unseen DEF panelVars
  <1>8. QED
    BY <1>4, <1>5, <1>6, <1>7

LEMMA QueueTransPicture ==
  ASSUME IInv, PInv, QueueTrans
  PROVE  PInv'
  <1> USE DEF QueueTrans, Trans6, PInv
  <1>1. /\ pc = "queue" /\ sending_line # NoLine /\ x \in 0 .. 5
        /\ transQ \in Seq(Index) /\ transQ' = Append(transQ, x) /\ k = 0
    BY DEF IInv, LoopIndex, TypeOK, Calculated
  <1>2. UNCHANGED << trans, lines, onWire, sent, dc, reg, page, ptr, gram,
                     sending_line, calc_line, k >>
    BY DEF panelVars
  <1>3. Len(transQ') = Len(transQ) + 1 /\ Len(transQ) \in Nat
    BY <1>1 DEF Index
  <1>4. IF x + 1 < 6 THEN x' = x + 1 /\ pc' = "queue" /\ UNCHANGED << y, frame >>
        ELSE /\ x = 5 /\ pc' = "calc"
             /\ IF MoreStrips
                THEN y' = y + Lines /\ UNCHANGED frame
                ELSE y' = 0 /\ frame' = NextFrame(frame)
    BY <1>1 DEF NextFrame
  <1>5. UNCHANGED << Started, Ended, StripY, StripFrame >>
    BY <1>1, <1>2, <1>3, <1>4 DEF Started, Ended, StripY, StripFrame
  <1>6. InOrder'
    <2>1. ASSUME NEW i \in 1 .. Len(transQ') PROVE transQ'[i] = Started + i - 1
      <3>1. CASE i = Len(transQ) + 1
        BY <1>1, <1>3, <3>1 DEF Started, Index
      <3>2. CASE i # Len(transQ) + 1
        BY <1>1, <1>3, <2>1, <3>2 DEF InOrder, Index
      <3>3. QED
        BY <3>1, <3>2
    <2>2. QED
      BY <1>2, <1>5, <2>1 DEF InOrder
  <1>7. OnItsWay'
    <2>1. IsStrip(StripY') /\ StripFrame' \in 1 .. FrameMod
      BY <1>1, <1>5 DEF OnItsWay
    <2>2. y = StripY /\ frame = StripFrame
      BY <1>1 DEF OnItsWay
    <2>3. QED
      BY <1>1, <1>2, <1>4, <1>5, <2>1, <2>2 DEF OnItsWay, MoreStrips
  <1>8. Calculated'
    <2>1. IsStrip(y')
      BY <1>4, NextStrip, FirstStrip DEF MoreStrips, Calculated
    <2>2. QED
      BY <1>1, <1>2, <1>4, <2>1 DEF Calculated
  <1>9. Panel' /\ Picture'
    BY <1>1, <1>2, <1>5, Unseen DEF panelVars
  <1>10. QED
    BY <1>6, <1>7, <1>8, <1>9

LEMMA SendLinesPicture ==
  ASSUME IInv, PInv, SendLines
  PROVE  PInv'
  <1> USE DEF SendLines, PInv
  <1>1. /\ pc = "send" /\ pc' = "queue" /\ x' = 0 /\ k' = k
        /\ calc_line \in {0, 1} /\ sending_line' = calc_line
        /\ sending_line' # NoLine
    BY DEF IInv, TypeOK, NoLine
  <1>2. UNCHANGED << lines, transQ, onWire, sent, dc, reg, page, ptr, gram,
                     frame, y, k >>
    BY DEF spiVars, panelVars
  <1>3. transQ = << >> /\ onWire = NoTrans /\ Started = 6 /\ Ended = 6
    BY <1>1, Counts DEF IInv, Outstanding, Started, Ended, NoTrans
  <1>4. Started' = 0 /\ Ended' = 0
    <2>1. Len(transQ') = 0 /\ onWire' = NoTrans
      BY <1>2, <1>3
    <2>2. Started' = 0
      BY <1>1, <2>1 DEF Started
    <2>3. QED
      BY <2>1, <2>2 DEF Ended
  <1>5. Painted' = 0
    BY <1>2, <1>3, <1>4 DEF Painted, NoTrans
  <1>6. \A i \in Index : trans'[i] = StripDescriptors(y, calc_line)[i + 1]
    BY <1>1
  <1>7. y \in Nat /\ IsStrip(y) /\ frame \in 1 .. FrameMod
    BY DEF IInv, TypeOK, Rows, Calculated
  <1>8. StripY' = y
    <2>1. trans'[3] = StripDescriptors(y, calc_line)[4]
      BY <1>6 DEF Index
    <2>2. QED
      BY <2>1 DEF StripY, StripDescriptors, Args
  <1>9. \A j \in 0 .. Lines - 1 : lines'[sending_line'][j] = << frame, y + j >>
    BY <1>1, <1>2 DEF Calculated
  <1>10. StripFrame' = frame
    BY <1>9 DEF StripFrame
  <1>11. InOrder'
    BY <1>2, <1>3 DEF InOrder
  <1>12. OnItsWay'
    BY <1>1, <1>2, <1>6, <1>7, <1>8, <1>9, <1>10 DEF OnItsWay
  <1>13. Calculated'
    BY <1>1, <1>2, <1>7 DEF Calculated
  <1>14. Panel'
    BY <1>2, <1>3, <1>4 DEF Panel, Received, NoTrans
  <1>15. Screen' = Screen
    BY <1>2 DEF Screen
  <1>16. PICK old \in 0 .. FrameMod :
            /\ frame = NextFrame(old)
            /\ \A r \in Rows : Screen[r] = IF r < y THEN frame ELSE old
    <2>1. CASE sending_line = NoLine
      <3>1. frame = NextFrame(0) /\ y = 0 /\ \A r \in Rows : Screen[r] = 0
        BY <2>1, FirstFrame DEF Picture
      <3>2. QED
        BY <3>1 DEF Rows
    <2>2. CASE sending_line # NoLine
      <3>1. Painted = Lines
        BY <1>3 DEF Painted, NoTrans
      <3>2. PICK before \in 0 .. FrameMod :
              /\ StripFrame = NextFrame(before)
              /\ \A r \in Rows :
                   Screen[r] = IF r < StripY + Lines THEN StripFrame ELSE before
        BY <2>2, <3>1 DEF Picture
      <3>3. CASE StripY + Lines < Height
        <4>1. y = StripY + Lines /\ frame = StripFrame
          BY <1>1, <2>2, <3>3 DEF OnItsWay
        <4>2. QED
          BY <3>2, <4>1
      <3>4. CASE ~(StripY + Lines < Height)
        <4>1. y = 0 /\ frame = NextFrame(StripFrame) /\ StripFrame \in 1 .. FrameMod
          BY <1>1, <2>2, <3>4 DEF OnItsWay
        <4>2. StripY \in Rows
          BY <2>2 DEF OnItsWay, IsStrip
        <4>3. \A r \in Rows : Screen[r] = StripFrame
          BY <3>2, <3>4, <4>2 DEF Rows
        <4>4. \A r \in Rows : ~(r < y)
          BY <4>1 DEF Rows
        <4>5. StripFrame \in 0 .. FrameMod
          BY <4>1
        <4>6. QED
          BY <4>1, <4>3, <4>4, <4>5
      <3>5. QED
        BY <3>3, <3>4
    <2>3. QED
      BY <2>1, <2>2
  <1>17. Picture'
    <2>1. StripY' + Painted' = y
      BY <1>5, <1>7, <1>8
    <2>2. QED
      BY <1>1, <1>10, <1>15, <1>16, <2>1 DEF Picture
  <1>18. QED
    BY <1>11, <1>12, <1>13, <1>14, <1>17

LEMMA StartTransferPicture ==
  ASSUME IInv, PInv, StartTransfer, UNCHANGED taskVars
  PROVE  PInv'
  <1> USE DEF StartTransfer, PInv
  <1>1. /\ transQ \in Seq(Index) /\ transQ # << >> /\ onWire = NoTrans
        /\ onWire' = Head(transQ) /\ transQ' = Tail(transQ) /\ sent' = 0
        /\ dc' = trans[Head(transQ)].user
        /\ trans \in [Index -> Descs]
    BY DEF IInv, TypeOK, PreTransfer
  <1>2. UNCHANGED << trans, lines, reg, page, ptr, gram, pc, frame, y, k, x,
                     sending_line, calc_line >>
    BY DEF taskVars, panelVars
  <1>3. Started \in 0 .. 5 /\ Ended = Started
    BY <1>1, Counts DEF IInv
  <1>4. /\ Len(transQ) \in Nat \ {0} /\ Len(transQ') = Len(transQ) - 1
        /\ Head(transQ) = transQ[1]
        /\ \A i \in 1 .. Len(transQ') : transQ'[i] = transQ[i + 1]
    BY <1>1
  <1>5. Started' = Started + 1
    <2> DEFINE top == IF pc = "queue" THEN x ELSE 6
    <2>1. Started = top - Len(transQ) /\ Started' = top - Len(transQ')
      BY <1>2 DEF Started
    <2>2. top \in Nat
      BY DEF IInv, TypeOK
    <2> HIDE DEF top
    <2>3. QED
      BY <1>4, <2>1, <2>2
  <1>6. \A i \in 1 .. Len(transQ) : transQ[i] = Started + i - 1
    BY DEF InOrder
  <1>7. onWire' = Started /\ onWire' # NoTrans
    BY <1>1, <1>3, <1>4, <1>6 DEF NoTrans
  <1>8. Ended' = Ended
    BY <1>3, <1>5, <1>7 DEF Ended
  <1>9. InOrder'
    <2>1. ASSUME NEW i \in 1 .. Len(transQ')
          PROVE  transQ'[i] = Started' + i - 1
      <3>1. i + 1 \in 1 .. Len(transQ)
        BY <1>4
      <3>2. transQ'[i] = Started + (i + 1) - 1
        BY <1>4, <1>6, <3>1
      <3>3. QED
        BY <1>3, <1>5, <3>2
    <2>2. onWire' = Started' - 1
      BY <1>3, <1>5, <1>7
    <2>3. dc' = trans'[onWire'].user
      BY <1>1, <1>2
    <2>4. sent' <= Units(trans'[onWire'])
      BY <1>1 DEF Units
    <2>5. QED
      BY <2>1, <2>2, <2>3, <2>4 DEF InOrder
  <1>10. OnItsWay' /\ Calculated'
    BY <1>2 DEF OnItsWay, Calculated, StripY, StripFrame, IsStrip
  <1>11. /\ UNCHANGED << StripY, StripFrame, Screen >>
         /\ Painted' = Painted
         /\ \A i \in Index : Received(i)' = Received(i)
    <2>1. UNCHANGED << StripY, StripFrame, Screen >>
      BY <1>2 DEF StripY, StripFrame, Screen
    <2>2. Painted' = Painted
      BY <1>1, <1>3, <1>7, <1>8 DEF Painted, NoTrans
    <2>3. \A i \in Index : Received(i)' = Received(i)
      BY <1>1, <1>8 DEF Received, Index, NoTrans
    <2>4. QED
      BY <2>1, <2>2, <2>3
  <1>12. Panel' /\ Picture'
    BY <1>2, <1>11 DEF Panel, Picture, Index
  <1>13. QED
    BY <1>9, <1>10, <1>12

LEMMA EndTransferPicture ==
  ASSUME IInv, PInv, EndTransfer, UNCHANGED taskVars
  PROVE  PInv'
  <1> USE DEF EndTransfer, PInv
  <1>1. onWire # NoTrans /\ onWire' = NoTrans /\ sent = Units(trans[onWire])
    OBVIOUS
  <1>2. UNCHANGED << trans, lines, transQ, sent, dc, reg, page, ptr, gram,
                     pc, frame, y, k, x, sending_line, calc_line >>
    BY DEF taskVars, panelVars
  <1>3. onWire = Ended /\ Ended \in 0 .. 5 /\ Started \in 0 .. 6
    BY <1>1, Counts DEF IInv
  <1>4. Started' = Started /\ Ended' = Started /\ Ended = Started - 1
    BY <1>1, <1>2, <1>3 DEF Started, Ended
  <1>5. sending_line # NoLine
    BY <1>1, Counts DEF IInv, LoopIndex
  <1>6. sent = IF onWire = 5 THEN Lines ELSE 1
    <2>1. trans[onWire] = StripDescriptors(StripY, sending_line)[onWire + 1]
      BY <1>3, <1>5 DEF OnItsWay, Index
    <2>2. onWire \in {0, 1, 2, 3, 4, 5} /\ sending_line \in {0, 1}
      BY <1>3, <1>5 DEF IInv, TypeOK, NoLine
    <2>3. QED
      BY <1>1, <2>1, <2>2, SMTT(30)
         DEF Units, StripDescriptors, Command, Args, Pixels, NoLine
  <1>7. InOrder'
    BY <1>1, <1>2, <1>4 DEF InOrder
  <1>8. OnItsWay' /\ Calculated'
    BY <1>2 DEF OnItsWay, Calculated, StripY, StripFrame, IsStrip
  <1>9. /\ UNCHANGED << StripY, StripFrame, Screen >>
        /\ Painted' = Painted
        /\ \A i \in Index : Received(i)' = Received(i)
    <2>1. UNCHANGED << StripY, StripFrame, Screen >>
      BY <1>2 DEF StripY, StripFrame, Screen
    <2>2. Painted' = Painted
      BY <1>1, <1>3, <1>4, <1>6 DEF Painted, NoTrans
    <2>3. \A i \in Index : Received(i)' = Received(i)
      BY <1>1, <1>2, <1>3, <1>4, <1>6 DEF Received, Index, NoTrans
    <2>4. QED
      BY <2>1, <2>2, <2>3
  <1>10. Panel' /\ Picture'
    BY <1>2, <1>5, <1>9 DEF Panel, Picture, Index
  <1>11. QED
    BY <1>7, <1>8, <1>10

-----------------------------------------------------------------------------
(* What a transfer does to the panel *)

\* Nothing but the panel and the count of units moves.
LEMMA TransferKeeps ==
  ASSUME IInv, PInv, Transfer, UNCHANGED taskVars
  PROVE  /\ UNCHANGED << trans, lines, transQ, onWire, dc, pc, frame, y, k, x,
                         sending_line, calc_line >>
         /\ UNCHANGED << Started, Ended, StripY, StripFrame >>
         /\ onWire # NoTrans /\ onWire = Ended /\ Ended \in 0 .. 5
         /\ onWire' # NoTrans
         /\ sending_line \in {0, 1} /\ sending_line # NoLine
         /\ sent \in Nat /\ sent' = sent + 1
         /\ OnItsWay' /\ Calculated'
  <1>1. /\ UNCHANGED << trans, lines, transQ, onWire, dc, pc, frame, y, k, x,
                        sending_line, calc_line >>
        /\ onWire # NoTrans /\ sent' = sent + 1
    BY DEF Transfer, taskVars
  <1>2. onWire = Ended /\ Ended \in 0 .. 5 /\ sending_line # NoLine
    BY <1>1, Counts DEF IInv, PInv, LoopIndex
  <1>3. sending_line \in {0, 1} /\ sent \in Nat
    BY <1>2 DEF IInv, TypeOK
  <1>4. UNCHANGED << Started, Ended, StripY, StripFrame >>
    BY <1>1 DEF Started, Ended, StripY, StripFrame
  <1>5. OnItsWay' /\ Calculated'
    BY <1>1, <1>4 DEF PInv, OnItsWay, Calculated, IsStrip
  <1>6. QED
    BY <1>1, <1>2, <1>3, <1>4, <1>5

\* Which unit it is that the panel takes.
LEMMA UnitTaken ==
  ASSUME IInv, PInv, Transfer, UNCHANGED taskVars
  PROVE  \/ onWire = 0 /\ sent = 0 /\ PanelCommand(Command("CASET"))
         \/ onWire = 1 /\ sent = 0 /\ PanelData(Args(0, 320))
         \/ onWire = 2 /\ sent = 0 /\ PanelCommand(Command("PASET"))
         \/ onWire = 3 /\ sent = 0 /\ PanelData(Args(StripY, StripY + Lines))
         \/ onWire = 4 /\ sent = 0 /\ PanelCommand(Command("RAMWR"))
         \/ /\ onWire = 5 /\ sent \in 0 .. Lines - 1
            /\ PanelData(Pixels(sending_line))
  <1>1. /\ onWire \in {0, 1, 2, 3, 4, 5} /\ onWire \in Index /\ onWire # NoTrans
        /\ sending_line # NoLine /\ sending_line \in {0, 1} /\ sent \in Nat
    BY TransferKeeps DEF Index
  <1>2. /\ trans[onWire] = StripDescriptors(StripY, sending_line)[onWire + 1]
        /\ dc = trans[onWire].user
    BY <1>1 DEF PInv, OnItsWay, InOrder
  <1>3. /\ sent < Units(trans[onWire])
        /\ IF dc = 0 THEN PanelCommand(trans[onWire]) ELSE PanelData(trans[onWire])
    BY DEF Transfer
  <1>4. CASE onWire \in {0, 2, 4}
    <2>1. /\ dc = 0 /\ Units(trans[onWire]) = 1
          /\ onWire = 0 => trans[onWire] = Command("CASET")
          /\ onWire = 2 => trans[onWire] = Command("PASET")
          /\ onWire = 4 => trans[onWire] = Command("RAMWR")
      BY <1>2, <1>4 DEF StripDescriptors, Command, Units
    <2>2. sent = 0
      BY <1>1, <1>3, <2>1
    <2>3. PanelCommand(trans[onWire])
      BY <1>3, <2>1
    <2>4. QED
      BY <1>4, <2>1, <2>2, <2>3
  <1>5. CASE onWire \in {1, 3}
    <2>1. /\ dc = 1 /\ Units(trans[onWire]) = 1
          /\ onWire = 1 => trans[onWire] = Args(0, 320)
          /\ onWire = 3 => trans[onWire] = Args(StripY, StripY + Lines)
      BY <1>2, <1>5 DEF StripDescriptors, Args, Units
    <2>2. sent = 0
      BY <1>1, <1>3, <2>1
    <2>3. PanelData(trans[onWire])
      BY <1>3, <2>1
    <2>4. QED
      BY <1>5, <2>1, <2>2, <2>3
  <1>6. CASE onWire = 5
    <2>1. /\ dc = 1 /\ Units(trans[onWire]) = Lines
          /\ trans[onWire] = Pixels(sending_line)
      BY <1>1, <1>2, <1>6 DEF StripDescriptors, Pixels, Units
    <2>2. sent \in 0 .. Lines - 1
      BY <1>1, <1>3, <2>1
    <2>3. PanelData(trans[onWire])
      BY <1>3, <2>1
    <2>4. QED
      BY <1>6, <2>1, <2>2, <2>3
  <1>7. QED
    BY <1>1, <1>4, <1>5, <1>6

\* A row of pixels: the panel writes it where the picture has it.
LEMMA RowTaken ==
  ASSUME IInv, PInv, Transfer, UNCHANGED taskVars, onWire = 5
  PROVE  /\ StripY + sent \in Rows /\ ptr = StripY + sent /\ ptr' = ptr + 1
         /\ UNCHANGED << reg, page >>
         /\ gram' = [gram EXCEPT ![ptr] = << StripFrame, ptr >>]
         /\ sent \in 0 .. Lines - 1
  <1>1. sent \in 0 .. Lines - 1 /\ PanelData(Pixels(sending_line))
    BY UnitTaken
  <1>2. /\ sending_line \in {0, 1} /\ sending_line # NoLine /\ Ended = 5
    BY TransferKeeps
  <1>3. /\ reg = "RAMWR" /\ page = << StripY, StripY + Lines >>
        /\ ptr = StripY + sent
    <2>1. Received(3) /\ Received(4) /\ Painted = sent
      BY <1>2 DEF Received, Painted
    <2>2. QED
      BY <1>2, <2>1 DEF PInv, Panel
  <1>4. StripY \in Rows /\ StripY + Lines <= Height
    BY <1>2 DEF PInv, OnItsWay, IsStrip
  <1>5. StripY + sent \in Rows
    BY <1>1, <1>4 DEF Rows
  <1>6. lines[sending_line][sent] = << StripFrame, StripY + sent >>
    BY <1>1, <1>2 DEF PInv, OnItsWay
  <1>7. ptr # page[2]
    BY <1>1, <1>3, <1>4 DEF Rows
  <1>8. /\ Pixels(sending_line).line = sending_line
    BY DEF Pixels
  <1>9. /\ gram' = [gram EXCEPT ![ptr] = lines[sending_line][sent]]
        /\ ptr' = ptr + 1 /\ UNCHANGED << reg, page >>
    BY <1>1, <1>2, <1>3, <1>5, <1>7, <1>8 DEF PanelData
  <1>10. QED
    BY <1>1, <1>3, <1>5, <1>6, <1>9

\* ... and somebody looking at it sees that row painted.
LEMMA RowSeen ==
  ASSUME IInv, PInv, Transfer, UNCHANGED taskVars, onWire = 5
  PROVE  Screen' = [Screen EXCEPT ![StripY + sent] = StripFrame]
  <1>1. /\ StripY + sent \in Rows /\ ptr = StripY + sent
        /\ gram' = [gram EXCEPT ![ptr] = << StripFrame, ptr >>]
    BY RowTaken
  <1>2. StripFrame \in 1 .. FrameMod
    BY TransferKeeps DEF PInv, OnItsWay
  <1>3. gram \in [Rows -> Tags]
    BY DEF IInv, TypeOK
  <1>4. << StripFrame, ptr >> # Blank
    BY <1>2 DEF Blank
  <1>5. ASSUME NEW r \in Rows
        PROVE  Screen'[r] = IF r = ptr THEN StripFrame ELSE Screen[r]
    <2>1. gram'[r] = IF r = ptr THEN << StripFrame, ptr >> ELSE gram[r]
      BY <1>1, <1>3
    <2>2. Screen'[r] = IF gram'[r] = Blank THEN 0
                       ELSE IF gram'[r][2] = r THEN gram'[r][1] ELSE -1
      BY DEF Screen
    <2>3. Screen[r] = IF gram[r] = Blank THEN 0
                      ELSE IF gram[r][2] = r THEN gram[r][1] ELSE -1
      BY DEF Screen
    <2>4. CASE r = ptr
      BY <1>4, <2>1, <2>2, <2>4
    <2>5. CASE r # ptr
      BY <2>1, <2>2, <2>3, <2>5
    <2>6. QED
      BY <2>4, <2>5
  <1>6. Screen = [r \in Rows |-> Screen[r]] /\ Screen' = [r \in Rows |-> Screen'[r]]
    BY DEF Screen
  <1>7. QED
    BY <1>1, <1>5, <1>6

LEMMA TransferPicture ==
  ASSUME IInv, PInv, Transfer, UNCHANGED taskVars
  PROVE  PInv'
  <1>1. /\ UNCHANGED << trans, lines, transQ, onWire, dc, pc, frame, y, k, x,
                        sending_line, calc_line >>
        /\ UNCHANGED << Started, Ended, StripY, StripFrame >>
        /\ onWire # NoTrans /\ onWire = Ended /\ Ended \in 0 .. 5
        /\ sending_line \in {0, 1} /\ sending_line # NoLine
        /\ sent \in Nat /\ sent' = sent + 1
    BY TransferKeeps
  <1>2. InOrder'
    <2>1. sent' <= Units(trans[onWire])
      BY <1>1 DEF Transfer, Units, IInv, TypeOK
    <2>2. QED
      BY <1>1, <2>1 DEF PInv, InOrder
  <1>3. OnItsWay' /\ Calculated'
    BY TransferKeeps
  <1>4. \A i \in Index : Received(i)' <=> Ended > i \/ Ended = i
    BY <1>1 DEF Received
  <1>5. \A i \in Index : Received(i) <=> Ended > i \/ (Ended = i /\ sent > 0)
    BY <1>1 DEF Received
  <1>6. CASE onWire = 5
    <2>1. /\ ptr = StripY + sent /\ ptr' = ptr + 1 /\ UNCHANGED << reg, page >>
          /\ StripY + sent \in Rows /\ sent \in 0 .. Lines - 1
      BY <1>6, RowTaken
    <2>2. Painted = sent /\ Painted' = sent + 1
      BY <1>1, <1>6 DEF Painted
    <2>3. StripY \in Rows /\ StripY + Lines <= Height
      BY <1>1 DEF PInv, OnItsWay, IsStrip
    <2>4. Panel'
      <3>1. reg = "RAMWR" /\ page = << StripY, StripY + Lines >>
        BY <1>1, <1>5, <1>6 DEF PInv, Panel, Index
      <3>2. ptr' = StripY' + Painted'
        BY <1>1, <2>1, <2>2, <2>3 DEF Rows
      <3>3. ~(~Received(4)')
        BY <1>1, <1>4, <1>6 DEF Index
      <3>4. QED
        BY <1>1, <2>1, <3>1, <3>2, <3>3 DEF Panel
    <2>5. PICK old \in 0 .. FrameMod :
            /\ StripFrame = NextFrame(old)
            /\ \A r \in Rows : Screen[r] = IF r < StripY + sent THEN StripFrame ELSE old
      BY <1>1, <2>2 DEF PInv, Picture
    <2>6. Screen' = [Screen EXCEPT ![StripY + sent] = StripFrame]
      BY <1>6, RowSeen
    <2>7. Screen = [r \in Rows |-> Screen[r]]
      BY DEF Screen
    <2>8. ASSUME NEW r \in Rows
          PROVE  Screen'[r] = IF r < StripY + Painted' THEN StripFrame ELSE old
      <3>1. r < StripY + Painted' <=> r = StripY + sent \/ r < StripY + sent
        BY <2>1, <2>2, <2>3 DEF Rows
      <3>2. Screen'[r] = IF r = StripY + sent THEN StripFrame ELSE Screen[r]
        BY <2>6, <2>7
      <3>3. QED
        BY <2>5, <3>1, <3>2
    <2>9. Picture'
      BY <1>1, <2>5, <2>8 DEF Picture
    <2>10. QED
      BY <1>2, <1>3, <2>4, <2>9 DEF PInv
  <1>7. CASE onWire # 5
    <2>1. UNCHANGED gram /\ sent = 0
      BY <1>7, UnitTaken DEF PanelCommand, PanelData, Command, Args
    <2>2. Screen' = Screen
      BY <2>1 DEF Screen
    <2>3. Painted = 0 /\ Painted' = 0
      BY <1>1, <1>7 DEF Painted
    <2>4. Picture'
      BY <1>1, <2>2, <2>3 DEF PInv, Picture
    <2>5. Panel'
      <3>1. CASE onWire \in {0, 1}
        BY <1>1, <1>4, <3>1 DEF Panel, Index
      <3>2. CASE onWire = 2
        <4>1. reg' = "PASET"
          BY <3>2, UnitTaken DEF PanelCommand, Command
        <4>2. QED
          BY <1>1, <1>4, <3>2, <4>1 DEF Panel, Index
      <3>3. CASE onWire = 3
        <4>1. reg = "PASET"
          BY <1>1, <1>5, <2>1, <3>3 DEF PInv, Panel, Index
        <4>2. PanelData(Args(StripY, StripY + Lines))
          BY <3>3, UnitTaken
        <4>3. reg' = reg /\ page' = << StripY, StripY + Lines >>
          BY <4>1, <4>2 DEF PanelData, Args
        <4>4. QED
          BY <1>1, <1>4, <3>3, <4>1, <4>3 DEF Panel, Index
      <3>4. CASE onWire = 4
        <4>1. page = << StripY, StripY + Lines >>
          BY <1>1, <1>5, <3>4 DEF PInv, Panel, Index
        <4>2. PanelCommand(Command("RAMWR"))
          BY <3>4, UnitTaken
        <4>3. reg' = "RAMWR" /\ ptr' = page[1] /\ page' = page
          BY <4>2 DEF PanelCommand, Command
        <4>4. StripY \in Nat
          BY <1>1 DEF PInv, OnItsWay, IsStrip, Rows
        <4>5. QED
          BY <1>1, <1>4, <2>3, <3>4, <4>1, <4>3, <4>4 DEF Panel, Index
      <3>5. QED
        BY <1>1, <1>7, <3>1, <3>2, <3>3, <3>4
    <2>6. QED
      BY <1>2, <1>3, <2>4, <2>5 DEF PInv
  <1>8. QED
    BY <1>6, <1>7

LEMMA NextPicture == IInv /\ PInv /\ [Next]_vars => PInv'
  <1> SUFFICES ASSUME IInv, PInv, [Next]_vars PROVE PInv'
    OBVIOUS
  <1>1. CASE UNCHANGED vars
    <2>1. UNCHANGED << trans, lines, transQ, onWire, sent, retQ, dc, reg, page, ptr,
                       gram, pc, frame, prev_frame, y, k, sending_line, calc_line, x >>
      BY <1>1 DEF vars, spiVars, panelVars, taskVars
    <2>2. UNCHANGED << Started, Ended, Painted, StripY, StripFrame, Screen >>
      BY <2>1 DEF Started, Ended, Painted, StripY, StripFrame, Screen
    <2>3. \A i \in Index : Received(i)' = Received(i)
      BY <2>1, <2>2 DEF Received
    <2>4. InOrder' /\ OnItsWay' /\ Calculated'
      BY <2>1, <2>2 DEF PInv, InOrder, OnItsWay, Calculated, IsStrip
    <2>5. Panel' /\ Picture'
      BY <2>1, <2>2, <2>3 DEF PInv, Panel, Picture, Index
    <2>6. QED
      BY <2>4, <2>5 DEF PInv
  <1>2. CASE Next
    BY <1>2, CalcRowPicture, FinishLinePicture, SendLinesPicture,
       QueueTransPicture, StartTransferPicture, TransferPicture, EndTransferPicture
       DEF Next, Task, Driver
  <1>3. QED
    BY <1>1, <1>2

-----------------------------------------------------------------------------
(* Each step paints the next row or nothing *)

\* The beam is where the new picture ends and the old one begins.
LEMMA BeamIs ==
  ASSUME NEW b \in Rows, NEW f, NEW old, f # old,
         \A r \in Rows : Screen[r] = IF r < b THEN f ELSE old
  PROVE  Display!Beam = b
  <1> DEFINE older == { r \in Rows : Screen[r] # Screen[0] }
  <1>1. Display!Rows = Rows
    BY DEF Display!Rows, Rows
  <1>2. Display!Beam = IF older = {} THEN 0
                       ELSE CHOOSE r \in older : \A s \in older : r <= s
    BY <1>1 DEF Display!Beam
  <1>3. 0 \in Rows
    BY DEF Rows
  <1>4. CASE b = 0
    <2>1. older = {}
      BY <1>3, <1>4 DEF Rows
    <2>2. QED
      BY <1>2, <1>4, <2>1
  <1>5. CASE b # 0
    <2>1. \A r \in Rows : r \in older <=> b <= r
      BY <1>3, <1>5 DEF Rows
    <2> HIDE DEF older
    <2>2. \A r \in older : r \in Rows
      BY DEF older
    <2>3. b \in older /\ \A s \in older : b <= s
      BY <2>1, <2>2 DEF Rows
    <2>4. \A r \in older : (\A s \in older : r <= s) => r = b
      BY <2>2, <2>3 DEF Rows
    <2>5. (CHOOSE r \in older : \A s \in older : r <= s) = b
      BY <2>3, <2>4
    <2>6. QED
      BY <1>2, <2>3, <2>5
  <1>6. QED
    BY <1>4, <1>5

LEMMA StepPaints ==
  ASSUME IInv, PInv, Next, Screen' # Screen
  PROVE  Display!Next
  <1>1. gram' # gram
    BY DEF Screen
  <1>2. Transfer /\ UNCHANGED taskVars
    BY <1>1 DEF Next, Task, Driver, CalcRow, FinishLine, SendLines, QueueTrans,
                StartTransfer, EndTransfer, panelVars
  <1>3. onWire = 5
    BY <1>1, <1>2, UnitTaken DEF PanelCommand, PanelData, Command, Args
  <1>4. StripY + sent \in Rows /\ sent \in 0 .. Lines - 1
    BY <1>2, <1>3, RowTaken
  <1>5. sending_line # NoLine /\ Painted = sent
    BY <1>2, <1>3, TransferKeeps DEF Painted
  <1>6. PICK old \in 0 .. FrameMod :
          /\ StripFrame = NextFrame(old)
          /\ \A r \in Rows : Screen[r] = IF r < StripY + sent THEN StripFrame ELSE old
    BY <1>5 DEF PInv, Picture
  <1>7. StripFrame # old
    BY <1>6, NextFrameIs
  <1>8. Display!Beam = StripY + sent
    BY <1>4, <1>6, <1>7, BeamIs
  <1>9. Screen' = [Screen EXCEPT ![StripY + sent] = StripFrame]
    BY <1>2, <1>3, RowSeen
  <1>10. StripFrame = IF Display!Beam = 0 THEN Display!NextFrame(Screen[0])
                                          ELSE Screen[0]
    <2>1. 0 \in Rows
      BY DEF Rows
    <2>2. CASE StripY + sent = 0
      <3>1. Screen[0] = old
        BY <1>6, <2>1, <2>2
      <3>2. Display!NextFrame(old) = NextFrame(old)
        BY DEF Display!NextFrame, NextFrame
      <3>3. QED
        BY <1>6, <1>8, <2>2, <3>1, <3>2
    <2>3. CASE StripY + sent # 0
      <3>1. 0 < StripY + sent
        BY <1>4, <2>3 DEF Rows
      <3>2. Screen[0] = StripFrame
        BY <1>6, <2>1, <3>1
      <3>3. QED
        BY <1>8, <2>3, <3>2
    <2>4. QED
      BY <2>2, <2>3
  <1>11. QED
    BY <1>8, <1>9, <1>10 DEF Display!Next, Display!Paint

LEMMA InitBlank == Init => Display!Init
  BY DEF Init, SpiLcdInit, Display!Init, Display!Rows, Screen, Rows

\* What somebody looking at the panel sees: it starts blank, and whatever the
\* task, the driver and the panel do next, either nothing on it changes or the
\* row below the last one painted takes the pixels of the frame being painted.
\* No row is ever torn, skipped or painted from another frame, however the
\* calculation of a strip and the sending of the one before it interleave
\* (display_pretty_colors).
THEOREM PaintsRowByRow == Spec => Display!Init /\ [][Display!Next]_Screen
  <1>1. Init => IInv /\ PInv /\ Display!Init
    BY InitIInv, PictureInit, InitBlank
  <1>2. IInv /\ PInv /\ [Next]_vars => IInv' /\ PInv'
    BY NextIInv, NextPicture
  <1>3. IInv /\ PInv /\ [Next]_vars => [Display!Next]_Screen
    <2> SUFFICES ASSUME IInv, PInv, [Next]_vars PROVE [Display!Next]_Screen
      OBVIOUS
    <2>1. CASE UNCHANGED vars
      <3>1. UNCHANGED gram
        BY <2>1 DEF vars, panelVars
      <3>2. QED
        BY <3>1 DEF Screen
    <2>2. CASE Next
      BY <2>2, StepPaints
    <2>3. QED
      BY <2>1, <2>2
  <1>4. QED
    BY <1>1, <1>2, <1>3, PTL DEF Spec
=============================================================================
