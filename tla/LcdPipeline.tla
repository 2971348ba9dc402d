---------------------------- MODULE LcdPipeline ----------------------------
(***************************************************************************)
(* display_pretty_colors of lcd.c: a strip of Lines rows is calculated     *)
(* into one buffer while the SPI driver is still sending the strip before  *)
(* it from the other one.                                                  *)
(*                                                                         *)
(* The task's steps are interleaved with those of the driver (SpiLcd).  A  *)
(* pixel row is a tag <<frame, row>>: the frame whose offsets and the      *)
(* picture row it was calculated from.  frame is an int that only grows;   *)
(* frames are told apart modulo FrameMod.                                  *)
(***************************************************************************)
EXTENDS SpiLcd

CONSTANT FrameMod

ASSUME FrameModAssumption == FrameMod \in Nat \ {0, 1}

\* "Make sure 240 is dividable by this" (lcd.h): the loop over a frame ends
\* exactly at the last row.
ASSUME LinesDivideHeight == Height % Lines = 0

\* main.c asks for a queue of 7; the six transactions of a strip have to fit.
ASSUME QueueHoldsStrip == QueueSize >= 6

VARIABLES
  pc,            \* where display_pretty_colors is
  frame,         \* the frame being calculated
  prev_frame,    \* the frame pretty_effect's offset tables belong to
  y,             \* first row of the strip being calculated or sent
  k,             \* rows of it already calculated
  sending_line,  \* buffer being sent, or NoLine
  calc_line,     \* buffer being calculated
  x              \* loop index of send_lines and send_line_finish

taskVars == << pc, frame, prev_frame, y, k, sending_line, calc_line, x >>
vars == << trans, lines, spiVars, panelVars, taskVars >>

Trans6 == 6   \* transactions per strip

Init ==
  /\ SpiLcdInit
  /\ pc = "calc" /\ frame = 1 /\ prev_frame = -1 /\ y = 0 /\ k = 0
  /\ sending_line = NoLine /\ calc_line = 0 /\ x = 0

(***************************************************************************)
(* pretty_effect_calc_lines: a new frame first rebuilds the offset tables, *)
(* then the strip is written row by row into lines[calc_line].             *)
(***************************************************************************)
\* Slip: the static offset tables are not rebuilt when the frame changes.
OffsetsStale == IF prev_frame = -1 THEN frame ELSE prev_frame

Offsets == frame

\* Slip: a strip is calculated into the buffer the driver was given last.
CalcBufferSame == IF sending_line = NoLine THEN calc_line ELSE sending_line

CalcBuffer == calc_line

\* Slip: the wait for the strip before is left out at the start of a frame.
MustFinishInFrame == sending_line # NoLine /\ y # 0

MustFinish == sending_line # NoLine

CalcRow ==
  /\ pc = "calc"
  /\ prev_frame' = Offsets
  /\ lines' = [lines EXCEPT ![CalcBuffer][k] = <<prev_frame', y + k>>]
  /\ k' = (k + 1) % Lines
  /\ pc' = IF k + 1 < Lines THEN "calc"
           ELSE IF MustFinish THEN "finish" ELSE "send"
  /\ UNCHANGED << trans, spiVars, panelVars, frame, y, sending_line, calc_line, x >>

(***************************************************************************)
(* send_line_finish: collect the results of all the transactions of the    *)
(* strip before, waiting without a timeout for each.                       *)
(***************************************************************************)
\* Slip: one result too few is collected.
ResultsWantedFewer == 5

ResultsWanted == 6

FinishLine ==
  /\ pc = "finish"
  /\ retQ # << >>
  /\ retQ' = Tail(retQ)
  /\ x' = (x + 1) % ResultsWanted
  /\ pc' = IF x + 1 < ResultsWanted THEN "finish" ELSE "send"
  /\ UNCHANGED << trans, lines, transQ, onWire, sent, dc, panelVars,
                  frame, prev_frame, y, k, sending_line, calc_line >>

(***************************************************************************)
(* The buffers are swapped and send_lines rewrites its static descriptors  *)
(* for the strip: columns, rows and pixels, each a command with D/C low    *)
(* followed by its data with D/C high.                                     *)
(***************************************************************************)
StripDescriptors(ypos, b) ==
  << Command("CASET"), Args(0, 320), Command("PASET"),
     Args(ypos, ypos + Lines), Command("RAMWR"), Pixels(b) >>

SendLines ==
  /\ pc = "send"
  /\ sending_line' = calc_line
  /\ calc_line' = IF calc_line = 1 THEN 0 ELSE 1
  /\ trans' = [i \in Index |-> StripDescriptors(y, sending_line')[i + 1]]
  /\ x' = 0
  /\ pc' = "queue"
  /\ UNCHANGED << lines, spiVars, panelVars, frame, prev_frame, y, k >>

(***************************************************************************)
(* ... and queues them, waiting without a timeout for a free place.  After *)
(* the last one the loop goes on to the next strip or the next frame.      *)
(***************************************************************************)
\* Slip: <= for < in the loop over the strips.
MoreStripsLate == y + Lines <= Height

MoreStrips == y + Lines < Height

QueueTrans ==
  /\ pc = "queue"
  /\ Len(transQ) < QueueSize
  /\ transQ' = Append(transQ, x)
  /\ IF x + 1 < Trans6
     THEN x' = x + 1 /\ UNCHANGED << pc, y, frame >>
     ELSE /\ x' = 0
          /\ pc' = "calc"
          /\ IF MoreStrips
             THEN y' = y + Lines /\ UNCHANGED frame
             ELSE y' = 0 /\ frame' = (frame % FrameMod) + 1
  /\ UNCHANGED << trans, lines, onWire, sent, retQ, dc, panelVars,
                  prev_frame, k, sending_line, calc_line >>

Task == CalcRow \/ FinishLine \/ SendLines \/ QueueTrans

Next == Task \/ (Driver /\ UNCHANGED taskVars)

\* The task is the only one of the application and is woken when a queue it
\* waits for moves; the driver is driven by the SPI interrupt.
Fairness == WF_vars(Task) /\ WF_vars(Driver /\ UNCHANGED taskVars)

Spec == Init /\ [][Next]_vars /\ Fairness

-----------------------------------------------------------------------------

\* What a tag and a descriptor can be.
Tags  == (0 .. FrameMod) \X Nat
Descs == [user : {0, 1}, cmd : {"none", "CASET", "PASET", "RAMWR"},
          args : Nat \X Nat, line : {NoLine, 0, 1}]

\* The type invariant of the task, the driver and the panel.
TypeOK ==
  /\ trans \in [Index -> Descs]
  /\ lines \in [{0, 1} -> [0 .. Lines - 1 -> Tags]]
  /\ transQ \in Seq(Index) /\ onWire \in Index \cup {NoTrans}
  /\ sent \in Nat /\ retQ \in Seq(Index) /\ dc \in {0, 1}
  /\ reg \in {"none", "CASET", "PASET", "RAMWR"}
  /\ page \in Nat \X Nat /\ ptr \in Nat /\ gram \in [Rows -> Tags]
  /\ pc \in {"calc", "finish", "send", "queue"}
  /\ frame \in 1 .. FrameMod /\ prev_frame \in {-1} \cup 1 .. FrameMod
  /\ y \in Rows /\ k \in 0 .. Lines - 1 /\ x \in 0 .. 5
  /\ sending_line \in {NoLine, 0, 1} /\ calc_line \in {0, 1}

\* "We can go on to calculate the next line set as long as we do not touch
\* line[sending_line]; the SPI sending process is still reading from that":
\* no descriptor the driver may still read points to the buffer the task is
\* writing.
NoBufferRace == pc = "calc" => \A i \in Index : Owned(i) => trans[i].line # CalcBuffer

\* The static descriptors: "we need this memory even when this function is
\* finished because the SPI driver needs access to it".  No step rewrites a
\* descriptor the driver may still read.
DescriptorsStable == [][\A i \in Index : Owned(i) => trans'[i] = trans[i]]_vars

\* "We want to be able to queue 7 transactions at a time" (main.c): the queue
\* is long enough for the task never to wait for a place in it, and for the
\* interrupt never to lose a result.
QueuesSuffice ==
  /\ pc = "queue" => Len(transQ) < QueueSize
  /\ onWire # NoTrans => Len(retQ) < QueueSize

\* What a viewer sees: a row that shows anything but its own pixels is "torn".
Screen ==
  [r \in Rows |-> IF gram[r] = Blank THEN 0
                  ELSE IF gram[r][2] = r THEN gram[r][1] ELSE -1]

Display == INSTANCE LcdDisplay WITH screen <- Screen

\* The pipeline shows what LcdDisplay promises: every row its own pixels,
\* painted from the top, one frame after the other, for ever.
ShowsPicture == Display!Spec
============================================================================
