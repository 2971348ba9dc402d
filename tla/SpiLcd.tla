------------------------------ MODULE SpiLcd ------------------------------
(***************************************************************************)
(* The hardware side of the LCD example, outside the repository and        *)
(* modelled from how lcd.c uses it: the queued ("interrupt") transactions  *)
(* of the SPI master driver and the panel controller behind the bus.       *)
(*                                                                         *)
(* The driver is handed POINTERS: to the transaction descriptors of        *)
(* send_lines (trans) and, through the last descriptor, to a pixel buffer  *)
(* (lines).  It reads what they point to when the transfer takes place,    *)
(* not when the transaction is queued, and it runs between any two steps   *)
(* of the task.                                                            *)
(***************************************************************************)
EXTENDS Integers, Sequences

CONSTANTS
  Height,     \* rows of the picture, 240
  Lines,      \* PARALLEL_LINES: rows of a pixel buffer
  QueueSize   \* queue_size given to spi_bus_add_device in main.c

ASSUME SpiLcdAssumption ==
  /\ Height \in Nat \ {0}
  /\ Lines \in Nat \ {0}
  /\ QueueSize \in Nat \ {0}

VARIABLES
  trans,    \* the static descriptors of send_lines
  lines,    \* the two pixel buffers; every row holds a tag <<frame, row>>
  transQ,   \* descriptors queued, not yet on the wire
  onWire,   \* the descriptor being transferred, or NoTrans
  sent,     \* how much of it was sent (one unit, or one per pixel row)
  retQ,     \* finished descriptors, not yet collected
  dc,       \* level of the data/command pin
  reg,      \* the panel's command register
  page,     \* the panel's row window <<first, last>>
  ptr,      \* the row the panel writes next
  gram      \* the panel's memory, a tag per row

spiVars   == << transQ, onWire, sent, retQ, dc >>
panelVars == << reg, page, ptr, gram >>

NoTrans == -1
NoLine  == -1
Index   == 0 .. 5
Rows    == 0 .. Height - 1
Blank   == <<0, 0>>

(***************************************************************************)
(* A descriptor: the D/C level it asks for (user) and what it sends: a     *)
(* command byte, a pair of arguments or the rows of a pixel buffer.        *)
(***************************************************************************)
Command(c)  == [user |-> 0, cmd |-> c,      args |-> <<0, 0>>, line |-> NoLine]
Args(a, b)  == [user |-> 1, cmd |-> "none", args |-> <<a, b>>, line |-> NoLine]
Pixels(b)   == [user |-> 1, cmd |-> "none", args |-> <<0, 0>>, line |-> b]

Units(d) == IF d.line = NoLine THEN 1 ELSE Lines

\* The driver may still read descriptor i: it is queued or on the wire.
Owned(i) == onWire = i \/ \E k \in 1 .. Len(transQ) : transQ[k] = i

SpiLcdInit ==
  /\ trans = [i \in Index |-> Command("none")]
  /\ lines = [b \in {0, 1} |-> [k \in 0 .. Lines - 1 |-> Blank]]
  /\ transQ = << >> /\ onWire = NoTrans /\ sent = 0 /\ retQ = << >>
  /\ dc = 0 /\ reg = "none" /\ page = <<0, Height - 1>> /\ ptr = 0
  /\ gram = [r \in Rows |-> Blank]

(***************************************************************************)
(* lcd_spi_pre_transfer_callback runs in the interrupt that starts a       *)
(* transfer and copies the descriptor's user field to the D/C pin.         *)
(***************************************************************************)
PreTransfer(t) == t.user

StartTransfer ==
  /\ onWire = NoTrans
  /\ transQ # << >>
  /\ onWire' = Head(transQ)
  /\ transQ' = Tail(transQ)
  /\ dc' = PreTransfer(trans[Head(transQ)])
  /\ sent' = 0
  /\ UNCHANGED << trans, lines, retQ, panelVars >>

(***************************************************************************)
(* One unit reaches the panel, which takes it as a command or as data      *)
(* according to the pin.  RAMWR puts the row pointer at the start of the   *)
(* window; each row of pixels moves it on, round the window.  Rows outside *)
(* the panel are dropped.                                                  *)
(***************************************************************************)
PanelCommand(d) ==
  /\ reg' = d.cmd
  /\ ptr' = IF d.cmd = "RAMWR" THEN page[1] ELSE ptr
  /\ UNCHANGED << page, gram >>

PanelData(d) ==
  IF d.line # NoLine /\ reg = "RAMWR"
  THEN /\ gram' = IF ptr \in Rows THEN [gram EXCEPT ![ptr] = lines[d.line][sent]]
                                  ELSE gram
       /\ ptr' = IF ptr = page[2] THEN page[1] ELSE ptr + 1
       /\ UNCHANGED << reg, page >>
  ELSE /\ page' = IF d.line = NoLine /\ reg = "PASET" THEN d.args ELSE page
       /\ UNCHANGED << reg, ptr, gram >>

Transfer ==
  /\ onWire # NoTrans
  /\ sent < Units(trans[onWire])
  /\ IF dc = 0 THEN PanelCommand(trans[onWire]) ELSE PanelData(trans[onWire])
  /\ sent' = sent + 1
  /\ UNCHANGED << trans, lines, transQ, onWire, retQ, dc >>

\* The interrupt that ends a transfer puts the descriptor into the queue of
\* results, which has QueueSize places; a result that finds it full is lost.
EndTransfer ==
  /\ onWire # NoTrans
  /\ sent = Units(trans[onWire])
  /\ retQ' = IF Len(retQ) < QueueSize THEN Append(retQ, onWire) ELSE retQ
  /\ onWire' = NoTrans
  /\ UNCHANGED << trans, lines, transQ, sent, dc, panelVars >>

Driver == StartTransfer \/ Transfer \/ EndTransfer
============================================================================
