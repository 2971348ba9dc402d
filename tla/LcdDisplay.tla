---------------------------- MODULE LcdDisplay ----------------------------
(***************************************************************************)
(* What the LCD example promises to somebody looking at the panel: the     *)
(* picture is repainted for ever, row by row from the top, each row with   *)
(* the pixels calculated for that row of the frame being painted.  At any  *)
(* moment the rows above the beam show one frame and the rows below it     *)
(* show the frame before: no row shows anything else.                      *)
(*                                                                         *)
(* LcdPipeline, the model of lcd.c, implements this specification.         *)
(***************************************************************************)
EXTENDS Integers

CONSTANTS
  Height,    \* rows of the picture
  FrameMod   \* frames are told apart modulo FrameMod

VARIABLE screen   \* the frame each row was last painted from, 0 when blank

Rows == 0 .. Height - 1

\* The frame painted after frame f; a blank screen is followed by frame 1.
NextFrame(f) == (f % FrameMod) + 1

\* The row the beam is about to paint: the first row that is older than row 0,
\* or row 0 once all rows show the same frame.
Beam ==
  LET older == { r \in Rows : screen[r] # screen[0] }
  IN  IF older = {} THEN 0 ELSE CHOOSE r \in older : \A s \in older : r <= s

Init == screen = [r \in Rows |-> 0]

Paint ==
  screen' = [screen EXCEPT ![Beam] = IF Beam = 0 THEN NextFrame(screen[0])
                                                 ELSE screen[0]]

Next == Paint

Spec == Init /\ [][Next]_screen /\ WF_screen(Next)
============================================================================
