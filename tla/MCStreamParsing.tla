--------------------------- MODULE MCStreamParsing ---------------------------
(* Data at the sizes where the parsers take another path: empty, shorter   *)
(* and longer than the boundary with its dashes, and like a boundary.      *)
EXTENDS StreamParsing

D(vs) == [i \in DOMAIN vs |-> << "d", vs[i] >>]

OneBody ==
  { << << D(<<1, 2>>), D(<<3>>) >> >>, << << >> >>, << << D(<<1, 2, 3>>) >> >> }

TwoBodies == { << << D(<<1, 2>>) >>, << D(<<3>>) >> >> }

X(n) == [i \in 1..n |-> "x"]
LikeBoundary == << "x", "r", "n", "-", "-", "B", "x", "x", "B" >>

MCUploads ==
  { << X(12) >>, << << >> >>, << X(3), LikeBoundary >>, << X(9), X(14) >> }

F(fin, op, vs) == [fin |-> fin, op |-> op, data |-> D(vs)]

MCConversations ==
  { << F(TRUE, 1, <<1, 2>>), F(TRUE, 9, << >>), F(TRUE, 1, <<8>>),
       F(TRUE, 8, << >>) >>,
    << F(FALSE, 1, <<1, 2>>), F(FALSE, 0, <<8>>), F(TRUE, 0, <<3, 4, 5>>),
       F(TRUE, 1, <<6>>), F(TRUE, 8, <<1, 2>>) >>,
    << F(FALSE, 2, <<1>>), F(TRUE, 0, <<2>>), F(FALSE, 2, <<3>>),
       F(TRUE, 0, <<4>>) >> }

\* realloc finds the room behind the buffer, or does not.
InPlaceOnly == {{}}
SomeMoves == {{}, {0}, {1}}
=============================================================================
