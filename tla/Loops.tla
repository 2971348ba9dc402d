-------------------------------- MODULE Loops --------------------------------
(***************************************************************************)
(* A value named once and the loop of a C program.  With(x, F) is F(x):    *)
(* written with a bound variable so that x is computed a single time.      *)
(***************************************************************************)
EXTENDS Integers

With(x, F(_)) == CHOOSE y \in {F(v) : v \in {x}} : TRUE

(* Step applied to s for i = first, first + 1, ... last; in runs of 16, so  *)
(* that evaluating it nests no deeper than it must.                        *)
Few(s, first, last, Step(_, _)) ==
    LET S[i \in first - 1 .. last] ==
            IF i = first - 1 THEN s ELSE With(S[i - 1], LAMBDA t : Step(t, i))
    IN  S[last]
ForUp(s, first, last, Step(_, _)) ==
    LET upto(k) == IF first + 16 * k > last THEN last ELSE first + 16 * k - 1
        Runs[k \in 0 .. (last - first) \div 16 + 1] ==
            IF k = 0 THEN s ELSE With(Runs[k - 1], LAMBDA t : Few(t, first + 16 * (k - 1), upto(k), Step))
    IN  IF last < first THEN s ELSE With(s, LAMBDA s0 : Runs[(last - first) \div 16 + 1])

(* Step applied to s for i = first, first - 1, ... last.                   *)
ForDown(s, first, last, Step(_, _)) ==
    ForUp(s, 0, first - last, LAMBDA t, i : Step(t, first - i))
=============================================================================
