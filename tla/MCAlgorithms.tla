---------------------------- MODULE MCAlgorithms -----------------------------
EXTENDS Algorithms

(* Products near the edges: words all zero, all one or mixed, each of the  *)
(* words by itself and in pairs, and products of such residues.            *)
SomeProducts(n) ==
    {[w \in 1 .. n |-> IF w = i THEN a ELSE IF w = j THEN b ELSE 0] :
        i, j \in 1 .. n, a \in {1, Base - 1}, b \in {0, Base - 1}}
    \cup {[w \in 1 .. n |-> IF w = i THEN a ELSE Base - 1] : i \in 1 .. n - 1, a \in {0, Base - 2}}
    \cup {mult([w \in 1 .. n \div 2 |-> IF w = i THEN a ELSE Base - 1], [w \in 1 .. n \div 2 |-> IF w = j THEN b ELSE Base - 1]) :
              i, j \in 1 .. n \div 2, a, b \in {0, Base - 2}}

Curve(p, a, b, n, x, y, bits) == [p |-> p, a |-> a, b |-> b, n |-> n, G |-> <<x, y>>, num_n_bits |-> bits]
SomeCurves == {Curve(7, -3, 6, 11, 2, 1, 4), Curve(11, -3, 1, 17, 2, 5, 5), Curve(251, -3, 26, 223, 2, 84, 8),
               Curve(67, 0, 7, 79, 2, 22, 7)}

(* Generators that fail, that fail late, that return only zeros or numbers *)
(* that are too large at first, once for all 64 tries, or that fail or     *)
(* return zeros between a scalar and the number for its inverse.           *)
Zeros(n) == [i \in 1 .. n |-> 0]
SomeRandoms == {<< >>, <<-1>>, <<0, -1, 3>>, <<255, 0, 5, 4>>, <<1, 2, 3, 4>>, Append(Zeros(63), 3), Append(Zeros(64), 3),
                Zeros(63) \o <<3, 2>>, <<3>> \o Zeros(63) \o <<6>>, <<3, -1, 4, 0, 255, 6>>, <<3, -1, -1, 4, 5>>,
                <<3>> \o Zeros(64) \o <<4, 5>>}
SomeHashFunctions == {[result_size |-> r, block_size |-> 6, salt |-> s] : r \in {3, 4}, s \in {0, 7, 99}}
SomeRootPrimes == {[p |-> 97, s |-> 5, m |-> 1], [p |-> 193, s |-> 6, m |-> 1], [p |-> 241, s |-> 4, m |-> 2]}
SomeHashes == {<<95>>, <<248>>, <<255, 1>>}

(* Pictures of the three samplings, of one to four units, some cut off at  *)
(* the right and the bottom, with long and short runs of zeros, negative   *)
(* and positive elements, and a comment that lets the scan start anywhere  *)
(* in a block of 512 bytes: the end of a block falls on every byte of the  *)
(* scan in turn.                                                           *)
Drawn(p) ==
    [x \in DOMAIN p \cup {"block"} |->
        IF x # "block" THEN p[x]
        ELSE [b \in 0 .. Mcus(p) * PerMcu(p) - 1 |->
                 [dc |-> ((b * 37 + 5 * p.comment) % 255) - 127, k |-> 1 + ((b * 13 + p.comment) % 63),
                  ac |-> ((b * 29 + p.comment) % 63) - 31]]]
Sheet(msx, msy, width, height, nrst, comment) ==
    Drawn([msx |-> msx, msy |-> msy, width |-> width, height |-> height, nrst |-> nrst, comment |-> comment])
SomePictures ==
    {Sheet(s[1], s[2], 20, 11, c % 3, 410 + c) : s \in {<<1, 1>>, <<2, 1>>, <<2, 2>>}, c \in 0 .. 50}
    \cup {Sheet(2, 2, 32, 32, 0, 64500 + 10 * c) : c \in 0 .. 12}
SomeElements == {-1000, -333, 10, 1016}
SomeLevels == {0, 1, 50, 127, 128, 129, 200, 254, 255}

(* Texts for the functions of mongoose.c.                                  *)
SomeDatas == Sequences(2, {0, 65, 255}) \cup Sequences(4, {32, 251})
SomeUsers == {<< >>, <<65>>, <<66, 67, 100>>, <<200, 201, 202, 203>>}
Conv(zero, width, precision, conv, arg) ==
    [zero |-> zero, width |-> width, precision |-> precision, conv |-> conv, arg |-> arg]
SomeFormats ==
    {Conv(z, w, 0, "d", n) : z \in BOOLEAN, w \in {0, 1, 4}, n \in {0, 7, 1234567, -3, -4321}}
    \cup {Conv(z, w, 0, c, n) : z \in BOOLEAN, w \in {0, 4, 8}, c \in {"u", "x"}, n \in {0, 9, 16, 43981}}
    \cup {Conv(FALSE, w, p, "s", s) : w \in {0, 3}, p \in {0, 1, 2, 5}, s \in {<< >>, <<"a">>, <<"a", "b", "a">>}}

(* A user needs a scheme before it, a query or a fragment a path.          *)
SomeAddresses ==
    {u \in [scheme : {<< >>, <<"s">>, <<"s", "t">>}, user : {<< >>, <<"a">>, <<"a", ":", "b">>},
            host : {<<"h">>, <<"h", ".", "h">>}, port : {<< >>, <<"8", "0">>},
            path : {<< >>, <<"/">>, <<"/", "a", "/", "b">>}, query : {<< >>, <<"x", "=", "?">>},
            fragment : {<< >>, <<"y">>, <<"y", "?">>}] :
        /\ u.scheme = << >> => u.user = << >>
        /\ u.path = << >> => u.query = << >> /\ u.fragment = << >>
        /\ u.query = << >> => u.fragment # <<"y", "?">>}
SomeYears == (1971 .. 1981) \cup (1998 .. 2005) \cup {2036, 2037}

(* Messages that end before, on and behind a block of 64 bytes and the     *)
(* place where its length begins, cut there; frames with lengths of one,   *)
(* two and eight bytes.                                                    *)
SomeLengths == {0, 3, 55, 56, 64, 119, 120, 130}
SomeCuts == {0, 1, 56, 64, 65}
SomeFrameSizes == {0, 1, 7, 125, 126, 127, 300, 65534, 65535, 65536}

(* Less, where a single function is looked at.                             *)
NoProducts(n) == {}
AnyLength == {1, 0, -1}
=============================================================================
