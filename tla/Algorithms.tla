----------------------------- MODULE Algorithms ------------------------------
(***************************************************************************)
(* The pure functions of the repository beside what they are meant to      *)
(* compute: a behaviour picks one call with its arguments, then the code   *)
(* answers it.                                                             *)
(***************************************************************************)
EXTENDS FiniteSets, ProtocolCalls, Vli, MicroEcc, Tjpgd, Devices

CONSTANTS VliLen,         \* words of the integers in the word-arithmetic calls
          Products(_),    \* products of that many words to reduce
          RootPrimes,     \* primes shaped as that of secp224r1, see Vli
          Curves,         \* small curves y^2 = x^3 + a x + b of prime order
          Reach,          \* scalars tried: up to Reach, and the last
          Hashes,         \* message hashes, sequences of bytes
          Randoms,        \* what a generator of numbers returns, call by call
          HashFunctions,  \* see Hash in MicroEcc
          Pictures,       \* pictures to decode, see Tjpgd
          Elements,       \* DC and AC elements of blocks to transform
          Levels,         \* component values to convert, in 0 .. 255
          TextLen,        \* the longest query and path, in characters
          Steps           \* the most calls of a queue

-----------------------------------------------------------------------------
(* Integers of several words.                                              *)
Moduli == {m \in Vlis(VliLen) : m[VliLen] # 0}
Prime(x) == x > 1 /\ \A i \in 2 .. x - 1 : x % i # 0

VliCalls ==
    {<<"addsub", l, r>> : l, r \in Vlis(VliLen)}
    \cup UNION {{<<"modular", l, r, m>> : l, r \in {v \in Vlis(VliLen) : Number(v) < Number(m)}} : m \in Moduli}
    \cup UNION {{<<"invert", l, m>> : l \in {v \in Vlis(VliLen) : Number(v) < Number(m)}} :
                   m \in {x \in Moduli : Prime(Number(x)) /\ Number(x) # 2}}
    \cup {<<"reduce", x>> : x \in Products(10) \cup Products(12) \cup Products(14) \cup Products(16)}
    \cup {<<"square", l>> : l \in Vlis(VliLen) \cup Vlis(VliLen + 1) \cup Products(5)}
    \cup {<<"bytes", b>> : b \in Sequences(6, 0 .. ByteBase - 1)}
    \cup UNION {{<<"root", c, x>> : x \in 1 .. c.p - 1} : c \in RootPrimes}

AddSub == Asked("addsub") /\ \E l \in {call[2]}, r \in {call[3]} :
    answer' = <<add(l, r), sub(l, r), cmp(l, r), cmp_unsafe(l, r), rshift1(l), mult(l, r)>>

Modular == Asked("modular") /\ \E l \in {call[2]}, r \in {call[3]}, m \in {call[4]} :
    answer' = <<modAdd(l, r, m), modSub(l, r, m), modMult(l, r, m)>>

Invert == Asked("invert") /\ answer' = modInv(call[2], call[3])

(* The reductions of the curves whose primes have half as many words.      *)
Reductions(words) ==
    CASE words = 10 -> <<p160, mmod_fast_secp160r1(call[2])>>
      [] words = 12 -> <<p192, mmod_fast_secp192r1(call[2])>>
      [] words = 14 -> <<p224, mmod_fast_secp224r1(call[2])>>
      [] OTHER -> <<p256, mmod_fast_secp256r1(call[2]), p256k1, mmod_fast_secp256k1(call[2])>>

Reduce == Asked("reduce") /\ answer' = Reductions(Len(call[2]))

Squared == Asked("square") /\ answer' = square(call[2])

AsBytes == Asked("bytes") /\ \E native \in {bytesToNative(call[2])} :
    answer' = <<native, nativeToBytes(Len(call[2]), native)>>

Root == Asked("root") /\ \E c \in {call[2]} : answer' = mod_sqrt_secp224r1(c, (call[3] * call[3]) % c.p)

(* A product of any length mod m, word by word from the top.               *)
Residue(v, m) ==
    LET R[i \in 0 .. Len(v)] == IF i = 0 THEN 0 ELSE (R[i - 1] * Base + v[Len(v) + 1 - i]) % m IN R[Len(v)]

(* The integer functions of micro-ecc compute, in words that wrap around,  *)
(* the sum, difference, order, half, product, residue and inverse of the   *)
(* numbers, and every number has its bytes; the reductions special to the  *)
(* five curves give the residue of any product of two residues, or p for 0 *)
(* in two of them; and the square root special to secp224r1 is one, but    *)
(* for squares -y^2 where y = 1 or (y + 1) / (y - 1) has an order that     *)
(* divides 4q, p = 2^s q + 1, one in 2^94 of the real prime: a zero found  *)
(* in the first step is overwritten before the loop looks at it            *)
(* (uECC.c:271-735, 937-975, curve-specific.inc:215-272, 352-376, 454-567, *)
(* 629-678, 883-979, 1157-1225).                                           *)
VliExact ==
    done =>
    CASE call[1] = "addsub" ->
            LET l == Number(call[2])
                r == Number(call[3])
                all == Base ^ VliLen
            IN  /\ Number(answer[1].vli) + answer[1].carry * all = l + r
                /\ Number(answer[2].vli) - answer[2].borrow * all = l - r
                /\ answer[3] = answer[4]
                /\ answer[4] = (IF l > r THEN 1 ELSE IF l < r THEN -1 ELSE 0)
                /\ Number(answer[5]) = l \div 2
                /\ Number(answer[6]) = l * r
      [] call[1] = "modular" ->
            LET l == Number(call[2])
                r == Number(call[3])
                m == Number(call[4])
            IN  <<Number(answer[1]), Number(answer[2]), Number(answer[3])>>
                    = <<(l + r) % m, (l - r) % m, (l * r) % m>>
      [] call[1] = "invert" ->
            (Number(call[2]) * Number(answer)) % Number(call[3]) = (IF isZero(call[2]) THEN 0 ELSE 1)
      [] call[1] = "reduce" ->
            \A i \in {j \in DOMAIN answer : j % 2 = 1} :
                LET p == Number(answer[i])
                    r == Number(answer[i + 1])
                IN  \/ cmp_unsafe(call[2], With(sub(answer[i], ToVli(1, Len(answer[i]))).vli, LAMBDA v : mult(v, v))) > 0
                    \/ r = Residue(call[2], p)
                    \/ (r = p /\ answer[i] \in {p160, p256k1} /\ Residue(call[2], p) = 0)
      [] call[1] = "square" -> answer = mult(call[2], call[2])
      [] call[1] = "bytes" ->
            /\ answer[2] = call[2]
            /\ Number(answer[1]) = ForUp(0, 1, Len(call[2]), LAMBDA v, i : ByteBase * v + call[2][i])
      [] call[1] = "root" ->
            LET c == call[2]
                x == call[3]
                minus == {y \in 1 .. c.p - 1 : (y * y + x * x) % c.p = 0}
                Power(y) == ForUp(1, 1, 4 * ((c.p - 1) \div 2 ^ c.s), LAMBDA z, i : (z * y) % c.p)
            IN  \/ answer \in {x, c.p - x}
                \/ \A y \in minus : y \in {1, c.p - 1} \/ Power(y + 1) = Power(y - 1)
      [] OTHER -> TRUE

-----------------------------------------------------------------------------
(* Points and signatures, beside the group law.                            *)
Infinity == <<0, 0>>

PointSum(c, P, Q) ==
    LET third(l) == With((l * l - P[1] - Q[1]) % c.p, LAMBDA x : <<x, (l * (P[1] - x) - P[2]) % c.p>>) IN
    CASE P = Infinity -> Q
      [] Q = Infinity -> P
      [] P[1] = Q[1] /\ (P[2] + Q[2]) % c.p = 0 -> Infinity
      [] P = Q -> With(((3 * P[1] * P[1] + c.a) * Inverse(2 * P[2], c.p)) % c.p, third)
      [] OTHER -> With(((Q[2] - P[2]) * Inverse(Q[1] - P[1], c.p)) % c.p, third)

(* 0 G, 1 G, ... (n - 1) G: the whole group, as n is prime.                *)
Multiples(c) == ForUp(<<Infinity>>, 1, c.n - 1, LAMBDA s, i : Append(s, PointSum(c, s[i], c.G)))
Table == [c \in Curves |-> Multiples(c)]
Times(c, k) == Table[c][(k % c.n) + 1]

Tried(c) == (0 .. c.n) \cap (0 .. Reach \cup {c.n - 1, c.n})
Keys(c) == Tried(c) \ {0, c.n}

Scalars(c) == UNION {{<<"scalar", c, d, k, Z>> :
    k \in IF d = 1 THEN 1 .. c.n - 1 ELSE Keys(c), Z \in {1, 2, c.p - 1}} : d \in Keys(c)}
Signings(c) == {<<"sign", c, d, k, hash>> : d, k \in Keys(c), hash \in Hashes}
Checks(c) == {<<"verify", c, d, <<r, s>>, hash>> : d \in Keys(c), r, s \in Tried(c), hash \in Hashes}

KeyCalls(c) ==
    {<<"key", c, random>> : random \in Randoms}
    \cup {<<"shared", c, d, e, random>> : d, e \in Keys(c), random \in Randoms}
    \cup {<<"signed", c, d, random, hash>> : d \in Keys(c), random \in Randoms, hash \in Hashes}
    \cup {<<"determined", c, d, h, hash, random>> :
              d \in Keys(c), h \in HashFunctions, hash \in Hashes, random \in {<< >>, <<0, -1, 3>>}}

Scrambles == {<<"scramble", hash, diff>> : hash \in Vlis(1) \cup Vlis(VliLen), diff \in Vlis(VliLen)}

PointMult == Asked("scalar") /\ \E c \in {call[2]} :
    answer' = IF call[3] = 1 /\ call[5] = 1 THEN compute_public_key(c, call[4])
              ELSE point_mult(c, Times(c, call[3]), call[4], call[5])

Sign == Asked("sign") /\ \E c \in {call[2]} :
    \E sig \in {sign_with_k(c, call[3], call[5], call[4], FALSE, << >>)[1]} :
        answer' = <<sig, IF sig = << >> THEN 0 ELSE verify(c, Times(c, call[3]), call[5], sig)>>

Verify == Asked("verify") /\ \E c \in {call[2]} :
    answer' = verify(c, Times(c, call[3]), call[5], call[4])

MakeKey == Asked("key") /\ answer' = make_key(call[2], call[3])

(* What each of the two sides computes.                                    *)
Shared == Asked("shared") /\ \E c \in {call[2]} :
    answer' = <<shared_secret(c, Times(c, call[3]), call[4], call[5] # << >>, call[5]),
                shared_secret(c, Times(c, call[4]), call[3], call[5] # << >>, call[5])>>

SignRandom == Asked("signed") /\ \E c \in {call[2]} : \E sig \in {sign(c, call[3], call[5], call[4])} :
    answer' = <<sig, IF sig = << >> THEN 0 ELSE verify(c, Times(c, call[3]), call[5], sig)>>

Determined == Asked("determined") /\
    answer' = sign_deterministic(call[2], call[4], call[3], <<call[3]>>, call[5], call[6] # << >>, call[6])

Scramble == Asked("scramble") /\ answer' = verified_hash(call[2], call[3])

Skipped(c) == {1, c.n - 2, c.n - 1}

(* The number i of a generator passes for a scalar, and for one that has a *)
(* point that serves; j is where a draw that begins behind i ends.         *)
Fits(c, random, i) == random[i] # -1 /\ random[i] % 2 ^ c.num_n_bits \in 1 .. c.n - 1
Serves(c, random, i) ==
    Fits(c, random, i) /\ random[i] % 2 ^ c.num_n_bits \notin Skipped(c) /\ Times(c, random[i] % 2 ^ c.num_n_bits)[1] # 0
DrawnTo(c, random, i, j) ==
    /\ i < j /\ (random[j] = -1 \/ Fits(c, random, j))
    /\ \A l \in i + 1 .. j - 1 : random[l] # -1 /\ ~Fits(c, random, l)
(* The numbers that serve and have one for the inverse behind them.        *)
Blinded(c, random) ==
    {i \in DOMAIN random :
        Serves(c, random, i) /\ \E j \in DOMAIN random :
            DrawnTo(c, random, i, j) /\ Fits(c, random, j) /\ j <= i + uECC_RNG_MAX_TRIES}

(* The ladder computes k P for every k in 1 .. n - 1 and every random Z,   *)
(* or answers with the point at infinity, which its callers take for a     *)
(* failure, and it does so for three scalars only, or when P lies on the   *)
(* y axis.  The points the code takes for valid are those of the group,    *)
(* and compression loses none.  A key made is a pair of the curve from the *)
(* first number of the generator that serves, and two sides share one      *)
(* secret whatever Z each starts from (uECC.c:857-933, 980-1139).          *)
LadderExact ==
    done =>
    CASE call[1] = "scalar" ->
        LET c == call[2]
            k == call[4]
            P == Times(c, call[3])
        IN  /\ call[5] = 1 => \A y \in 0 .. c.p : valid_point(c, <<P[1], y>>) <=> y \in {P[2], (-P[2]) % c.p}
            /\ decompress(c, compress(P)) = P
            /\ \/ answer = Times(c, call[3] * k)
               \/ answer = Infinity /\ (P[1] = 0 \/ k \in Skipped(c))
      [] call[1] = "key" ->
        LET c == call[2]
            random == call[3]
            good == {i \in DOMAIN random : random[i] # -1 /\ random[i] % 2 ^ c.num_n_bits \in (1 .. c.n - 1) \ Skipped(c)}
        IN  IF answer = << >>
            THEN \A i \in good : i > uECC_RNG_MAX_TRIES \/ \E j \in 1 .. i - 1 : random[j] = -1
            ELSE \E i \in good :
                    /\ answer = With(random[i] % 2 ^ c.num_n_bits, LAMBDA d : <<d, Times(c, d)>>)
                    /\ \A j \in good : i <= j
      [] call[1] = "shared" ->
        LET c == call[2]
            Side(Q, k) == Q[1] = 0 \/ k \in Skipped(c) \/ (call[5] # << >> /\ generate_random_int(call[5], c.p)[1] = 0)
            x == Times(c, call[3] * call[4])[1]
        IN  /\ answer[1] = <<x>> \/ (answer[1] = << >> /\ Side(Times(c, call[3]), call[4]))
            /\ answer[2] = <<x>> \/ (answer[2] = << >> /\ Side(Times(c, call[4]), call[3]))
      [] OTHER -> TRUE

(* The leftmost bits of the hash, as many as n has, as a number.           *)
HashNumber(c, hash) ==
    LET all == ForUp(0, 1, Len(hash), LAMBDA v, i : 256 * v + hash[i]) IN
    IF 8 * Len(hash) <= c.num_n_bits THEN all ELSE all \div 2 ^ (8 * Len(hash) - c.num_n_bits)

(* Shamir's trick adds two points with the same x, or doubles the point at *)
(* infinity, on its way to u1 G + u2 (d G).                                *)
Collides(c, d, u1, u2) ==
    \/ d \in {1, c.n - 1}
    \/ \E i \in 0 .. c.num_n_bits - 1 :
          LET before == 2 * (u1 \div 2 ^ (i + 1) + d * (u2 \div 2 ^ (i + 1)))
              t == BitOf(u1, i) + d * BitOf(u2, i)
          IN  /\ u1 \div 2 ^ (i + 1) # 0 \/ u2 \div 2 ^ (i + 1) # 0
              /\ \/ before % c.n = 0
                 \/ t # 0 /\ ((before - t) % c.n = 0 \/ (before + t) % c.n = 0)

(* Keys and values after i failures, and the i-th number of the generator  *)
(* of RFC 6979, as the textbook has them.                                  *)
Hmac(h, K, text) ==
    LET Key(mask) == [i \in 1 .. h.block_size |-> (IF i <= Len(K) THEN K[i] ELSE 0) ^^ mask] IN
    Hash(h, Key(92) \o Hash(h, Key(54) \o text))
NewKV(h, s, byte, more) == With(Hmac(h, s.K, Append(s.V, byte) \o more), LAMBDA K : [K |-> K, V |-> Hmac(h, K, s.V)])
Textbook(c, h, key, hash, i) ==
    LET One(x) == [j \in 1 .. h.result_size |-> x]
        more == key \o hash
        Two(s) == With(Hmac(h, s.K, s.V), LAMBDA V : <<V, Hmac(h, s.K, V)>>)
        first == With(NewKV(h, [K |-> One(0), V |-> One(1)], 0, more), LAMBDA s : NewKV(h, s, 1, more))
        Failed(s, j) == With(Two(s), LAMBDA v : NewKV(h, [s EXCEPT !.V = IF h.result_size >= 4 THEN v[1] ELSE v[2]], 0, << >>))
    IN  With(ForUp(first, 1, i, Failed), LAMBDA s : With(Two(s), LAMBDA v :
            MaskedT(c, v[1] \o v[2])))

(* A signature of the code is one of the textbook, and the code accepts    *)
(* exactly the signatures of the textbook, unless two points collide on    *)
(* the way; the hash handed to the caller is the one signed if the x       *)
(* found is r, and only then, as long as the hash has all the words of r.  *)
(* A signature takes the first number that serves and is followed by one   *)
(* for the inverse, unless a draw for a scalar failed before.  A           *)
(* deterministic one takes the first that serves of the generator of RFC   *)
(* 6979, although the byte behind V is the first byte of the pad, and the  *)
(* number around the inverse is not seen in it; it fails only if the       *)
(* generator does (uECC.c:1232-1448, uECC_verify_antifault.c:16-140).      *)
SignaturesExact ==
    LET c == call[2]
        d == call[3]
        hash == call[5]
        Good(sig) ==
            LET w == Inverse(sig[2], c.n) IN
            /\ sig[1] \in 1 .. c.n - 1 /\ sig[2] \in 1 .. c.n - 1
            /\ Times(c, HashNumber(c, hash) * w + sig[1] * w * d)[1] % c.n = sig[1]
        Meets(sig) == With(ScalarsOf(c, hash, sig), LAMBDA u : Collides(c, d, u[1], u[2]))
    IN  done =>
        CASE call[1] = "sign" /\ answer[1] # << >> ->
               LET sig == answer[1] IN
               /\ sig[1] = Times(c, call[4])[1]
               /\ (sig[2] * call[4]) % c.n = (HashNumber(c, hash) + sig[1] * d) % c.n
               /\ sig[1] % c.n = sig[1] /\ sig[2] # 0 => answer[2] = 1 \/ Meets(sig)
          [] call[1] = "signed" /\ answer[1] # << >> ->
               /\ answer[2] = 1 \/ Meets(answer[1]) \/ answer[1][1] >= c.n \/ answer[1][2] = 0
               /\ \E i \in Blinded(c, call[4]) :
                     /\ \A j \in Blinded(c, call[4]) : i <= j
                     /\ answer[1][1] = Times(c, call[4][i] % 2 ^ c.num_n_bits)[1]
          [] call[1] = "signed" /\ answer[1] = << >> ->
               \A i \in Blinded(c, call[4]) : \E j \in 1 .. i - 1 :
                  \/ call[4][j] = -1 /\ \A l \in 1 .. j - 1 : ~(Serves(c, call[4], l) /\ DrawnTo(c, call[4], l, j))
                  \/ j >= uECC_RNG_MAX_TRIES /\ \A l \in j + 1 - uECC_RNG_MAX_TRIES .. j : ~Fits(c, call[4], l)
          [] call[1] = "determined" ->
               LET k(j) == Textbook(c, call[4], <<d>>, hash, j)
                   Plain(j) == sign_with_k(c, d, hash, k(j), FALSE, << >>)[1]
               IN  IF answer = << >> THEN call[6] # << >> /\ \A i \in DOMAIN call[6] : ~Fits(c, call[6], i)
                   ELSE \E i \in 0 .. uECC_RNG_MAX_TRIES - 1 :
                       /\ answer = <<k(i), Plain(i)>>
                       /\ call[6] = << >> => \A j \in 0 .. i - 1 : Plain(j) = << >>
          [] call[1] = "verify" ->
               \/ (answer = 1) <=> Good(call[4])
               \/ call[4][2] % c.n # 0 /\ Meets(call[4])
          [] call[1] = "scramble" ->
               /\ isZero(d) => answer = c
               /\ answer = c /\ Len(c) = Len(d) => isZero(d)
          [] OTHER -> TRUE

-----------------------------------------------------------------------------
(* Pictures.                                                               *)
JpegCalls == {<<"picture", p>> : p \in Pictures}
             \cup {<<"block", F0, z, F>> : F0, F \in Elements, z \in 1 .. 63}
             \cup {<<"color", yy, cb, cr>> : yy, cb, cr \in Levels}

Picture == Asked("picture") /\ \E p \in {call[2]} :
    answer' = decode_image(File(p), p.width, p.height)

Block == Asked("block") /\
    answer' = block_idct([i \in 0 .. 63 |-> CASE i = 0 -> (call[2] * IPSF(0)) \div 256
                                              [] i = call[3] -> (call[4] * IPSF(i)) \div 256
                                              [] OTHER -> 0])

Color == Asked("color") /\ answer' = Rgb(call[2], call[3] - 128, call[4] - 128)

(* Every pixel stored is the one the file shows, although the RGB buffer   *)
(* of an MCU reaches into the blocks that are still being read, the bits   *)
(* come in pieces of 512 bytes and the work space has four bytes to spare; *)
(* and all are stored, unless the file is longer than inPos counts: then   *)
(* the lines below keep what malloc left there and the call still succeeds *)
(* (decode_image.c:35-150, tjpgd.c:129-956).                               *)
PictureExact ==
    call[1] = "picture" /\ done =>
        \E p \in {call[2]} : \E shown \in {Shown(p)}, long \in {Len(File(p)) > PosRange} :
            /\ answer.ret = "ESP_OK"
            /\ \A at \in DOMAIN shown : answer.pixels[at] = shown[at] \/ (long /\ answer.pixels[at] = Unwritten)

Near(value, exact, unit, error) ==
    LET top == 255 * unit
        clipped == IF exact < 0 THEN 0 ELSE IF exact > top THEN top ELSE exact
    IN  value * unit - clipped \in -error .. error

(* The fixed-point transform and colour conversion are less than two       *)
(* levels from the real ones, overflow nowhere and clip at both ends       *)
(* (tjpgd.c:355-459, 597-602).                                             *)
PixelsNear ==
    done =>
    CASE call[1] = "block" ->
            \A i \in 0 .. 63 : Near(answer[i], Exact16(call[2], call[3], call[4], i % 8, i \div 8), 16, 31)
      [] call[1] = "color" ->
            LET yy == 1000 * call[2]
                cb == call[3] - 128
                cr == call[4] - 128
            IN  /\ Near(answer[1], yy + 1402 * cr, 1000, 1999)
                /\ Near(answer[2], yy - 344 * cb - 714 * cr, 1000, 1999)
                /\ Near(answer[3], yy + 1772 * cb, 1000, 1999)
      [] OTHER -> TRUE

-----------------------------------------------------------------------------
(* Queues, tables, pulses and frames.                                      *)
At64K(page) == [page |-> page, low |-> 0]
DataPages == {16192, 16193, 16240, 16255, 16256, 16319, 16320, 16383, 16384}
CodePages == {16384, 16385, 16447, 16448, 49024, 49030, 49087, 49088, 49344}

DeviceCalls ==
    {<<"fifo", size, ops>> : size \in 1 .. 2, ops \in Sequences(Steps, {"in", "out", "peek", "flush"})}
    \cup {<<"mmu", bus[1], page, num, fixed>> : bus \in {<<"dbus">>}, page \in DataPages,
               num \in {0, 1, 2, 63, 64, 65, 128, 130}, fixed \in BOOLEAN}
    \cup {<<"mmu", "ibus", page, num, fixed>> : page \in CodePages, num \in {0, 1, 2, 63, 64}, fixed \in BOOLEAN}
    \cup {<<"strip", rgb, wanted>> : rgb \in Sequences(2, {0, 1, 128, 255} \X {5, 254} \X {85}), wanted \in {8, 12, 16, 32, 64}}
    \cup {<<"beacon", line, [i \in 1 .. n |-> 65], seq>> : line \in 0 .. 7, n \in {15, 26}, seq \in {0, 15, 16, 255, 256, 4095}}
    \cup {<<"panel", id, forced>> : id \in {0, 8552}, forced \in {"auto", "st", "ili"}}
    \cup {<<"frequency", 61035 * (k \div 1000) + k>> : k \in {0, 60, 61, 62, 244, 14000433, 15999999}}
    \cup {<<"bitrate", b>> : b \in {1, 488, 489, 490, 1200, 32768, 300000}}
    \cup {<<"rssi", r>> : r \in {-128, -127, -70, -1, 0}}
    \cup {<<"power", level, onOff>> : level \in 0 .. 70, onOff \in BOOLEAN}

(* The queue and what each call of it returned, 0 for a flush.             *)
FifoRun(size, ops) ==
    ForUp([f |-> flush(size), out |-> << >>], 1, Len(ops), LAMBDA s, i :
        CASE ops[i] = "in" -> With(enqueue(s.f, i), LAMBDA r : [f |-> r.fifo, out |-> Append(s.out, r.value)])
          [] ops[i] = "out" -> With(dequeue(s.f), LAMBDA r : [f |-> r.fifo, out |-> Append(s.out, r.value)])
          [] ops[i] = "peek" -> [s EXCEPT !.out = Append(@, peek(s.f))]
          [] OTHER -> [f |-> flush(size), out |-> Append(s.out, 0)]).out

Fifo == Asked("fifo") /\ answer' = FifoRun(call[2], call[3])

Mmu == Asked("mmu") /\ answer' =
    IF call[2] = "dbus" THEN Test_Cache_Dbus_MMU_Set(2 ^ 15, At64K(call[3]), At64K(7), 64, call[4], call[5])
    ELSE Test_Cache_Ibus_MMU_Set(2 ^ 15, At64K(call[3]), At64K(7), 64, call[4], call[5])

(* Every pixel is set, the last one to its own color, and two behind it.   *)
Strip == Asked("strip") /\ \E rgb \in {call[2]} :
    answer' = With(ForUp([buffer |-> [i \in 1 .. 3 * Len(rgb) |-> 0], rets |-> << >>], 1, Len(rgb) + 2, LAMBDA s, i :
                         With(IF i <= Len(rgb) THEN rgb[i] ELSE <<7, 7, 7>>, LAMBDA c :
                         With(set_pixel(s.buffer, i - 1, c[1], c[2], c[3]), LAMBDA r :
                              [buffer |-> r.buffer, rets |-> Append(s.rets, r.ret)]))),
                   LAMBDA s : [pulses |-> Pulses(s.buffer, call[3]), rets |-> s.rets])

Beacon == Asked("beacon") /\
    answer' = <<beacon_rick(call[2], call[3], call[4]), beacon_rick(call[2], call[3], NextSeqnum(call[4]))>>

Panel == Asked("panel") /\ answer' = lcd_init(call[2], call[3])
Frequency == Asked("frequency") /\ answer' = With(setFrequency(call[2]), LAMBDA frf : <<getFrequency(frf), frf>>)
Bitrate == Asked("bitrate") /\ answer' = setBitrate(call[2])
Rssi == Asked("rssi") /\ answer' = readRSSI(setRSSIThreshold(call[2]))
(* The level is set, then the amplifiers, then the level again.            *)
Power == Asked("power") /\ answer' =
    With(setHighPower(call[3], setPowerLevel(159, call[2]), call[2]), LAMBDA reg : <<reg, setPowerLevel(reg, 7)>>)

(* What a panel makes of the transfers: commands with their values, and    *)
(* how often it was given time.                                            *)
Understood(wire) ==
    ForUp([cmds |-> << >>, waits |-> 0], 1, Len(wire), LAMBDA s, i :
        CASE wire[i][1] = "cmd" -> [s EXCEPT !.cmds = Append(@, <<wire[i][2][1], << >>, s.waits>>)]
          [] wire[i][1] = "data" -> [s EXCEPT !.cmds[Len(s.cmds)][2] = @ \o wire[i][2]]
          [] wire[i][1] = "delay" -> [s EXCEPT !.waits = @ + 1]
          [] OTHER -> s)

(* A queue of at most size elements: what each call of it returns.  A      *)
(* dequeue of the empty queue, as peek, has no meaning: nothing is said    *)
(* of a queue after it.                                                    *)
FifoMeets(size, ops, out) ==
    ForUp([q |-> << >>, ok |-> TRUE, lost |-> FALSE], 1, Len(ops), LAMBDA s, i :
        CASE s.lost -> s
          [] ops[i] = "in" -> [s EXCEPT !.ok = @ /\ out[i] = (Len(s.q) < size),
                                        !.q = IF Len(@) < size THEN Append(@, i) ELSE @]
          [] ops[i] = "out" /\ s.q = << >> -> [s EXCEPT !.lost = TRUE]
          [] ops[i] = "out" /\ s.q # << >> -> [s EXCEPT !.ok = @ /\ out[i] = Head(s.q), !.q = Tail(@)]
          [] ops[i] = "peek" -> [s EXCEPT !.ok = @ /\ (s.q # << >> => out[i] = Head(s.q))]
          [] OTHER -> [s EXCEPT !.q = << >>]).ok

(* The elements of a frame from position at on: tag, length and value.     *)
Walked(frame, at) ==
    ForUp([at |-> at, tags |-> << >>], 1, 4, LAMBDA s, i :
        [at |-> s.at + 2 + frame[s.at + 1], tags |-> Append(s.tags, <<frame[s.at], frame[s.at + 1]>>)])

(* SimpleFIFO is a bounded queue, through every turn of its indices; the   *)
(* MMU functions set one entry for every page asked for and no other,      *)
(* unless a range of data pages leaves the region it starts inside of, or  *)
(* one of code pages starts with the page at 0xbf800000, the only one that *)
(* passes for valid in a region that is not (hello_world_main.c:166); the  *)
(* adapter, called for as many items as the RMT driver has room for, sends *)
(* every bit once, green first, and writes no more if that room is one of  *)
(* whole bytes, as the driver's is, and a pixel behind the strip is        *)
(* refused and changes none; the elements of a beacon fill it to the end,  *)
(* and its sequence number counts modulo 4096; a panel gets every value    *)
(* listed for it, but for one of st_init_cmds whose count is one short,    *)
(* and wakes up before it is switched on; the radio is set to the          *)
(* frequency asked for, less than a step below it, to bit rates from 489,  *)
(* and to every threshold but the lowest; a level changes no amplifier     *)
(* unless it is above 31, which setPowerLevel keeps for setHighPower       *)
(* (SimpleFIFO.h:70-96, hello_world_main.c:52-192, main.c:74-142,          *)
(* led_strip_rmt_ws2812.c:64-109, lcd.h:70, RFM69OOK.cpp:126-160, 217-221, *)
(* 272-279).                                                               *)
DevicesExact ==
    done =>
    CASE call[1] = "fifo" -> FifoMeets(call[2], call[3], answer)
      [] call[1] = "mmu" ->
            LET Entry(v) == IF call[2] = "dbus" THEN DbusEntry(v) ELSE IbusEntry(v)
                page == call[3]
                num == call[4]
                asked == page .. page + num - 1
            IN  \/ /\ answer.ret = 0 /\ \A v \in asked : Entry(v) # -1
                   /\ answer.table = [e \in {Entry(v) : v \in asked} |->
                          2 ^ 15 + 7 + (IF call[5] THEN 0 ELSE (CHOOSE v \in asked : Entry(v) = e) - page)]
                \/ answer.ret = 4 /\ \E v \in asked : Entry(v) = -1
                \/ call[2] = "dbus" /\ page % Region # 0 /\ num > Region - (page % Region)
                \/ call[2] = "ibus" /\ page = 49024
      [] call[1] = "strip" ->
            LET Bits(v) == [i \in 1 .. 8 |-> (v \div 2 ^ (8 - i)) % 2] IN
            /\ \A i \in DOMAIN answer.rets : answer.rets[i] = "ESP_OK" <=> i <= Len(call[2])
            /\ answer.pulses.over => call[3] % 8 # 0
            /\ answer.pulses.out = Flat([i \in DOMAIN call[2] |->
                                Bits(call[2][i][2]) \o Bits(call[2][i][1]) \o Bits(call[2][i][3])])
      [] call[1] = "beacon" ->
            With(Walked(answer[1], 37), LAMBDA w :
                /\ w.at = Len(answer[1]) + 1
                /\ w.tags = << <<0, Len(call[3])>>, <<1, 8>>, <<3, 1>>, <<5, 4>> >>
                /\ answer[1][16] = call[2] /\ answer[1][22] = call[2]
                /\ LET Sequence(f) == (f[23] + 256 * f[24]) \div 16 IN
                   Sequence(answer[2]) = (Sequence(answer[1]) + 1) % 4096)
      [] call[1] = "panel" ->
            \E u \in {Understood(answer)} :
            \E listed \in {IF u.cmds[2][1] = 54 THEN st_init_cmds ELSE ili_init_cmds} :
            LET Waited(c) == u.cmds[CHOOSE i \in DOMAIN u.cmds : u.cmds[i][1] = c][3] IN
            /\ call[3] = "auto" => (listed = st_init_cmds <=> call[2] # 0)
            /\ Len(u.cmds) = Len(listed) + 1
            /\ \A i \in DOMAIN listed :
                  /\ u.cmds[i + 1][1] = listed[i].cmd
                  /\ u.cmds[i + 1][2] = listed[i].data \/ (listed = st_init_cmds /\ listed[i].cmd = 208)
            /\ Waited(17) < Waited(41) /\ u.waits = 2
      [] call[1] = "frequency" ->
            /\ answer[1] \in call[2] - 62 .. call[2]
            /\ setFrequency(answer[1] + 1) = answer[2]
            /\ getFrequency(With(setFrequency(answer[1] + 62), LAMBDA frf : frf)) > answer[1]
      [] call[1] = "bitrate" ->
            LET reg == 256 * answer[1] + answer[2] IN
            call[2] < 489 \/ (reg * call[2] <= 32000000 /\ 32000000 - reg * call[2] < call[2])
      [] call[1] = "rssi" -> answer = call[2] \/ call[2] = -128
      [] call[1] = "power" ->
            /\ answer[2] = 32 * (answer[1] \div 32) + 7
            /\ answer[1] \div 32 = (IF call[3] THEN 3 ELSE 4) \/ (~ call[3] /\ call[2] > 31)
            /\ answer[1] % 32 = (IF call[2] > 31 THEN 31 ELSE call[2]) \/ (~ call[3] /\ call[2] > 31)
      [] OTHER -> TRUE

QueryCalls == {<<"query", q>> : q \in Sequences(TextLen, {"=", "&", "a", "b"})}
             \cup {<<"path", p>> : p \in Sequences(TextLen, {"/", "a"})}
             \cup {<<"route", m, <<w>> \o p>> : m \in {"GET", "POST", "PUT"}, w \in {"", "api", "hello", "ESP32", "a"},
                        p \in Sequences(2, {"", "mmu", "mem", "flash", "hello", "hellos", "LOG", "FILE", "FILES", "SYSTEM", "SYSTEMS"}) \cup
                              {<<"LOG", "SET">>, <<"LOG", "SETTING">>, <<"LOG", "SETTING", "3">>, <<"LOG", "SET", "3">>, <<"LOG", "SET", "hello", "">>, <<"mmu", "hello", "">>}}
             \cup {<<"reply", h>> : h \in Sequences(2, {<<"a">>, <<"b">>})}
             \cup {<<"dump", name, ix>> : name \in {"mmu", "mem", "flash"}, ix \in 0 .. 127}

Query == Asked("query") /\ answer' = getQuery(call[2])
Path  == Asked("path") /\ answer' = pathSplit(call[2])
Route == Asked("route") /\ answer' = processRequest(call[2], call[3])
Reply == Asked("reply") /\ answer' = sendDataHeaders(call[2])
Dump  == Asked("dump") /\ answer' =
    CASE call[2] = "mmu" -> handle_REST_MMU [] call[2] = "mem" -> handle_REST_MEM(call[3]) [] OTHER -> handle_REST_FLASH(call[3])

(* The pieces of a text between the characters c.                          *)
Pieces(text, c) ==
    LET cuts == {i \in DOMAIN text : text[i] = c} \cup {0, Len(text) + 1} IN
    {SubSeq(text, i + 1, j - 1) : <<i, j>> \in
        {ij \in cuts \X cuts : ij[1] < ij[2] /\ \A k \in cuts : ~ (ij[1] < k /\ k < ij[2])}}

(* The part of a piece before, and the one behind, its first "=".          *)
Halves(piece) ==
    LET e == CHOOSE i \in DOMAIN piece : piece[i] = "=" /\ \A j \in 1 .. i - 1 : piece[j] # "=" IN
    <<SubSeq(piece, 1, e - 1), SubSeq(piece, e + 1, Len(piece))>>
Joined(parts, c) ==
    ForUp(<< >>, 1, Len(parts), LAMBDA t, i : t \o parts[i] \o IF i < Len(parts) THEN <<c>> ELSE << >>)

(* getQuery finds every name of a query whose pairs all have a "=", empty  *)
(* or repeated ones included, with a value that stands next to it, and     *)
(* nothing else; the parts of a path make up the path, but for one slash   *)
(* at its end; the order of the handlers matters to none but the test      *)
(* handler, a longer word behind LOG/ or at the place of FILE finds its    *)
(* handler too, and the one that reads the fifth part of its path finds it *)
(* unless the level is missing; one header is sent as it is (for more see  *)
(* HeadersSent); a dump names the words of one page in order, 252 of the   *)
(* page tables, each with its own value and the one of the other tables;   *)
(* the first 51 pages are those the comment names (WebServer.cpp:454-467,  *)
(* 562-570, 707-783, RequestManager.cpp:49, 95-277).  What the dumps of    *)
(* memory and flash show beside a word is left open: the code reads the    *)
(* next one.                                                               *)
QueriesExact ==
    done =>
    CASE call[1] = "query" ->
            \E pieces \in {Pieces(call[2], "&") \ (IF call[2] = << >> THEN {<< >>} ELSE {})} :
            (\A p \in pieces : "=" \in {p[i] : i \in DOMAIN p}) =>
                \E pairs \in {{Halves(p) : p \in pieces}} :
                    /\ DOMAIN answer = {p[1] : p \in pairs}
                    /\ \A n \in DOMAIN answer : <<n, answer[n]>> \in pairs
      [] call[1] = "path" ->
            /\ call[2] \in {Joined(answer, "/"), Append(Joined(answer, "/"), "/")}
            /\ \A i \in DOMAIN answer : \A j \in DOMAIN answer[i] : answer[i][j] # "/"
      [] call[1] = "route" ->
            LET all == {m_pathHandlers[i].handler : i \in {j \in DOMAIN m_pathHandlers : match(m_pathHandlers[j], call[2], call[3])}}
                bare == Len(call[3]) = 3 \/ call[3] = <<"ESP32", "LOG", "SET", "">>
            IN  /\ Cardinality(all \ {"test"}) <= 1
                /\ all = {} => answer.file = (IF call[3] = <<"">> THEN <<"index.html">> ELSE call[3])
                /\ all # {} => answer.handler \in all /\ (answer.handler = "test" => all = {"test"})
                /\ answer.handler = "log" => bare \/ Len(call[3]) >= 4
      [] call[1] = "reply" ->
            Len(call[2]) <= 1 => answer = (IF call[2] = << >> THEN << >> ELSE call[2][1] \o <<": ">>)
      [] call[1] = "dump" ->
            /\ \A i \in DOMAIN answer : answer[i].named = i - 1 /\ answer[i].page = answer[1].page
            /\ call[2] = "mmu" => \A i \in DOMAIN answer : answer[i].read = i - 1 /\ answer[i].aval = answer[i].read + 2048
            /\ Len(answer) = (IF call[2] = "mmu" THEN 4 * 63 ELSE 64)
            /\ call[2] = "mem" => /\ call[3] <= 50 => answer[1].page = 16192 + call[3]
                                  /\ \A other \in 0 .. 127 \ {call[3]} : handle_REST_MEM(other)[1].page # answer[1].page
      [] OTHER -> TRUE

(* "The complete set of headers to send to the caller" (WebServer.cpp:489) *)
(* is sent: every header of the map stands in the text of sendData.        *)
HeadersSent ==
    done /\ call[1] = "reply" =>
        \A i \in DOMAIN call[2] : \E at \in DOMAIN answer : SubSeq(answer, at, at + Len(call[2][i]) - 1) = call[2][i]

(* Texts, bytes and names come back from every function that takes them    *)
(* apart, and a site shows what its files and its rules say (see each).    *)
TextsExact == PartsExact /\ QueriesExact /\ BytesExact /\ NamesExact /\ SitesExact

Next ==
    \/ Ask(VliCalls) \/ AddSub \/ Modular \/ Invert \/ Reduce \/ Squared \/ AsBytes \/ Root
    \/ Ask(UNION {Scalars(c) \cup Signings(c) \cup Checks(c) : c \in Curves} \cup Scrambles) \/ PointMult \/ Sign \/ Verify \/ Scramble
    \/ Ask(UNION {KeyCalls(c) : c \in Curves}) \/ MakeKey \/ Shared \/ SignRandom \/ Determined
    \/ Ask(JpegCalls) \/ Picture \/ Block \/ Color
    \/ Ask(DeviceCalls) \/ Fifo \/ Mmu \/ Strip \/ Beacon \/ Panel \/ Frequency \/ Bitrate \/ Rssi \/ Power
    \/ Ask(QueryCalls) \/ Query \/ Path \/ Route \/ Reply \/ Dump
    \/ Ask(ByteCalls) \/ Base64 \/ Unbase64 \/ BasicAuth \/ Hex \/ Escape \/ Var \/ Mbuf
    \/ Ask(TextCalls) \/ Compare \/ Format \/ Uri \/ Normal \/ HeadLen \/ Headers \/ Field \/ Part \/ List
    \/ Ask(NameCalls) \/ Match \/ Endpoint \/ Network \/ LocalPath \/ Password \/ Date
    \/ Ask(SiteCalls) \/ Connect \/ Forward \/ Link \/ Serve \/ IncludePage \/ Upload
    \/ Ask(DigestCalls) \/ Vector \/ Digest \/ Hmac1 \/ Handshake \/ WsFrame
    \/ Ask(DialogueCalls) \/ Client \/ Server \/ PollManager \/ HangUp \/ FreeManager
    \/ Ask(PacketCalls) \/ DnsQuery \/ Pointers \/ Broken \/ Address \/ SystemFiles
    \/ Ask(MqttCalls \cup CoapCalls \cup SntpCalls) \/ Mqtt \/ CoapMessage \/ CoapWrong \/ Sntp
    \/ Ask(TalkCalls) \/ Talk \/ Connects \/ Subscribes \/ Publishes \/ Leaves \/ PollTime
Spec == Init /\ [][Next]_vars
=============================================================================
