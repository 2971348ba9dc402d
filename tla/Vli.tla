--------------------------------- MODULE Vli --------------------------------
(***************************************************************************)
(* The integers of several words that micro-ecc computes with (uECC.c): a  *)
(* value is a sequence of words, the least significant first.  A word has  *)
(* W bits here (32 on the ESP32-S2), and all word arithmetic wraps.        *)
(***************************************************************************)
EXTENDS Integers, Sequences, Loops

LOCAL INSTANCE FiniteSetsExt

CONSTANT W   \* bits of a word

Base == 2 ^ W
Vlis(n) == [1 .. n -> 0 .. Base - 1]
Bit(b) == IF b THEN 1 ELSE 0
Wrap(x) == x % Base

(* What a value stands for, and the words of a number. *)
Number(v) == LET N[i \in 0 .. Len(v)] == IF i = 0 THEN 0 ELSE N[i - 1] + v[i] * Base ^ (i - 1) IN N[Len(v)]
ToVli(x, n) == [i \in 1 .. n |-> (x \div Base ^ (i - 1)) % Base]

clear(n) == [i \in 1 .. n |-> 0]
isZero(v) == \A i \in DOMAIN v : v[i] = 0
testBit(v, bit) == (v[bit \div W + 1] \div 2 ^ (bit % W)) % 2 = 1
numDigits(v) == Max({0} \cup {i \in DOMAIN v : v[i] # 0})
numBits(v) == LET d == numDigits(v) IN
              IF d = 0 THEN 0 ELSE (d - 1) * W + Min({i \in 0 .. W : v[d] < 2 ^ i})

(* The highest word that differs decides. *)
cmp_unsafe(l, r) ==
    LET d == {i \in DOMAIN l : l[i] # r[i]} IN
    IF d = {} THEN 0 ELSE IF l[Max(d)] > r[Max(d)] THEN 1 ELSE -1

(* The carry out of a word is kept when the sum equals the left word: the  *)
(* right word and the carry then cancelled out.                            *)
add(l, r) ==
    LET Word(s, i) == LET sum == Wrap(l[i] + r[i] + s.carry) IN
            [carry |-> IF sum # l[i] THEN Bit(sum < l[i]) ELSE s.carry, vli |-> Append(s.vli, sum)]
    IN  ForUp([carry |-> 0, vli |-> << >>], 1, Len(l), Word)

\* Slip: the borrow of a word that came out equal to the left word is dropped.
subForgetful(l, r) ==
    LET Word(s, i) == LET diff == Wrap(l[i] - r[i] - s.borrow) IN
            [borrow |-> Bit(diff > l[i]), vli |-> Append(s.vli, diff)]
    IN  ForUp([borrow |-> 0, vli |-> << >>], 1, Len(l), Word)

sub(l, r) ==
    LET Word(s, i) == LET diff == Wrap(l[i] - r[i] - s.borrow) IN
            [borrow |-> IF diff # l[i] THEN Bit(diff > l[i]) ELSE s.borrow, vli |-> Append(s.vli, diff)]
    IN  ForUp([borrow |-> 0, vli |-> << >>], 1, Len(l), Word)

(* The comparison without branches: the sign comes from the borrow. *)
cmp(l, r) == LET d == sub(l, r) IN Bit(~ isZero(d.vli)) - 2 * d.borrow

rshift1(v) ==
    [i \in DOMAIN v |->
        v[i] \div 2 + (IF i < Len(v) THEN (v[i + 1] % 2) * 2 ^ (W - 1) ELSE 0)]

(* Three accumulator words: the double word <<r1, r0>> takes the product.  *)
muladd(r, a, b) ==
    LET p == a * b
        r01 == (r[2] * Base + r[1] + p) % (Base * Base)
    IN  <<r01 % Base, r01 \div Base, Wrap(r[3] + Bit(r01 < p))>>

(* Column by column; the accumulator moves down one word after each.       *)
mult(l, r) ==
    LET n == Len(l)
        Column(s, k) ==
            LET first == IF k < n THEN 0 ELSE k + 1 - n
                last == IF k < n THEN k ELSE n - 1
                Add(acc, i) == muladd(acc, l[i + 1], r[k - i + 1])
                acc == ForUp(s.acc, first, last, Add)
            IN  With(acc, LAMBDA a : [acc |-> <<a[2], a[3], 0>>, vli |-> Append(s.vli, a[1])])
        all == ForUp([acc |-> <<0, 0, 0>>, vli |-> << >>], 0, 2 * n - 2, Column)
    IN  With(all, LAMBDA s : Append(s.vli, s.acc[1]))

modAdd(l, r, mod) ==
    With(add(l, r), LAMBDA s :
        IF s.carry = 1 \/ cmp_unsafe(mod, s.vli) # 1 THEN sub(s.vli, mod).vli ELSE s.vli)

modSub(l, r, mod) ==
    With(sub(l, r), LAMBDA d : IF d.borrow = 1 THEN add(d.vli, mod).vli ELSE d.vli)

(* Long division: mod, moved up until its highest bit is the highest of    *)
(* the product, is subtracted where it fits and moved down by one bit.     *)
mmod(product, mod) ==
    LET n == Len(mod)
        shift == 2 * n * W - numBits(mod)
        ws == shift \div W
        bs == shift % W
        multiple == [i \in 1 .. 2 * n |->
            IF i <= ws THEN 0
            ELSE Wrap(mod[i - ws] * 2 ^ bs)
                 + (IF i - ws > 1 THEN mod[i - ws - 1] \div 2 ^ (W - bs) ELSE 0)]
        Step(s, i) == With(sub(s.rest, s.multiple), LAMBDA d :
            [rest |-> IF d.borrow = 1 THEN s.rest ELSE d.vli, multiple |-> rshift1(s.multiple)])
    IN  SubSeq(ForUp([rest |-> product, multiple |-> multiple], 0, shift, Step).rest, 1, n)

modMult(l, r, mod) == With(mult(l, r), LAMBDA p : mmod(p, mod))

modInv_update(uv, mod) ==
    IF uv[1] % 2 = 0 THEN rshift1(uv)
    ELSE With(add(uv, mod), LAMBDA s :
             [rshift1(s.vli) EXCEPT ![Len(uv)] = @ + s.carry * 2 ^ (W - 1)])

(* u and v shrink with a and b: u * input = a and v * input = b, mod mod.  *)
modInv(input, mod) ==
    LET n == Len(input)
        Less(x, y) == modInv_update(sub(IF cmp_unsafe(x, y) < 0 THEN add(x, mod).vli ELSE x, y).vli, mod)
        G[s \in [a : Vlis(n), b : Vlis(n), u : Vlis(n), v : Vlis(n)]] ==
            LET c == cmp_unsafe(s.a, s.b) IN
            IF c = 0 THEN s.u
            ELSE G[IF s.a[1] % 2 = 0
                   THEN [s EXCEPT !.a = rshift1(s.a), !.u = modInv_update(s.u, mod)]
                   ELSE IF s.b[1] % 2 = 0
                   THEN [s EXCEPT !.b = rshift1(s.b), !.v = modInv_update(s.v, mod)]
                   ELSE IF c > 0
                   THEN [s EXCEPT !.a = rshift1(sub(s.a, s.b).vli), !.u = Less(s.u, s.v)]
                   ELSE [s EXCEPT !.b = rshift1(sub(s.b, s.a).vli), !.v = Less(s.v, s.u)]]
    IN  IF isZero(input) THEN clear(n)
        ELSE G[[a |-> input, b |-> mod, u |-> ToVli(1, n), v |-> clear(n)]]

(* The prime of secp256r1 in words, and the sums and differences of words  *)
(* of a product that are congruent to it: -1 stands for a zero word.       *)
p256 == LET m == Base - 1 IN <<m, m, m, 0, 0, 0, 1, m>>
Doubled == << <<-1, -1, -1, 11, 12, 13, 14, 15>>, <<-1, -1, -1, 12, 13, 14, 15, -1>> >>
Added == << <<8, 9, 10, -1, -1, -1, 14, 15>>, <<9, 10, 11, 13, 14, 15, 13, 8>> >>
Taken == << <<11, 12, 13, -1, -1, -1, 8, 10>>, <<12, 13, 14, 15, -1, -1, 9, 11>>,
            <<13, 14, 15, 8, 9, 10, -1, 12>>, <<14, 15, -1, 9, 10, 11, -1, 13>> >>

mmod_fast_secp256r1(product) ==
    LET Tmp(t) == [i \in 1 .. 8 |-> IF t[i] = -1 THEN 0 ELSE product[t[i] + 1]]
        Plus(s, v) == With(add(s.vli, v), LAMBDA a : [vli |-> a.vli, carry |-> s.carry + a.carry])
        Minus(s, v) == With(sub(s.vli, v), LAMBDA d : [vli |-> d.vli, carry |-> s.carry - d.borrow])
        Twice(s, v) == With(add(v, v), LAMBDA t : Plus([s EXCEPT !.carry = @ + t.carry], t.vli))
        Term(s, i) ==
            CASE i <= 2 -> With(Tmp(Doubled[i]), LAMBDA v : Twice(s, v))
              [] i \in 3 .. 4 -> With(Tmp(Added[i - 2]), LAMBDA v : Plus(s, v))
              [] OTHER -> With(Tmp(Taken[i - 4]), LAMBDA v : Minus(s, v))
        Up[s \in [vli : Vlis(8), carry : Int]] ==
            IF s.carry < 0 THEN Up[Plus(s, p256)] ELSE s.vli
        Down[s \in [vli : Vlis(8), carry : Int]] ==
            IF s.carry # 0 \/ cmp_unsafe(p256, s.vli) # 1 THEN Down[Minus(s, p256)] ELSE s.vli
    IN  With(ForUp([vli |-> SubSeq(product, 1, 8), carry |-> 0], 1, 8, Term), LAMBDA s :
            IF s.carry < 0 THEN Up[s] ELSE Down[s])

-----------------------------------------------------------------------------
(* What micro-ecc knows of its other curves (curve-specific.inc): the      *)
(* reductions that fit their primes, the square root for a prime that is 1 *)
(* mod 4; and, from uECC.c, squares and numbers as bytes.                  *)

Top == Base - 1
p160 == <<(Base \div 2) - 1, Top, Top, Top, Top>>
p192 == <<Top, Top, Top - 1, Top, Top, Top>>
p224 == <<1, 0, 0, Top, Top, Top, Top>>
Omega == Wrap(977)     \* 0x3D1, as far as a word holds it
p256k1 == <<Base - Omega, Top - 1, Top, Top, Top, Top, Top, Top>>

Words(product, at) == [i \in DOMAIN at |-> IF at[i] = -1 THEN 0 ELSE product[at[i] + 1]]
Plus(s, v) == With(add(s.vli, v), LAMBDA a : [vli |-> a.vli, carry |-> s.carry + a.carry])
Minus(s, v) == With(sub(s.vli, v), LAMBDA d : [vli |-> d.vli, carry |-> s.carry - d.borrow])
PlusAll(s, vs) == ForUp(s, 1, Len(vs), LAMBDA t, i : Plus(t, vs[i]))

(* p added while the carry is negative, else taken away while it fits; no  *)
(* product needs more turns than there are words.                          *)
Settled(s, p) ==
    ForUp(s, 1, 2 * Len(p), LAMBDA t, i :
        IF s.carry < 0 THEN IF t.carry < 0 THEN Plus(t, p) ELSE t
        ELSE IF t.carry # 0 \/ cmp_unsafe(p, t.vli) # 1 THEN Minus(t, p) ELSE t).vli

mmod_fast_secp192r1(product) ==
    With(PlusAll([vli |-> SubSeq(product, 1, 6), carry |-> 0],
                 << SubSeq(product, 7, 12), Words(product, <<-1, -1, 6, 7, 8, 9>>),
                    Words(product, <<10, 11, 10, 11, -1, -1>>) >>),
         LAMBDA s : Settled(s, p192))

mmod_fast_secp224r1(product) ==
    With(PlusAll([vli |-> SubSeq(product, 1, 7), carry |-> 0],
                 << Words(product, <<-1, -1, -1, 7, 8, 9, 10>>), Words(product, <<-1, -1, -1, 11, 12, 13, -1>>) >>),
         LAMBDA s : With(Minus(s, SubSeq(product, 8, 14)), LAMBDA t :
             With(Minus(t, Words(product, <<11, 12, 13, -1, -1, -1, -1>>)), LAMBDA u : Settled(u, p224))))

(* times 2^31 + 1: half of the value one word up, its last bit below.      *)
omega_mult_secp160r1(right) ==
    LET half == <<Wrap(right[1] * (Base \div 2))>> \o rshift1(right)
        sum == add(SubSeq(half, 1, 5), right)
    IN  With(sum, LAMBDA s :
        LET top == half[6] + s.carry IN s.vli \o <<Wrap(top), top \div Base, 0, 0, 0>>)

(* times 2^32 + 2^9 + 2^8 + 2^7 + 2^6 + 2^4 + 1.                           *)
omega_mult_secp256k1(right) ==
    LET low == ForUp([vli |-> << >>, carry |-> 0], 1, 8, LAMBDA s, k :
                   LET p == Omega * right[k] + s.carry IN [vli |-> Append(s.vli, Wrap(p)), carry |-> p \div Base])
    IN  With(low, LAMBDA s :
        With(add(SubSeq(s.vli, 2, 8) \o <<s.carry>>, right), LAMBDA t :
            <<s.vli[1]>> \o t.vli \o <<t.carry>> \o [i \in 1 .. 6 |-> 0]))

(* The upper half times omega goes to the lower half, and what that pushes *)
(* over the edge once more.  p itself is left as it is.                    *)
Folded(product, p, omega1, omega2) ==
    With(PlusAll([vli |-> SubSeq(product, 1, Len(p)), carry |-> 0], <<omega1, omega2>>), LAMBDA s :
    With(ForUp(s.vli, 1, s.carry, LAMBDA v, i : sub(v, p).vli), LAMBDA v :
        IF cmp_unsafe(v, p) > 0 THEN sub(v, p).vli ELSE v))

mmod_fast_secp160r1(product) ==
    With(omega_mult_secp160r1(SubSeq(product, 6, 10)), LAMBDA tmp :
        Folded(product, p160, SubSeq(tmp, 1, 5), SubSeq(omega_mult_secp160r1(SubSeq(tmp, 6, 10)), 1, 5)))

mmod_fast_secp256k1(product) ==
    With(omega_mult_secp256k1(SubSeq(product, 9, 16)), LAMBDA tmp :
        Folded(product, p256k1, SubSeq(tmp, 1, 8), SubSeq(omega_mult_secp256k1(SubSeq(tmp, 9, 16)), 1, 8)))

-----------------------------------------------------------------------------
(* The square root mod a prime p = 2^s (2^(2^m) - 1) + 1, 2^224 - 2^96 + 1 *)
(* with s = 96 and m = 7: c has the fields p, s and m.  A triple is        *)
(* <<d, e, f>>.                                                            *)
mod_sqrt_secp224r1_rs(c, t) ==
    LET dd == (t[1] * t[1]) % c.p IN
    <<(dd + t[3]) % c.p, (2 * ((t[1] * t[2]) % c.p)) % c.p, (4 * ((dd * t[3]) % c.p)) % c.p>>

mod_sqrt_secp224r1_rss(c, t, j) == ForUp(t, 1, j, LAMBDA u, i : mod_sqrt_secp224r1_rs(c, u))

mod_sqrt_secp224r1_rm(c, a, t, u) ==
    LET Prod(x, y) == (x * y) % c.p
        d == (Prod(t[1], u[1]) + c.p - Prod(Prod(t[2], u[2]), a)) % c.p
        e == (Prod(u[1], t[2]) + Prod(t[1], u[2])) % c.p
    IN  <<d, e, (c.p - Prod(Prod(e, e), a)) % c.p>>

mod_sqrt_secp224r1_rp(c, a) ==
    ForUp(<<a, 1, (c.p - a) % c.p>>, 0, c.m - 1, LAMBDA t, i :
        mod_sqrt_secp224r1_rm(c, a, mod_sqrt_secp224r1_rss(c, t, 2 ^ i), t))

InverseOf(x, m) == IF x % m = 0 THEN 0 ELSE CHOOSE i \in 1 .. m - 1 : (i * x) % m = 1

(* Steps until d vanishes: the root is d / e of the step before.           *)
mod_sqrt_secp224r1(c, a) ==
    With(ForUp([t |-> mod_sqrt_secp224r1_rp(c, a), u |-> mod_sqrt_secp224r1_rs(c, mod_sqrt_secp224r1_rp(c, a))],
               1, c.s - 1, LAMBDA r, i :
               IF i > 1 /\ r.u[1] = 0 THEN r ELSE [t |-> r.u, u |-> mod_sqrt_secp224r1_rs(c, r.u)]),
         LAMBDA r : (r.t[1] * InverseOf(r.t[2], c.p)) % c.p)

-----------------------------------------------------------------------------
(* A product taken twice: the bit that falls off goes to the third word.   *)
mul2add(r, a, b) ==
    LET p == a * b
        twice == (2 * p) % (Base * Base)
        r01 == (r[2] * Base + r[1] + twice) % (Base * Base)
    IN  <<r01 % Base, r01 \div Base, Wrap(r[3] + (2 * p) \div (Base * Base) + Bit(r01 < twice))>>

(* Each pair of words once, doubled, and each word with itself.            *)
square(l) ==
    LET n == Len(l)
        Column(s, k) ==
            With(ForUp(s.acc, IF k < n THEN 0 ELSE k + 1 - n, k \div 2, LAMBDA acc, i :
                     IF i < k - i THEN mul2add(acc, l[i + 1], l[k - i + 1]) ELSE muladd(acc, l[i + 1], l[k - i + 1])),
                 LAMBDA a : [acc |-> <<a[2], a[3], 0>>, vli |-> Append(s.vli, a[1])])
    IN  With(ForUp([acc |-> <<0, 0, 0>>, vli |-> << >>], 0, 2 * n - 2, Column), LAMBDA s : Append(s.vli, s.acc[1]))

(* Numbers as bytes, the most significant first.  A word has WordSize      *)
(* bytes, 4 on the chip and 2 here.                                        *)
WordSize == 2
ByteBase == 2 ^ (W \div WordSize)
nativeToBytes(num_bytes, native) ==
    [i \in 1 .. num_bytes |->
        LET b == num_bytes - i IN (native[(b \div WordSize) + 1] \div ByteBase ^ (b % WordSize)) % ByteBase]
bytesToNative(bytes) ==
    LET n == Len(bytes) IN
    [w \in 1 .. (n + WordSize - 1) \div WordSize |->
        ForUp(0, 1, n, LAMBDA v, i :
            IF (n - i) \div WordSize + 1 = w THEN v + bytes[i] * ByteBase ^ ((n - i) % WordSize) ELSE v)]
=============================================================================
