------------------------------ MODULE MicroEcc -------------------------------
(***************************************************************************)
(* The curve arithmetic of micro-ecc (uECC.c, curve-specific.inc) and the  *)
(* bootloader's signature check built on it (uECC_verify_antifault.c).     *)
(* Field elements are numbers mod c.p: that the words compute them is what *)
(* Vli is about.  A curve c has the fields p, n, a, b, G and num_n_bits; a *)
(* point is <<x, y>>, and <<0, 0>> stands for the point at infinity.       *)
(***************************************************************************)
EXTENDS Integers, Sequences, Bitwise, Loops

Inverse(x, m) == IF x % m = 0 THEN 0 ELSE CHOOSE i \in 1 .. m - 1 : (i * x) % m = 1
BitOf(x, i) == (x \div 2 ^ i) % 2
BitsIn(x) == CHOOSE i \in 0 .. 31 : x < 2 ^ i /\ (i = 0 \/ x >= 2 ^ (i - 1))

apply_z(c, P, z) == <<(P[1] * z * z) % c.p, (((P[2] * z * z) % c.p) * z) % c.p>>

(* <<x, y, z>> => twice the point, in Jacobian coordinates, for a = -3.    *)
double_jacobian_default(c, J) ==
    LET zz == (J[3] * J[3]) % c.p
        yy == (J[2] * J[2]) % c.p
        A == (J[1] * yy) % c.p
        three == (3 * ((J[1] + zz) * (J[1] - zz))) % c.p
        half == (IF three % 2 = 1 THEN three + c.p ELSE three) \div 2
    IN  IF J[3] = 0 THEN J
        ELSE With(half, LAMBDA B : With((B * B - 2 * A) % c.p, LAMBDA x3 :
                 <<x3, (B * (A - x3) - yy * yy) % c.p, (J[2] * J[3]) % c.p>>))

(* The same for a = 0.                                                     *)
double_jacobian_secp256k1(c, J) ==
    LET yy == (J[2] * J[2]) % c.p
        A == (J[1] * yy) % c.p
        three == (3 * J[1] * J[1]) % c.p
        half == (IF three % 2 = 1 THEN three + c.p ELSE three) \div 2
    IN  IF J[3] = 0 THEN J
        ELSE With(half, LAMBDA B : With((B * B - 2 * A) % c.p, LAMBDA x3 :
                 <<x3, (B * (A - x3) - yy * yy) % c.p, (J[2] * J[3]) % c.p>>))

double_jacobian(c, J) == IF c.a = 0 THEN double_jacobian_secp256k1(c, J) ELSE double_jacobian_default(c, J)

(* Two points with the same z => the first with the z of the sum, the sum. *)
XYcZ_add(c, P, Q) ==
    LET A == ((Q[1] - P[1]) * (Q[1] - P[1])) % c.p
        B == (P[1] * A) % c.p
        C == (Q[1] * A) % c.p
        y == Q[2] - P[2]
        E == (P[2] * (C - B)) % c.p
    IN  With((y * y - B - C) % c.p, LAMBDA x3 :
            << <<B, E>>, <<x3, (y * (B - x3) - E) % c.p>> >>)

(* Two points with the same z => their difference, their sum.              *)
XYcZ_addC(c, P, Q) ==
    LET A == ((Q[1] - P[1]) * (Q[1] - P[1])) % c.p
        B == (P[1] * A) % c.p
        C == (Q[1] * A) % c.p
        E == (P[2] * (C - B)) % c.p
        Third(y) == With((y * y - B - C) % c.p, LAMBDA x3 : <<x3, (y * (B - x3) - E) % c.p>>)
        minus == With(Third(Q[2] + P[2]), LAMBDA d : <<d[1], (-d[2] - 2 * E) % c.p>>)
    IN  <<minus, Third(Q[2] - P[2])>>

(* P => <<P, 2P>> with the same z.                                         *)
XYcZ_initial_double(c, P, Z) ==
    With(apply_z(c, P, Z), LAMBDA once :
        With(double_jacobian(c, <<once[1], once[2], Z>>), LAMBDA J :
            <<apply_z(c, P, J[3]), <<J[1], J[2]>> >>))

Swap(R, nb) == IF nb = 1 THEN R ELSE <<R[2], R[1]>>

(* Montgomery's ladder over the num_bits bits of the scalar, the highest   *)
(* of which is taken to be set; 1/z is recovered from the known point.     *)
(* <<R[1 - nb], R[nb]>> go into each addition.                             *)
EccPoint_mult(c, point, scalar, Z, num_bits) ==
    LET nb(i) == 1 - BitOf(scalar, i)
        Both(R, i) == With(Swap(R, nb(i)), LAMBDA r : XYcZ_addC(c, r[1], r[2]))
        Rung(R, i) == With(Both(R, i), LAMBDA r :
            With(XYcZ_add(c, r[2], r[1]), LAMBDA s : Swap(<<s[2], s[1]>>, nb(i))))
        Invert(r) ==   \* r is <<R[1 - nb], R[nb]>>: xb * yP / (xP * yb * (x1 - x0))
            LET x10 == IF nb(0) = 1 THEN r[2][1] - r[1][1] ELSE r[1][1] - r[2][1] IN
            (((Inverse((((x10 * r[1][2]) % c.p) * point[1]) % c.p, c.p) * point[2]) % c.p) * r[1][1]) % c.p
        ladder == ForDown(XYcZ_initial_double(c, point, Z), num_bits - 2, 1, Rung)
    IN  With(ladder, LAMBDA R : With(Both(R, 0), LAMBDA r :
            LET s == XYcZ_add(c, r[2], r[1]) IN
            apply_z(c, IF nb(0) = 1 THEN s[2] ELSE s[1], Invert(r))))

\* Slip: the scalar is raised once only, so its length tells the leading zeros.
regularizeOnce(c, k) == k + c.n

(* The scalar, raised by n or by 2n so that it has num_n_bits + 1 bits.    *)
regularize_k(c, k) ==
    LET k0 == k + c.n IN IF k0 >= 2 ^ c.num_n_bits THEN k0 ELSE k0 + c.n

(* k P for 0 < k < n, as the public key, the ephemeral point and (with a   *)
(* random Z) the shared secret are computed.                               *)
point_mult(c, P, k, Z) == EccPoint_mult(c, P, regularize_k(c, k), Z, c.num_n_bits + 1)

compute_public_key(c, d) ==
    IF d = 0 \/ d >= c.n THEN <<0, 0>> ELSE point_mult(c, c.G, d, 1)

x_side_default(c, x) == (((x * x - 3) % c.p) * x + c.b) % c.p
x_side_secp256k1(c, x) == (((x * x) % c.p) * x + c.b) % c.p
x_side(c, x) == IF c.a = 0 THEN x_side_secp256k1(c, x) ELSE x_side_default(c, x)

valid_point(c, P) ==
    /\ P # <<0, 0>>
    /\ P[1] < c.p /\ P[2] < c.p
    /\ (P[2] * P[2]) % c.p = x_side(c, P[1])

compress(P) == <<2 + (P[2] % 2), P[1]>>

(* For p = 3 mod 4 the power (p + 1) / 4 is a square root.                 *)
mod_sqrt(c, a) ==
    LET Square(s, i) == (((s * s) % c.p) * (IF BitOf(c.p + 1, i) = 1 THEN a ELSE 1)) % c.p
    IN  ForDown(1, BitsIn(c.p + 1) - 1, 2, Square)

decompress(c, z) ==
    With(mod_sqrt(c, x_side(c, z[2])), LAMBDA y :
        <<z[2], IF y % 2 # z[1] % 2 THEN c.p - y ELSE y>>)

(* The leftmost num_n_bits bits of a hash of bytes, reduced once when they *)
(* had to be moved down, and not at all when the hash has no more bits.    *)
bits2int(c, hash) ==
    LET size == IF Len(hash) > (c.num_n_bits + 7) \div 8 THEN (c.num_n_bits + 7) \div 8 ELSE Len(hash)
        N[i \in 0 .. size] == IF i = 0 THEN 0 ELSE 256 * N[i - 1] + hash[i]
        native == N[size] \div 2 ^ (size * 8 - c.num_n_bits)
    IN  IF size * 8 <= c.num_n_bits THEN N[size]
        ELSE IF native >= c.n THEN native - c.n ELSE native

addMod(l, r, m) == IF l + r >= m THEN l + r - m ELSE l + r

(* The x of u1 G + u2 Q, both scalars' bits taken together from the top    *)
(* (Shamir's trick); sum is G + Q.                                         *)
TwoScalars(c, Q, u1, u2) ==
    LET sum == apply_z(c, XYcZ_add(c, c.G, Q)[2], Inverse(Q[1] - c.G[1], c.p))
        Which(i) == BitOf(u1, i) + 2 * BitOf(u2, i)
        Point(i) == CASE Which(i) = 1 -> c.G [] Which(i) = 2 -> Q [] OTHER -> sum
        Plus(r, i) == With(apply_z(c, Point(i), r[3]), LAMBDA t :
            Append(XYcZ_add(c, t, <<r[1], r[2]>>)[2], (r[3] * (r[1] - t[1])) % c.p))
        Step(J, i) == With(double_jacobian(c, J), LAMBDA r :
            IF Which(i) = 0 THEN r ELSE Plus(r, i))
        top == BitsIn(IF u1 > u2 THEN u1 ELSE u2) - 1
    IN  With(ForDown(Append(Point(top), 1), top - 1, 0, Step), LAMBDA J :
            apply_z(c, <<J[1], J[2]>>, Inverse(J[3], c.p))[1])

(* u1 and u2 of a signature <<r, s>>: hash / s and r / s mod n.             *)
ScalarsOf(c, hash, sig) ==
    With(Inverse(sig[2], c.n), LAMBDA z : <<(bits2int(c, hash) * z) % c.n, (sig[1] * z) % c.n>>)

\* Slip: the x of the point is compared as it is, not mod n.
VerifiedXRaw(c, Q, hash, sig) ==
    With(ScalarsOf(c, hash, sig), LAMBDA u : TwoScalars(c, Q, u[1], u[2]))

VerifiedX(c, Q, hash, sig) ==
    With(ScalarsOf(c, hash, sig), LAMBDA u : With(TwoScalars(c, Q, u[1], u[2]), LAMBDA x :
        IF x >= c.n THEN x - c.n ELSE x))

(* 1 when the signature <<r, s>> is accepted.                              *)
verify(c, Q, hash, sig) ==
    IF sig[1] = 0 \/ sig[2] = 0 \/ sig[1] >= c.n \/ sig[2] >= c.n THEN 0
    ELSE IF VerifiedX(c, Q, hash, sig) = sig[1] THEN 1 ELSE 0

(* The words of the hash as the caller of the anti-fault check gets them:  *)
(* mixed with the difference of the x found and r, which is zero words     *)
(* when the signature is good.  diff and hash are sequences of words.      *)
verified_hash(hash, diff) ==
    LET n == Len(hash)
        mixed == [w \in 1 .. n |-> hash[w] ^^ diff[((w - 1) % Len(diff)) + 1]]
    IN  ForUp(mixed, n + 1, Len(diff), LAMBDA v, w : [v EXCEPT ![((w - 1) % n) + 1] = @ | diff[w]])

-----------------------------------------------------------------------------
(* Keys and signatures with the numbers of a generator: random is what it  *)
(* returns, call by call, -1 for a failure, and fails from its end on.  A  *)
(* number is cut to the bits of top; the first that is neither zero nor    *)
(* too large is taken.  <<k, the calls left>>, k = 0 for a failure, which  *)
(* 64 numbers that do not serve are as well.                               *)
uECC_RNG_MAX_TRIES == 64
generate_random_int(random, top) ==
    LET Fits(k) == k % 2 ^ BitsIn(top) \in 1 .. top - 1
        tries == {i \in 1 .. uECC_RNG_MAX_TRIES : i > Len(random) \/ random[i] = -1 \/ Fits(random[i])}
        stop == CHOOSE i \in tries \cup {uECC_RNG_MAX_TRIES + 1} : \A j \in tries : i <= j
    IN  IF stop > uECC_RNG_MAX_TRIES THEN <<0, SubSeq(random, stop, Len(random))>>
        ELSE IF stop > Len(random) \/ random[stop] = -1 THEN <<0, SubSeq(random, stop + 1, Len(random))>>
        ELSE <<random[stop] % 2 ^ BitsIn(top), SubSeq(random, stop + 1, Len(random))>>

(* Up to 64 numbers of the generator, until Done, which may draw more of   *)
(* them, finds something with one; << >> when the generator fails.         *)
TryNumbers(random, top, Done(_, _)) ==
    ForUp([left |-> random, found |-> << >>, failed |-> FALSE], 1, uECC_RNG_MAX_TRIES, LAMBDA r, i :
        IF r.failed \/ r.found # << >> THEN r
        ELSE With(generate_random_int(r.left, top), LAMBDA k :
             IF k[1] = 0 THEN [r EXCEPT !.failed = TRUE]
             ELSE With(Done(k[1], k[2]), LAMBDA f : [r EXCEPT !.found = f[1], !.left = f[2]]))).found

(* <<private key, public key>>, or << >>.                                  *)
make_key(c, random) ==
    TryNumbers(random, c.n, LAMBDA d, left :
        With(compute_public_key(c, d), LAMBDA Q : <<IF Q = <<0, 0>> THEN << >> ELSE <<d, Q>>, left>>))

(* With a generator the ladder starts from a random Z; the result is zero  *)
(* for a failure.                                                          *)
shared_secret(c, Q, d, has_rng, random) ==
    With(IF has_rng THEN generate_random_int(random, c.p)[1] ELSE 1, LAMBDA Z :
        IF Z = 0 THEN << >> ELSE With(point_mult(c, Q, d, Z), LAMBDA P : IF P = <<0, 0>> THEN << >> ELSE <<P[1]>>))

(* <<signature, the calls of the generator left>>: the signature is <<r,   *)
(* s>>, or << >> when the caller has to try another k.  r is the x of the  *)
(* point as it is; s is multiplied with the inverse of k, taken in two     *)
(* steps around a number, which cancels out.  A generator is asked for     *)
(* that number once r is known, and its failure is the failure of k;       *)
(* without one the number is 1.                                            *)
sign_with_k(c, d, hash, k, has_rng, random) ==
    LET inv(t) == (Inverse((k * t) % c.n, c.n) * t) % c.n
        S(r, t) == (addMod(bits2int(c, hash), (d * r) % c.n, c.n) * inv(t)) % c.n
        Failed(left) == <<<< >>, left>>
    IN  IF k = 0 \/ k >= c.n THEN Failed(random)
        ELSE With(point_mult(c, c.G, k, 1)[1], LAMBDA r :
             IF r = 0 THEN Failed(random)
             ELSE With(IF has_rng THEN generate_random_int(random, c.n) ELSE <<1, random>>, LAMBDA tmp :
                  IF tmp[1] = 0 THEN Failed(tmp[2])
                  ELSE With(S(r, tmp[1]), LAMBDA s :
                       IF BitsIn(s) > 8 * ((BitsIn(c.p) + 7) \div 8) THEN Failed(tmp[2]) ELSE <<<<r, s>>, tmp[2]>>)))

(* Every k takes a number, and every k with a point another one.           *)
sign(c, d, hash, random) ==
    TryNumbers(random, c.n, LAMBDA k, left : sign_with_k(c, d, hash, k, TRUE, left))

(* HMAC in the scratch memory of a hash: K, V, and pad, whose first byte   *)
(* is also the byte behind V; text is what the hash has been given.  h is  *)
(* [result_size, block_size, salt]; Hash stands for the caller's function. *)
Hash(h, bytes) == [i \in 1 .. h.result_size |->
    ForUp(h.salt + i, 1, Len(bytes), LAMBDA v, j : (v * 31 + bytes[j] + i) % 65521) % 256]
Pad(h, K, mask) == [i \in 1 .. h.block_size |-> IF i <= h.result_size THEN K[i] ^^ mask ELSE mask]

HMAC_init(h, m) == With(Pad(h, m.K, 54), LAMBDA pad : [m EXCEPT !.pad = pad, !.text = pad])
HMAC_update(m, message) == [m EXCEPT !.text = @ \o message]
HMAC_finish(h, m) ==
    With(Pad(h, m.K, 92), LAMBDA pad : [m EXCEPT !.pad = pad, !.text = pad \o Hash(h, m.text)])
BehindV(m, byte) == [m EXCEPT !.pad[1] = byte]

update_V(h, m) == With(HMAC_finish(h, HMAC_update(HMAC_init(h, m), m.V)), LAMBDA r : [r EXCEPT !.V = Hash(h, r.text)])

(* K = HMAC_K(V || byte || more), V = HMAC_K(V).                           *)
NextKV(h, m, byte, more) ==
    With(BehindV(HMAC_init(h, m), byte), LAMBDA i :
    With(HMAC_finish(h, HMAC_update(HMAC_update(i, Append(i.V, i.pad[1])), more)), LAMBDA r :
        update_V(h, [r EXCEPT !.K = Hash(h, r.text)])))

(* T is filled with results until it has size bytes.                       *)
Filled(h, m, size) ==
    ForUp([m |-> m, T |-> << >>], 1, size, LAMBDA r, i :
        IF Len(r.T) >= size THEN r
        ELSE With(update_V(h, r.m), LAMBDA n :
             [m |-> n, T |-> SubSeq(r.T \o n.V, 1, IF Len(r.T) + h.result_size < size THEN Len(r.T) + h.result_size ELSE size)]))

(* T as a number of as many bits as n has: on a little endian machine the  *)
(* bytes of its words come lowest first.                                   *)
MaskedT(c, T) == ForUp(0, 1, (c.num_n_bits + 7) \div 8, LAMBDA v, i : v + T[i] * 256 ^ (i - 1)) % 2 ^ c.num_n_bits

(* <<k, signature>> of the first k that makes a signature; a generator is  *)
(* only asked for the number around each inverse.                          *)
sign_deterministic(c, h, d, key, hash, has_rng, random) ==
    LET zero == [K |-> [i \in 1 .. h.result_size |-> 0], V |-> [i \in 1 .. h.result_size |-> 1],
                 pad |-> [i \in 1 .. h.block_size |-> 0], text |-> << >>]
        start == With(NextKV(h, zero, 0, key \o hash), LAMBDA m : NextKV(h, m, 1, key \o hash))
    IN  ForUp([m |-> start, left |-> random, sig |-> << >>], 1, uECC_RNG_MAX_TRIES, LAMBDA r, i :
            IF r.sig # << >> THEN r
            ELSE With(Filled(h, r.m, 4 * ((c.num_n_bits + 31) \div 32)), LAMBDA f :
                 With(sign_with_k(c, d, hash, MaskedT(c, f.T), has_rng, r.left), LAMBDA sig :
                     IF sig[1] # << >> THEN [r EXCEPT !.sig = <<MaskedT(c, f.T), sig[1]>>]
                     ELSE [r EXCEPT !.m = NextKV(h, f.m, 0, << >>), !.left = sig[2]]))).sig
=============================================================================
