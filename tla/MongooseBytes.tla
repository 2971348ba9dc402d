---------------------------- MODULE MongooseBytes ----------------------------
(***************************************************************************)
(* The functions of mongoose.c that turn bytes into text and back: base64, *)
(* hexadecimal, the escapes of a URL, and the buffer they are collected    *)
(* in.  A text is a sequence of character codes; the NUL at its end is not *)
(* written.                                                                *)
(***************************************************************************)
EXTENDS Loops, Sequences

Codes(from, to) == [i \in 1 .. to - from + 1 |-> from + i - 1]
Alphabet == Codes(65, 90) \o Codes(97, 122) \o Codes(48, 57) \o <<43, 47>>
HexDigits == Codes(48, 57) \o Codes(97, 102)
Equals == 61
Colon == 58
Percent == 37
Plus == 43
Blank == 32
Ampersand == 38

Lower(ch) == IF ch \in 65 .. 90 THEN ch + 32 ELSE ch
LowerAll(s) == [i \in DOMAIN s |-> Lower(s[i])]
From(s, first) == SubSeq(s, first, Len(s))
EqualsFor(n) == [i \in 1 .. n |-> Equals]

-----------------------------------------------------------------------------
(* Base64: a chunk of up to three bytes, zeros behind them.                *)
emit_chunk(chunk) ==
    LET a == chunk[1]
        b == IF Len(chunk) > 1 THEN chunk[2] ELSE 0
        c == IF Len(chunk) > 2 THEN chunk[3] ELSE 0
        codes == <<a \div 4, (a % 4) * 16 + b \div 16, (b % 16) * 4 + c \div 64, c % 64>>
    IN  [i \in 1 .. Len(chunk) + 1 |-> Alphabet[codes[i] + 1]]

cs_base64_init == [chunk |-> << >>, out |-> << >>]

cs_base64_update(ctx, str) ==
    ForUp(ctx, 1, Len(str), LAMBDA x, i :
        IF Len(x.chunk) < 2 THEN [x EXCEPT !.chunk = Append(@, str[i])]
        ELSE [chunk |-> << >>, out |-> x.out \o emit_chunk(Append(x.chunk, str[i]))])

cs_base64_finish(ctx) ==
    IF ctx.chunk = << >> THEN ctx.out
    ELSE ctx.out \o emit_chunk(ctx.chunk) \o EqualsFor(3 - Len(ctx.chunk))

cs_base64_encode(src) ==
    With(ForUp(<< >>, 0, (Len(src) - 1) \div 3, LAMBDA dst, k :
             dst \o emit_chunk(SubSeq(src, 3 * k + 1, IF 3 * k + 3 > Len(src) THEN Len(src) ELSE 3 * k + 3))),
         LAMBDA dst : dst \o EqualsFor((-Len(dst)) % 4))

(* The code of a character, 200 for "=", 255 for any other.                *)
from_b64(ch) ==
    LET c == ch % 128 IN
    IF c = Equals THEN 200
    ELSE IF \E i \in 1 .. 64 : Alphabet[i] = c THEN (CHOOSE i \in 1 .. 64 : Alphabet[i] = c) - 1
    ELSE 255

(* Four characters at a time, as long as all four mean something and no    *)
(* "=" is met; consumed counts the characters taken.                       *)
cs_base64_decode(s, len) ==
    ForUp([out |-> << >>, consumed |-> 0, stop |-> FALSE], 0, (len \div 4) - 1, LAMBDA r, k :
        IF r.stop THEN r
        ELSE With([i \in 1 .. 4 |-> from_b64(s[4 * k + i])], LAMBDA v :
            IF \E i \in 1 .. 4 : v[i] = 255 THEN [r EXCEPT !.stop = TRUE]
            ELSE LET three == <<(v[1] * 4 + v[2] \div 16) % 256, (v[2] * 16 + v[3] \div 4) % 256, (v[3] * 64 + v[4]) % 256>>
                     n == CASE 200 \in {v[1], v[2]} -> 0 [] v[3] = 200 -> 1 [] v[4] = 200 -> 2 [] OTHER -> 3
                 IN  [out |-> r.out \o SubSeq(three, 1, n), consumed |-> r.consumed + 4, stop |-> n < 3]))

-----------------------------------------------------------------------------
(* The Authorization header of a user and its password, to the mark at the *)
(* end of its line, and the way back: the decoder is given the length of   *)
(* the whole header although it starts behind "Basic ", and so reads into  *)
(* the line end and what follows it.                                       *)
BasicPrefix == <<66, 97, 115, 105, 99, 32>>

mg_basic_auth_header(user, has_pass, pass) ==
    With(cs_base64_update(cs_base64_init, user), LAMBDA ctx :
        BasicPrefix \o cs_base64_finish(
            IF has_pass THEN cs_base64_update(cs_base64_update(ctx, <<Colon>>), pass) ELSE ctx))

(* What sscanf's %n[^:]:%m[^\n] makes of it: no more than n and m          *)
(* characters, the second only if the first stopped at the colon.          *)
Until(s, stop, most) ==
    LET n == CHOOSE n \in 0 .. Len(s) :
                /\ n <= most
                /\ \A i \in 1 .. n : s[i] # stop
                /\ n = most \/ n = Len(s) \/ s[n + 1] = stop
    IN  SubSeq(s, 1, n)

mg_parse_http_basic_auth(hdr, behind, user_len, pass_len) ==
    IF SubSeq(hdr, 1, 6) # BasicPrefix THEN [res |-> -1, user |-> << >>, pass |-> << >>]
    ELSE With(cs_base64_decode(From(hdr \o behind, 7), Len(hdr)).out, LAMBDA buf :
        LET user == Until(buf, Colon, user_len - 1)
            rest == From(buf, Len(user) + 1)
        IN  IF buf # << >> /\ user = << >> THEN [res |-> -1, user |-> << >>, pass |-> << >>]
            ELSE [res |-> 0, user |-> user,
                  pass |-> IF user # << >> /\ rest # << >> /\ rest[1] = Colon
                           THEN Until(From(rest, 2), 10, pass_len - 1) ELSE << >>])

-----------------------------------------------------------------------------
cs_to_hex(p) == [i \in 1 .. 2 * Len(p) |->
    LET b == p[(i + 1) \div 2] IN HexDigits[1 + (IF i % 2 = 1 THEN b \div 16 ELSE b % 16)]]

fourbit(ch) ==
    CASE ch \in 48 .. 57 -> ch - 48
      [] ch \in 97 .. 102 -> ch - 87
      [] ch \in 65 .. 70 -> ch - 55
      [] OTHER -> 0

cs_from_hex(p) == [i \in 1 .. Len(p) \div 2 |-> 16 * fourbit(p[2 * i - 1]) + fourbit(p[2 * i])]

IsHexDigit(ch) == ch \in 48 .. 57 \cup 97 .. 102 \cup 65 .. 70

(* Escapes decoded into at most dst_len - 1 characters: the text, and -1   *)
(* for a broken escape or when the text has no room.                       *)
mg_url_decode(src, dst_len, is_form) ==
    With(ForUp([dst |-> << >>, i |-> 1, bad |-> FALSE], 1, Len(src), LAMBDA r, k :
            CASE r.bad \/ r.i > Len(src) \/ Len(r.dst) >= dst_len - 1 -> r
              [] src[r.i] = Percent /\ r.i + 2 <= Len(src) /\ IsHexDigit(src[r.i + 1]) /\ IsHexDigit(src[r.i + 2]) ->
                    [r EXCEPT !.dst = Append(@, 16 * fourbit(src[r.i + 1]) + fourbit(src[r.i + 2])), !.i = @ + 3]
              [] src[r.i] = Percent /\ ~ (r.i + 2 <= Len(src) /\ IsHexDigit(src[r.i + 1]) /\ IsHexDigit(src[r.i + 2])) ->
                    [r EXCEPT !.bad = TRUE]
              [] OTHER -> [r EXCEPT !.dst = Append(@, IF is_form /\ src[r.i] = Plus THEN Blank ELSE src[r.i]), !.i = @ + 1]),
         LAMBDA r : [dst |-> r.dst, len |-> IF r.bad \/ r.i <= Len(src) THEN -1 ELSE Len(r.dst)])

Kept == {46, 95, 45, 36, 44, 59, 126, 40, 41, 47} \cup 48 .. 57 \cup 65 .. 90 \cup 97 .. 122   \* dont_escape, isalnum

(* It stops where an escape might find no room, even if none is needed.    *)
mg_url_encode(src, dst_len) ==
    ForUp(<< >>, 1, Len(src), LAMBDA dst, i :
        IF ~ Len(dst) + 2 < dst_len - 1 THEN dst
        ELSE IF src[i] \in Kept THEN Append(dst, src[i])
        ELSE dst \o <<Percent>> \o cs_to_hex(<<src[i]>>))

(* The value of a variable of a form, decoded; -1 when there is none, -2   *)
(* when it cannot be decoded into dst_len - 1 characters.                  *)
mg_get_http_var(buf, name, dst_len) ==
    LET Here(p) ==
            /\ p = 1 \/ buf[p - 1] = Ampersand
            /\ buf[p + Len(name)] = Equals
            /\ LowerAll(SubSeq(buf, p, p + Len(name) - 1)) = LowerAll(name)
        starts == {p \in 1 .. Len(buf) - Len(name) : Here(p)}
    IN  CASE dst_len = 0 -> [dst |-> << >>, len |-> -2]
          [] dst_len # 0 /\ (buf = << >> \/ starts = {}) -> [dst |-> << >>, len |-> -1]
          [] OTHER ->
               LET p == CHOOSE p \in starts : \A q \in starts : p <= q IN
               With(mg_url_decode(Until(From(buf, p + Len(name) + 1), Ampersand, Len(buf)), dst_len, TRUE),
                    LAMBDA r : [r EXCEPT !.len = IF @ = -1 THEN -2 ELSE @])

-----------------------------------------------------------------------------
(* A growing buffer: len bytes in use of size, and realloc, which may find *)
(* no memory and then leaves everything as it was.                         *)
mbuf_free == [buf |-> << >>, size |-> 0]

mbuf_resize(a, new_size, memory) ==
    IF (new_size > a.size \/ (new_size < a.size /\ new_size >= Len(a.buf))) /\ (memory \/ new_size = 0)
    THEN [a EXCEPT !.size = new_size] ELSE a

mbuf_trim(a, memory) == mbuf_resize(a, Len(a.buf), memory)

(* At off, counted from 0; room for half as much again when it grows.      *)
mbuf_insert(a, off, data, memory) ==
    LET all == SubSeq(a.buf, 1, off) \o data \o From(a.buf, off + 1) IN
    CASE Len(all) <= a.size -> [mbuf |-> [a EXCEPT !.buf = all], len |-> Len(data)]
      [] Len(all) > a.size /\ memory -> [mbuf |-> [buf |-> all, size |-> (3 * Len(all)) \div 2], len |-> Len(data)]
      [] OTHER -> [mbuf |-> a, len |-> 0]

mbuf_append(a, data, memory) == mbuf_insert(a, Len(a.buf), data, memory)
mbuf_remove(a, n) == IF n <= Len(a.buf) THEN [a EXCEPT !.buf = From(@, n + 1)] ELSE a
=============================================================================
