---------------------------- MODULE MongooseDigest ----------------------------
(***************************************************************************)
(* The digests of mongoose.c, of bytes that come in pieces, and the parts  *)
(* of a web socket that need one: the handshake, and the frames sent, with *)
(* their mask.  A word of 32 bits is its two halves <<high, low>>.         *)
(***************************************************************************)
EXTENDS MongooseBytes, Bitwise

Half == 65536
Word(bytes) == <<256 * bytes[1] + bytes[2], 256 * bytes[3] + bytes[4]>>       \* big-endian
WordBytes(w) == <<w[1] \div 256, w[1] % 256, w[2] \div 256, w[2] % 256>>
Backwards(s) == [i \in DOMAIN s |-> s[Len(s) + 1 - i]]
Plus32(a, b) == <<(a[1] + b[1] + (a[2] + b[2]) \div Half) % Half, (a[2] + b[2]) % Half>>
Xor32(a, b) == <<a[1] ^^ b[1], a[2] ^^ b[2]>>
And32(a, b) == <<a[1] & b[1], a[2] & b[2]>>
Or32(a, b) == <<a[1] | b[1], a[2] | b[2]>>
Not32(a) == <<Half - 1 - a[1], Half - 1 - a[2]>>
Less32(a, b) == a[1] < b[1] \/ (a[1] = b[1] /\ a[2] < b[2])
Sum32(words) == ForUp(<<0, 0>>, 1, Len(words), LAMBDA s, i : Plus32(s, words[i]))
rol(w, n) ==
    LET up == 2 ^ (n % 16)
        turned == <<((w[1] * up) % Half) + (w[2] * up) \div Half, ((w[2] * up) % Half) + (w[1] * up) \div Half>>
    IN  IF n < 16 THEN turned ELSE <<turned[2], turned[1]>>
Zeros(n) == [i \in 1 .. n |-> 0]

(* The bits of a message, counted in two words: len bytes more.            *)
Count(bits, len) ==
    LET added == Plus32(bits[1], <<(8 * len) \div Half, (8 * len) % Half>>) IN
    <<added, IF Less32(added, bits[1]) THEN Plus32(bits[2], <<0, 1>>) ELSE bits[2]>>
InBlock(bits) == (bits[1][2] \div 8) % 64        \* the bytes of the last, open block

-----------------------------------------------------------------------------
(* MD5.                                                                    *)
MD5_Init == [buf |-> << <<\h6745, \h2301>>, <<\hefcd, \hab89>>, <<\h98ba, \hdcfe>>, <<\h1032, \h5476>> >>,
             bits |-> << <<0, 0>>, <<0, 0>> >>, in |-> Zeros(64)]

F1(x, y, z) == Xor32(z, And32(x, Xor32(y, z)))
F2(x, y, z) == F1(z, x, y)
F3(x, y, z) == Xor32(Xor32(x, y), z)
F4(x, y, z) == Xor32(y, Or32(x, Not32(z)))

Sines == <<
    <<\hd76a, \ha478>>, <<\he8c7, \hb756>>, <<\h2420, \h70db>>, <<\hc1bd, \hceee>>, <<\hf57c, \h0faf>>, <<\h4787, \hc62a>>, <<\ha830, \h4613>>, <<\hfd46, \h9501>>,
    <<\h6980, \h98d8>>, <<\h8b44, \hf7af>>, <<\hffff, \h5bb1>>, <<\h895c, \hd7be>>, <<\h6b90, \h1122>>, <<\hfd98, \h7193>>, <<\ha679, \h438e>>, <<\h49b4, \h0821>>,
    <<\hf61e, \h2562>>, <<\hc040, \hb340>>, <<\h265e, \h5a51>>, <<\he9b6, \hc7aa>>, <<\hd62f, \h105d>>, <<\h0244, \h1453>>, <<\hd8a1, \he681>>, <<\he7d3, \hfbc8>>,
    <<\h21e1, \hcde6>>, <<\hc337, \h07d6>>, <<\hf4d5, \h0d87>>, <<\h455a, \h14ed>>, <<\ha9e3, \he905>>, <<\hfcef, \ha3f8>>, <<\h676f, \h02d9>>, <<\h8d2a, \h4c8a>>,
    <<\hfffa, \h3942>>, <<\h8771, \hf681>>, <<\h6d9d, \h6122>>, <<\hfde5, \h380c>>, <<\ha4be, \hea44>>, <<\h4bde, \hcfa9>>, <<\hf6bb, \h4b60>>, <<\hbebf, \hbc70>>,
    <<\h289b, \h7ec6>>, <<\heaa1, \h27fa>>, <<\hd4ef, \h3085>>, <<\h0488, \h1d05>>, <<\hd9d4, \hd039>>, <<\he6db, \h99e5>>, <<\h1fa2, \h7cf8>>, <<\hc4ac, \h5665>>,
    <<\hf429, \h2244>>, <<\h432a, \hff97>>, <<\hab94, \h23a7>>, <<\hfc93, \ha039>>, <<\h655b, \h59c3>>, <<\h8f0c, \hcc92>>, <<\hffef, \hf47d>>, <<\h8584, \h5dd1>>,
    <<\h6fa8, \h7e4f>>, <<\hfe2c, \he6e0>>, <<\ha301, \h4314>>, <<\h4e08, \h11a1>>, <<\hf753, \h7e82>>, <<\hbd3a, \hf235>>, <<\h2ad7, \hd2bb>>, <<\heb86, \hd391>> >>
Turns == << <<7, 12, 17, 22>>, <<5, 9, 14, 20>>, <<4, 11, 16, 23>>, <<6, 10, 15, 21>> >>

(* Step i of 64: the first of the four words turns, and goes to the second *)
(* place of the next step.                                                 *)
MD5STEP(v, i, in) ==
    LET round == i \div 16
        k == CASE round = 0 -> i % 16 [] round = 1 -> (5 * i + 1) % 16 [] round = 2 -> (3 * i + 5) % 16 [] OTHER -> (7 * i) % 16
        f == CASE round = 0 -> F1(v[2], v[3], v[4]) [] round = 1 -> F2(v[2], v[3], v[4])
               [] round = 2 -> F3(v[2], v[3], v[4]) [] OTHER -> F4(v[2], v[3], v[4])
        word == Word(Backwards(SubSeq(in, 4 * k + 1, 4 * k + 4)))
        w == Plus32(rol(Sum32(<<v[1], f, word, Sines[i + 1]>>), Turns[round + 1][(i % 4) + 1]), v[2])
    IN  <<v[4], w, v[2], v[3]>>

MD5Transform(buf, in) ==
    With(ForUp(buf, 0, 63, LAMBDA v, i : MD5STEP(v, i, in)), LAMBDA v : [j \in 1 .. 4 |-> Plus32(buf[j], v[j])])

(* Bytes over those of the open block; every block that is full goes into  *)
(* the digest.  What was behind the open block stays where it was.         *)
Over(in, t, data) == SubSeq(in, 1, t) \o data \o From(in, t + Len(data) + 1)
MD5_Update(ctx, data) ==
    LET t == InBlock(ctx.bits)
        head == IF t # 0 THEN 64 - t ELSE 0
        bits == Count(ctx.bits, Len(data))
        Block(c, in) == [c EXCEPT !.in = in, !.buf = MD5Transform(@, in)]
        Rest(c, data2) ==
            With(ForUp(c, 1, Len(data2) \div 64, LAMBDA d, i : Block(d, SubSeq(data2, 64 * i - 63, 64 * i))), LAMBDA d :
                 [d EXCEPT !.in = Over(@, 0, From(data2, 64 * (Len(data2) \div 64) + 1))])
    IN  IF t # 0 /\ Len(data) < head THEN [ctx EXCEPT !.bits = bits, !.in = Over(@, t, data)]
        ELSE IF t # 0 THEN Rest(Block([ctx EXCEPT !.bits = bits], Over(ctx.in, t, SubSeq(data, 1, head))), From(data, head + 1))
        ELSE Rest([ctx EXCEPT !.bits = bits], data)

MD5_Final(ctx) ==
    LET t == InBlock(ctx.bits)
        count == 63 - t
        marked == Over(ctx.in, t, <<128>>)
        length == Backwards(WordBytes(ctx.bits[1])) \o Backwards(WordBytes(ctx.bits[2]))
        buf == IF count < 8 THEN MD5Transform(MD5Transform(ctx.buf, Over(marked, t + 1, Zeros(count))), Zeros(56) \o length)
               ELSE MD5Transform(ctx.buf, SubSeq(Over(marked, t + 1, Zeros(count - 8)), 1, 56) \o length)
    IN  Backwards(WordBytes(buf[1])) \o Backwards(WordBytes(buf[2])) \o Backwards(WordBytes(buf[3])) \o Backwards(WordBytes(buf[4]))

cs_md5(pieces) == cs_to_hex(MD5_Final(ForUp(MD5_Init, 1, Len(pieces), LAMBDA ctx, i : MD5_Update(ctx, pieces[i]))))

-----------------------------------------------------------------------------
(* SHA-1.                                                                  *)
cs_sha1_init == [state |-> << <<\h6745, \h2301>>, <<\hefcd, \hab89>>, <<\h98ba, \hdcfe>>, <<\h1032, \h5476>>, <<\hc3d2, \he1f0>> >>,
                 count |-> << <<0, 0>>, <<0, 0>> >>, buffer |-> Zeros(64)]

(* Word i of 80 of a block, the last 16 of them kept.                      *)
blk0(buffer, i) == Word(SubSeq(buffer, 4 * i + 1, 4 * i + 4))
blk(l, i) == rol(Xor32(Xor32(l[(i + 13) % 16], l[(i + 8) % 16]), Xor32(l[(i + 2) % 16], l[i % 16])), 1)

(* Round i: the last of the five words takes the sum and comes first in    *)
(* the next round.                                                         *)
Round(s, i) ==
    LET v == s.words
        f == CASE i < 20 -> Xor32(And32(v[2], Xor32(v[3], v[4])), v[4])
               [] i \in 40 .. 59 -> Or32(And32(Or32(v[2], v[3]), v[4]), And32(v[2], v[3]))
               [] OTHER -> Xor32(Xor32(v[2], v[3]), v[4])
        k == <<<<\h5a82, \h7999>>, <<\h6ed9, \heba1>>, <<\h8f1b, \hbcdc>>, <<\hca62, \hc1d6>>>>[(i \div 20) + 1]
        w == IF i < 16 THEN s.l[i] ELSE blk(s.l, i)
    IN  [words |-> <<Sum32(<<v[5], f, w, k, rol(v[1], 5)>>), v[1], rol(v[2], 30), v[3], v[4]>>, l |-> [s.l EXCEPT ![i % 16] = w]]

cs_sha1_transform(state, buffer) ==
    With(ForUp([words |-> state, l |-> [i \in 0 .. 15 |-> blk0(buffer, i)]], 0, 79, Round), LAMBDA s :
         [j \in 1 .. 5 |-> Plus32(state[j], s.words[j])])

cs_sha1_update(context, data) ==
    LET j == InBlock(context.count)
        first == 64 - j
        counted == [context EXCEPT !.count = Count(@, Len(data))]
        blocks == IF j + Len(data) > 63 THEN (Len(data) - first) \div 64 ELSE 0
        Block(c, buffer) == [c EXCEPT !.state = cs_sha1_transform(@, buffer)]
    IN  IF j + Len(data) <= 63 THEN [counted EXCEPT !.buffer = Over(@, j, data)]
        ELSE With(ForUp(With(Over(context.buffer, j, SubSeq(data, 1, first)), LAMBDA b : Block([counted EXCEPT !.buffer = b], b)),
                        1, blocks, LAMBDA c, i : Block(c, SubSeq(data, first + 64 * i - 63, first + 64 * i))), LAMBDA c :
                  [c EXCEPT !.buffer = Over(@, 0, From(data, first + 64 * blocks + 1))])

cs_sha1_final(context) ==
    LET finalcount == WordBytes(context.count[2]) \o WordBytes(context.count[1])
        Padded(c, i) == IF InBlock(c.count) = 56 THEN c ELSE cs_sha1_update(c, <<0>>)
    IN  With(cs_sha1_update(ForUp(cs_sha1_update(context, <<128>>), 1, 63, Padded), finalcount), LAMBDA c :
             ForUp(<< >>, 1, 5, LAMBDA d, i : d \o WordBytes(c.state[i])))

mg_hash_sha1_v(msgs) == cs_sha1_final(ForUp(cs_sha1_init, 1, Len(msgs), LAMBDA c, i : cs_sha1_update(c, msgs[i])))

cs_hmac_sha1(key, data) ==
    With(IF Len(key) > 64 THEN cs_sha1_final(cs_sha1_update(cs_sha1_init, key)) ELSE key, LAMBDA k :
    LET Pad(mask) == [i \in 1 .. 64 |-> (IF i <= Len(k) THEN k[i] ELSE 0) ^^ mask] IN
    cs_sha1_final(cs_sha1_update(cs_sha1_update(cs_sha1_init, Pad(\h5c)),
        cs_sha1_final(cs_sha1_update(cs_sha1_update(cs_sha1_init, Pad(\h36)), data)))))

-----------------------------------------------------------------------------
(* Web sockets.                                                            *)
(* "258EAFA5-E914-47DA-95CA-C5AB0DC85B11"                                  *)
magic == <<50, 53, 56, 69, 65, 70, 65, 53, 45, 69, 57, 49, 52, 45, 52, 55, 68, 65, 45,
           57, 53, 67, 65, 45, 67, 53, 65, 66, 48, 68, 67, 56, 53, 66, 49, 49>>
mg_ws_handshake(key) == cs_base64_encode(mg_hash_sha1_v(<<key, magic>>))

(* The key a client sends is made of four words rand gives.                *)
HandshakeKey(random) ==
    cs_base64_encode(ForUp(<< >>, 1, 4, LAMBDA b, i : b \o Backwards(WordBytes(random[i]))))

(* The lines of the request of a client, by their names and values; none   *)
(* of the optional ones for << >>, no Host for "none".                     *)
mg_send_websocket_handshake3(path, host, protocol, extra_headers, user, pass, random) ==
    LET Line(name, value, there) == IF there THEN << <<name, value>> >> ELSE << >> IN
    Line("GET", path, TRUE) \o Line("Upgrade", "websocket", TRUE) \o Line("Connection", "Upgrade", TRUE)
    \o Line("Authorization", mg_basic_auth_header(user, pass # << >>, pass), user # << >>)
    \o Line("Sec-WebSocket-Version", 13, TRUE) \o Line("Sec-WebSocket-Key", HandshakeKey(random), TRUE)
    \o Line("Host", host, host # "none") \o Line("Sec-WebSocket-Protocol", protocol, protocol # << >>) \o extra_headers
mg_send_websocket_handshake2(path, host, protocol, extra_headers, random) ==
    mg_send_websocket_handshake3(path, host, protocol, extra_headers, << >>, << >>, random)
mg_send_websocket_handshake(path, extra_headers, random) ==
    mg_send_websocket_handshake2(path, "none", << >>, extra_headers, random)
(* The address of the URL goes into the Host line.                         *)
mg_connect_ws(path, addr, user, pass, protocol, extra_headers, random) ==
    mg_send_websocket_handshake3(path, addr, protocol, extra_headers, user, pass, random)

WEBSOCKET_DONT_FIN == 256
mg_ws_header(op, len, masked) ==
    LET mask == IF masked THEN 128 ELSE 0 IN
    <<(IF op >= WEBSOCKET_DONT_FIN THEN 0 ELSE 128) + (op % 16)>> \o
    CASE len < 126 -> <<mask + len>>
      [] len \in 126 .. 65534 -> <<mask + 126, len \div 256, len % 256>>
      [] OTHER -> <<mask + 127, 0, 0, 0, 0>> \o WordBytes(<<len \div Half, len % Half>>)

(* A client, which has no listener, sends a mask behind the header and     *)
(* masks what it adds to the buffer from there on.                         *)
mg_ws_mask_frame(buf, pos, mask) ==
    IF pos = 0 THEN buf ELSE [i \in DOMAIN buf |-> IF i <= pos THEN buf[i] ELSE buf[i] ^^ mask[((i - pos - 1) % 4) + 1]]

mg_send_websocket_framev(send_mbuf, op, strv, client, mask) ==
    LET data == ForUp(<< >>, 1, Len(strv), LAMBDA d, i : d \o strv[i])
        header == mg_ws_header(op, Len(data), client)
        headed == send_mbuf \o header \o IF client THEN mask ELSE << >>
    IN  mg_ws_mask_frame(headed \o data, IF client THEN Len(headed) ELSE 0, mask)
mg_send_websocket_frame(send_mbuf, op, data, client, mask) == mg_send_websocket_framev(send_mbuf, op, <<data>>, client, mask)

(* What the receiver reads of a frame at the start of buf: the lengths of  *)
(* its header and data, zero when the header is not there.                 *)
ReadHeader(buf) ==
    LET len == buf[2] % 128
        mask_len == IF buf[2] >= 128 THEN 4 ELSE 0
    IN  CASE Len(buf) < 2 -> [header_len |-> 0, data_len |-> 0, mask_len |-> 0]
          [] Len(buf) >= 2 /\ len < 126 /\ Len(buf) >= mask_len -> [header_len |-> 2 + mask_len, data_len |-> len, mask_len |-> mask_len]
          [] Len(buf) >= 4 + mask_len /\ len = 126 ->
                [header_len |-> 4 + mask_len, data_len |-> 256 * buf[3] + buf[4], mask_len |-> mask_len]
          [] Len(buf) >= 10 + mask_len /\ len >= 126 ->
                [header_len |-> 10 + mask_len, data_len |-> With(Word(SubSeq(buf, 7, 10)), LAMBDA w : w[1] * Half + w[2]), mask_len |-> mask_len]
          [] OTHER -> [header_len |-> 0, data_len |-> 0, mask_len |-> mask_len]

(* The data of a whole frame, without its mask.                            *)
Unmasked(buf, h) ==
    [i \in 1 .. h.data_len |-> IF h.mask_len = 0 THEN buf[h.header_len + i]
                               ELSE buf[h.header_len + i] ^^ buf[h.header_len - 3 + ((i - 1) % 4)]]
=============================================================================
