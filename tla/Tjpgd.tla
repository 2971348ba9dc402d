-------------------------------- MODULE Tjpgd -------------------------------
(***************************************************************************)
(* The JPEG decoder of the lcd example, components/tjpgd/tjpgd.c, as       *)
(* components/decode_image/decode_image.c uses it: never descaling, output *)
(* as 24-bit RGB, converted by outfunc to the 16 bits of the display.      *)
(*                                                                         *)
(* A file is a sequence of bytes.  jd is the decompressor object; rc holds *)
(* the error that ended the decoding.                                      *)
(***************************************************************************)
EXTENDS Loops, Sequences

SzBuf == 512                 \* JD_SZBUF
WorkSz == 3100               \* WORKSZ
PosRange == 2 ^ 16           \* inPos is a uint16_t
MaxSegments == 12            \* segments looked at, more than the files tried have

Zig == <<0, 1, 8, 16, 9, 2, 3, 10, 17, 24, 32, 25, 18, 11, 4, 5,
         12, 19, 26, 33, 40, 48, 41, 34, 27, 20, 13, 6, 7, 14, 21, 28,
         35, 42, 49, 56, 57, 50, 43, 36, 29, 22, 15, 23, 30, 37, 44, 51,
         58, 59, 52, 45, 38, 31, 39, 46, 53, 60, 61, 54, 47, 55, 62, 63>>
ZIG(i) == Zig[i + 1]

Ipsf == <<8192, 11362, 10703, 9632, 8192, 6436, 4433, 2260,
          11362, 15760, 14846, 13361, 11362, 8927, 6149, 3134,
          10703, 14846, 13984, 12585, 10703, 8409, 5792, 2953,
          9632, 13361, 12585, 11326, 9632, 7568, 5213, 2657,
          8192, 11362, 10703, 9632, 8192, 6436, 4433, 2260,
          6436, 8927, 8409, 7568, 6436, 5057, 3483, 1775,
          4433, 6149, 5792, 5213, 4433, 3483, 2399, 1223,
          2260, 3134, 2953, 2657, 2260, 1775, 1223, 623>>
IPSF(z) == Ipsf[z + 1]

(* Clip8, the table behind BYTECLIP, sees the low ten bits only.           *)
BYTECLIP(v) == LET w == v % 1024 IN IF w < 256 THEN w ELSE IF w < 512 THEN 255 ELSE 0

Fail(jd, code) == [jd EXCEPT !.rc = code]
Then(jd, Op(_)) == IF jd.rc = "OK" THEN With(jd, Op) ELSE jd

-----------------------------------------------------------------------------
(* Input.                                                                  *)

(* infunc stores the next len bytes at buf[at] and moves on; what lies     *)
(* behind the file is never part of a picture.                             *)
infunc(file, jd, at, len) ==
    [jd EXCEPT !.inPos = (@ + len) % PosRange,
               !.inbuf = [i \in 0 .. SzBuf - 1 |->
                   IF i \notin at .. at + len - 1 THEN @[i]
                   ELSE LET pos == jd.inPos + i - at + 1 IN IF pos <= Len(file) THEN file[pos] ELSE 0]]

NextByte(file, jd) ==
    IF jd.dctr = 0
    THEN [infunc(file, jd, 0, SzBuf) EXCEPT !.dptr = 0, !.dctr = SzBuf - 1]
    ELSE [jd EXCEPT !.dptr = @ + 1, !.dctr = @ - 1]

At(jd) == jd.inbuf[jd.dptr]

(* The byte with the next bit is current; FF 00 stands for FF, which takes *)
(* the place of the 00 in the buffer.                                      *)
BitReady(file, jd) ==
    IF jd.dmsk >= 0 THEN jd
    ELSE With(NextByte(file, jd), LAMBDA b :
        IF At(b) # 255 THEN [b EXCEPT !.dmsk = 7]
        ELSE With(NextByte(file, b), LAMBDA c :
            IF At(c) # 0 THEN Fail(c, "FMT1")
            ELSE [c EXCEPT !.inbuf[c.dptr] = 255, !.dmsk = 7]))

(* One more bit of the value v read so far.                                *)
GetBit(file, s) ==
    IF s.jd.rc # "OK" THEN s
    ELSE With(BitReady(file, s.jd), LAMBDA jd :
        IF jd.rc # "OK" THEN [s EXCEPT !.jd = jd]
        ELSE [s EXCEPT !.jd = [jd EXCEPT !.dmsk = @ - 1],
                       !.v = 2 * @ + ((At(jd) \div 2 ^ jd.dmsk) % 2)])

bitext(file, jd, nbit) == ForUp([jd |-> jd, v |-> 0], 1, nbit, LAMBDA s, i : GetBit(file, s))

(* The value of the code word that starts here: v is compared with all     *)
(* code words of as many bits.                                             *)
huffext(file, jd, tbl) ==
    With(ForUp([jd |-> jd, v |-> 0, word |-> 0, found |-> FALSE, data |-> 0], 1, 16,
            LAMBDA s, l :
                IF s.found THEN s
                ELSE With(GetBit(file, s), LAMBDA t :
                    LET hits == {c \in t.word + 1 .. t.word + tbl.bits[l] : tbl.code[c] = t.v} IN
                    IF hits # {} THEN [t EXCEPT !.found = TRUE, !.data = tbl.data[CHOOSE c \in hits : TRUE]]
                    ELSE [t EXCEPT !.word = @ + tbl.bits[l]])),
         LAMBDA s : [jd |-> IF s.found \/ s.jd.rc # "OK" THEN s.jd ELSE Fail(s.jd, "FMT1"), v |-> s.data])

-----------------------------------------------------------------------------
(* Tables.                                                                 *)
alloc_pool(jd, nd) ==
    LET words == 4 * ((nd + 3) \div 4) IN
    IF jd.sz_pool >= words THEN [jd EXCEPT !.sz_pool = @ - words] ELSE Fail(jd, "MEM1")

Bytes(jd, at, n) == [i \in 1 .. n |-> jd.inbuf[at + i - 1]]

(* Tables follow each other in the segment, each of at least size bytes;   *)
(* Table reads the one at s.at and moves s.at behind it.                   *)
Tables(jd, ndata, size, Table(_)) ==
    ForUp([jd |-> jd, at |-> 0], 1, 4,
        LAMBDA s, t : IF s.jd.rc # "OK" \/ s.at = ndata THEN s
                      ELSE IF ndata - s.at < size THEN [s EXCEPT !.jd = Fail(@, "FMT1")]
                      ELSE Table(s)).jd

create_qt_tbl(jd, ndata) ==
    Tables(jd, ndata, 65, LAMBDA s :
        LET d == s.jd.inbuf[s.at] IN
        IF d >= 16 THEN [s EXCEPT !.jd = Fail(@, "FMT1")]
        ELSE [at |-> s.at + 65,
              jd |-> Then(alloc_pool(s.jd, 256), LAMBDA a :
                  [a EXCEPT !.qttbl[d % 4] =
                      [z \in 0 .. 63 |-> IPSF(z) * a.inbuf[s.at + 1 + (CHOOSE i \in 0 .. 63 : ZIG(i) = z)]]])])

(* Code words are numbered in order of their length.                       *)
CodeWords(bits) ==
    ForUp([hc |-> 0, ph |-> << >>], 1, 16, LAMBDA s, i :
        [hc |-> 2 * (s.hc + bits[i]), ph |-> s.ph \o [b \in 1 .. bits[i] |-> s.hc + b - 1]]).ph

create_huffman_tbl(jd, ndata) ==
    Tables(jd, ndata, 17, LAMBDA s :
        LET d == s.jd.inbuf[s.at]
            cls == d \div 16
            bits == Bytes(s.jd, s.at + 1, 16)
            np == ForUp(0, 1, 16, LAMBDA n, i : n + bits[i])
        IN  IF d \notin {0, 1, 16, 17} THEN [s EXCEPT !.jd = Fail(@, "FMT1")]
            ELSE With(np, LAMBDA n :
              [at |-> s.at + 17 + n,
               jd |-> Then(Then(alloc_pool(s.jd, 16), LAMBDA a : alloc_pool(a, 2 * n)), LAMBDA b :
                   IF ndata - s.at - 17 < n THEN Fail(b, "FMT1")
                   ELSE Then(alloc_pool(b, n), LAMBDA c :
                       With(Bytes(c, s.at + 17, n), LAMBDA data :
                           IF cls = 0 /\ \E i \in 1 .. n : data[i] > 11 THEN Fail(c, "FMT1")
                           ELSE [c EXCEPT !.huff[<<d % 16, cls>>] =
                                     [bits |-> bits, code |-> CodeWords(bits), data |-> data]])))]))

-----------------------------------------------------------------------------
(* jd_prepare.                                                             *)
Word(jd, at) == jd.inbuf[at] * 256 + jd.inbuf[at + 1]     \* LDB_WORD

(* SOF0: three components, sampled 4:4:4, 4:2:2 or 4:2:0.                  *)
Frame(jd) ==
    LET sampling == jd.inbuf[7]
        ok == /\ jd.inbuf[5] = 3 /\ sampling \in {17, 34, 33}
              /\ \A i \in 1 .. 2 : jd.inbuf[7 + 3 * i] = 17
              /\ \A i \in 0 .. 2 : jd.inbuf[8 + 3 * i] <= 3
    IN  IF ~ ok THEN Fail(jd, "FMT3")
        ELSE [jd EXCEPT !.width = Word(jd, 3), !.height = Word(jd, 1),
                        !.msx = sampling \div 16, !.msy = sampling % 16,
                        !.qtid = [i \in 0 .. 2 |-> jd.inbuf[8 + 3 * i]]]

(* Slip: the margin of 64 bytes is left out. *)
WorkbufLenTight(jd) == With(jd.msx * jd.msy * 128, LAMBDA len : IF len < 256 THEN 256 ELSE len)

(* The bytes of workbuf: less than the RGB pixels of an MCU need.          *)
WorkbufLen(jd) == With(jd.msx * jd.msy * 128 + 64, LAMBDA len : IF len < 256 THEN 256 ELSE len)

(* The rest of the block of SzBuf bytes the scan starts in.                *)
Preload(file, jd) ==
    LET ofs == jd.ofs % SzBuf IN
    IF ofs = 0 THEN [jd EXCEPT !.dptr = 0, !.dctr = 0, !.dmsk = -1]
    ELSE [infunc(file, jd, ofs, SzBuf - ofs) EXCEPT !.dptr = ofs - 1, !.dctr = SzBuf - ofs, !.dmsk = -1]

(* SOS: all tables are there and the buffers are, too.                     *)
Scan(file, jd) ==
    LET id(i) == jd.inbuf[2 + 2 * i]
        c(i) == IF i = 0 THEN 0 ELSE 1
    IN  IF jd.width = 0 \/ jd.height = 0 THEN Fail(jd, "FMT1")
        ELSE IF jd.inbuf[0] # 3 \/ \E i \in 0 .. 2 : id(i) \notin {0, 17} THEN Fail(jd, "FMT3")
        ELSE IF \E i \in 0 .. 2 : \/ << >> \in {jd.huff[<<c(i), 0>>], jd.huff[<<c(i), 1>>]}
                                  \/ jd.qttbl[jd.qtid[i]] = << >> THEN Fail(jd, "FMT1")
        ELSE Then(Then(alloc_pool(jd, WorkbufLen(jd)), LAMBDA a : alloc_pool(a, (a.msx * a.msy + 2) * 64)),
                  LAMBDA b : [Preload(file, b) EXCEPT !.ready = TRUE])

(* One marker with its segment.                                            *)
Segment(file, jd) ==
    With(infunc(file, jd, 0, 4), LAMBDA h :
        LET marker == Word(h, 0)
            len == Word(h, 2) - 2
            Loaded(Op(_)) == IF len > SzBuf THEN Fail(h, "MEM2")
                             ELSE With([infunc(file, h, 0, len) EXCEPT !.ofs = @ + 4 + len], Op)
        IN  CASE len <= 0 \/ marker \div 256 # 255 -> Fail(h, "FMT1")
              [] marker = 65472 -> Loaded(Frame)
              [] marker = 65501 -> Loaded(LAMBDA a : [a EXCEPT !.nrst = Word(a, 0)])
              [] marker = 65476 -> Loaded(LAMBDA a : create_huffman_tbl(a, len))
              [] marker = 65499 -> Loaded(LAMBDA a : create_qt_tbl(a, len))
              [] marker = 65498 -> Loaded(LAMBDA a : Scan(file, a))
              [] marker - 65280 \in ((193 .. 207) \ {200, 204}) \cup {217} -> Fail(h, "FMT3")
              [] OTHER -> [h EXCEPT !.inPos = (@ + len) % PosRange, !.ofs = @ + 4 + len])

Blank ==
    [inPos |-> 0, inbuf |-> [i \in 0 .. SzBuf - 1 |-> 0], dptr |-> 0, dctr |-> 0, dmsk |-> -1,
     sz_pool |-> WorkSz, ofs |-> 2, width |-> 0, height |-> 0, msx |-> 0, msy |-> 0,
     qtid |-> [i \in 0 .. 2 |-> 0], nrst |-> 0, dcv |-> [i \in 0 .. 2 |-> 0],
     huff |-> [t \in (0 .. 1) \X (0 .. 1) |-> << >>], qttbl |-> [i \in 0 .. 3 |-> << >>],
     ready |-> FALSE, rc |-> "OK"]

jd_prepare(file) ==
    With(infunc(file, alloc_pool(Blank, SzBuf), 0, 2), LAMBDA jd :
        IF Word(jd, 0) # 65496 THEN Fail(jd, "FMT1")
        ELSE ForUp(jd, 1, MaxSegments, LAMBDA s, i :
                 IF s.ready \/ s.rc # "OK" THEN s ELSE Segment(file, s)))

-----------------------------------------------------------------------------
(* One minimum coded unit.                                                 *)

(* The number that v of b bits stands for.                                 *)
Signed(v, b) == IF v >= 2 ^ (b - 1) THEN v ELSE v - 2 ^ b + 1

Dequant(d, dqf, z) == (d * dqf[z]) \div 256

(* The DC element: a difference to the previous block of the component.    *)
DcElement(file, jd, cmp) ==
    With(huffext(file, jd, jd.huff[<<IF cmp = 0 THEN 0 ELSE 1, 0>>]), LAMBDA h :
        IF h.jd.rc # "OK" \/ h.v = 0 THEN h.jd
        ELSE With(bitext(file, h.jd, h.v), LAMBDA e :
            [e.jd EXCEPT !.dcv[cmp] = @ + Signed(e.v, h.v)]))

(* The 63 AC elements: a run of zeros and a value, until the end of block. *)
(* i is the next element, 64 when there is none.                           *)
AcElements(file, jd, cmp, dqf, tmp) ==
    ForUp([jd |-> jd, tmp |-> tmp, i |-> 1], 1, 63, LAMBDA s, n :
        IF s.jd.rc # "OK" \/ s.i >= 64 THEN s
        ELSE With(huffext(file, s.jd, s.jd.huff[<<IF cmp = 0 THEN 0 ELSE 1, 1>>]), LAMBDA h :
            LET at == s.i + h.v \div 16
                b == h.v % 16
            IN  IF h.jd.rc # "OK" \/ h.v = 0 THEN [s EXCEPT !.jd = h.jd, !.i = 64]
                ELSE IF at >= 64 THEN [s EXCEPT !.jd = Fail(h.jd, "FMT1")]
                ELSE IF b = 0 THEN [s EXCEPT !.jd = h.jd, !.i = at + 1]
                ELSE With(bitext(file, h.jd, b), LAMBDA e :
                    [jd |-> e.jd, i |-> at + 1,
                     tmp |-> [s.tmp EXCEPT ![ZIG(at)] = Dequant(Signed(e.v, b), dqf, ZIG(at))]])))

Scale(v, c) == (v * c) \div 4096

(* Slip: the constants of the two rotations are exchanged.                 *)
AraiExchanged(s) ==
    LET o7 == s[5] + s[3] + s[1] + s[7]
        o6 == Scale(s[1] - s[7] + s[5] - s[3], 7568) - Scale(s[5] - s[3], 4433) - o7
    IN  [i \in 0 .. 7 |-> s[0] + (IF i \in {0, 1} THEN o7 ELSE IF i = 7 THEN -o7 ELSE o6)]

(* Arai's eight-point inverse DCT, of a column or of a row.                *)
Arai(s) ==
    LET t11 == Scale(s[2] - s[6], 5792) - (s[2] + s[6])
        e0 == s[0] + s[4] + s[2] + s[6]
        e3 == s[0] + s[4] - s[2] - s[6]
        e1 == s[0] - s[4] + t11
        e2 == s[0] - s[4] - t11
        t10 == s[1] - s[7]
        t12 == s[5] - s[3]
        o7 == s[5] + s[3] + s[1] + s[7]
        t13 == Scale(t10 + t12, 7568)
        o6 == t13 - Scale(t12, 10703) - o7
        o5 == Scale(s[1] + s[7] - s[5] - s[3], 5792) - o6
        o4 == t13 - Scale(t10, 4433) - o5
    IN  [i \in 0 .. 7 |-> CASE i = 0 -> e0 + o7 [] i = 7 -> e0 - o7 [] i = 1 -> e1 + o6 [] i = 6 -> e1 - o6
                            [] i = 2 -> e2 + o5 [] i = 5 -> e2 - o5 [] i = 3 -> e3 + o4 [] i = 4 -> e3 - o4]

block_idct(src) ==
    With([x \in 0 .. 7 |-> With([y \in 0 .. 7 |-> src[8 * y + x]], Arai)], LAMBDA cols :
    With([y \in 0 .. 7 |-> With([x \in 0 .. 7 |-> cols[x][y] + IF x = 0 THEN 128 * 256 ELSE 0], Arai)], LAMBDA rows :
        [i \in 0 .. 63 |-> BYTECLIP(rows[i \div 8][i % 8] \div 256)]))

(* All blocks of an MCU, one after the other in mcubuf.                    *)
mcu_load(file, jd) ==
    LET nby == jd.msx * jd.msy IN
    ForUp([jd |-> jd, mcubuf |-> << >>], 0, nby + 1, LAMBDA s, blk :
        IF s.jd.rc # "OK" THEN s
        ELSE LET cmp == IF blk < nby THEN 0 ELSE blk - nby + 1
                 dqf == s.jd.qttbl[s.jd.qtid[cmp]]
             IN  With(DcElement(file, s.jd, cmp), LAMBDA dc :
                 IF dc.rc # "OK" THEN [s EXCEPT !.jd = dc]
                 ELSE With(AcElements(file, dc, cmp, dqf,
                               [z \in 0 .. 63 |-> IF z = 0 THEN Dequant(dc.dcv[cmp], dqf, 0) ELSE 0]), LAMBDA ac :
                     [jd |-> ac.jd,
                      mcubuf |-> IF ac.jd.rc # "OK" THEN s.mcubuf
                                 ELSE s.mcubuf \o With(block_idct(ac.tmp), LAMBDA b : [i \in 1 .. 64 |-> b[i - 1]])])))

(* C divides towards zero.                                                 *)
Quot(a, b) == IF a >= 0 THEN a \div b ELSE -((-a) \div b)

(* A pixel from its components, Cb and Cr at their right level.            *)
Rgb(yy, cb, cr) == <<BYTECLIP(yy + Quot(179 * cr, 128)),
                     BYTECLIP(yy - Quot(44 * cb + 91 * cr, 128)),
                     BYTECLIP(yy + Quot(226 * cb, 128))>>

(* The RGB pixels are built line by line in workbuf, into which they need  *)
(* not fit: they go on in mcubuf, which is still being read.  The result   *)
(* is the memory of both, workbuf of work bytes first.                     *)
Build(jd, mcubuf, work) ==
    LET mx == 8 * jd.msx
        my == 8 * jd.msy
        Py(ix, iy) == iy * 8 + (IF my = 16 /\ iy >= 8 THEN 64 ELSE 0)
                      + ix + (IF mx = 16 /\ ix >= 8 THEN 64 - 8 ELSE 0)
        Pc(ix, iy) == (IF my = 16 THEN 64 * 4 + (iy \div 2) * 8 ELSE mx * 8 + iy * 8)
                      + (IF mx = 16 THEN ix \div 2 ELSE ix)
    IN  ForUp([i \in 1 .. work |-> 0] \o mcubuf, 0, my - 1, LAMBDA lines, iy :
        ForUp(lines, 0, mx - 1, LAMBDA mem, ix :
            LET py == work + 1 + Py(ix, iy)
                pc == work + 1 + Pc(ix, iy)
                rgb24 == 3 * (iy * mx + ix)
            IN  With(Rgb(mem[py], mem[pc] - 128, mem[pc + 64] - 128), LAMBDA rgb :
                    [mem EXCEPT ![rgb24 + 1] = rgb[1], ![rgb24 + 2] = rgb[2], ![rgb24 + 3] = rgb[3]])))

(* outfunc: 5, 6 and 5 bits, the two bytes exchanged.                      *)
Pixel(r, g, b) ==
    With((r \div 8) * 2048 + (g \div 4) * 32 + b \div 8, LAMBDA v : v \div 256 + (v % 256) * 256)

(* The pixels of an MCU that lie in the picture, squeezed up in workbuf    *)
(* and copied by outfunc to their place in the lines.                      *)
mcu_output(jd, mcubuf, x, y, lines) ==
    LET mx == 8 * jd.msx
        rx == IF x + mx <= jd.width THEN mx ELSE jd.width - x
        ry == IF y + 8 * jd.msy <= jd.height THEN 8 * jd.msy ELSE jd.height - y
    IN  With(Build(jd, mcubuf, WorkbufLen(jd)), LAMBDA mem :
            [p \in DOMAIN lines |->
                IF p[1] \in x .. x + rx - 1 /\ p[2] \in y .. y + ry - 1
                THEN With(3 * ((p[2] - y) * mx + p[1] - x), LAMBDA s : Pixel(mem[s + 1], mem[s + 2], mem[s + 3]))
                ELSE lines[p]])

(* The padding is dropped and the marker RSTn read.                        *)
restart(file, jd, rstn) ==
    With(NextByte(file, jd), LAMBDA a :
    With(NextByte(file, a), LAMBDA b :
        IF At(a) # 255 \/ At(b) \notin {208 + (rstn % 8), 240 + (rstn % 8)} THEN Fail(b, "FMT1")
        ELSE [b EXCEPT !.dmsk = -1, !.dcv = [i \in 0 .. 2 |-> 0]]))

jd_decomp(file, prepared, blank) ==
    LET mx == 8 * prepared.msx
        my == 8 * prepared.msy
        across == (prepared.width + mx - 1) \div mx
        down == (prepared.height + my - 1) \div my
    IN  ForUp([jd |-> prepared, lines |-> blank], 0, across * down - 1, LAMBDA s, n :
            IF s.jd.rc # "OK" THEN s
            ELSE With(IF s.jd.nrst # 0 /\ n # 0 /\ n % s.jd.nrst = 0
                      THEN restart(file, s.jd, n \div s.jd.nrst - 1) ELSE s.jd, LAMBDA r :
                 IF r.rc # "OK" THEN [s EXCEPT !.jd = r]
                 ELSE With(mcu_load(file, r), LAMBDA m :
                    IF m.jd.rc # "OK" THEN [s EXCEPT !.jd = m.jd]
                    ELSE [jd |-> m.jd,
                          lines |-> mcu_output(m.jd, m.mcubuf, (n % across) * mx, (n \div across) * my, s.lines)])))

(* The lines allocated for the picture have no value before outfunc stores *)
(* one; a picture that ends with a format error is taken as it is.         *)
Unwritten == -1
decode_image(file, width, height) ==
    LET blank == [p \in (0 .. width - 1) \X (0 .. height - 1) |-> Unwritten] IN
    With(jd_prepare(file), LAMBDA jd :
        IF jd.rc # "OK" THEN [ret |-> "ESP_ERR_NOT_SUPPORTED", pixels |-> << >>]
        ELSE With(jd_decomp(file, jd, blank), LAMBDA d :
            IF d.jd.rc \in {"OK", "FMT1"} THEN [ret |-> "ESP_OK", pixels |-> d.lines]
            ELSE [ret |-> "ESP_ERR_NOT_SUPPORTED", pixels |-> << >>]))

-----------------------------------------------------------------------------
(* What a JPEG file means: baseline files of pictures given by their       *)
(* quantized coefficients, and the picture that such a file shows.         *)
(*                                                                         *)
(* A picture is a record of its sampling (msx, msy), its size, its restart *)
(* interval, the length of a comment before the scan and its blocks: in a  *)
(* block, DC has the value dc, and the AC element k, in zigzag order, the  *)
(* value ac.                                                               *)

Flat(seqs) == ForUp(<< >>, 1, Len(seqs), LAMBDA s, i : s \o seqs[i])
Big(n) == <<n \div 256, n % 256>>

(* Tables of the size of the usual ones, 12 and 162 code words.            *)
DcData == [i \in 1 .. 12 |-> i - 1]
DcBits == [l \in 1 .. 16 |-> IF l = 4 THEN 12 ELSE 0]
AcData == <<0, 240>> \o [i \in 1 .. 160 |-> 16 * ((i - 1) % 16) + ((i - 1) \div 16) + 1]
AcBits == [l \in 1 .. 16 |-> CASE l \in {2, 3} -> 1 [] l = 8 -> 60 [] l = 16 -> 100 [] OTHER -> 0]

Code(bits, data) ==
    With(CodeWords(bits), LAMBDA words :
        [d \in {data[i] : i \in DOMAIN data} |->
            LET i == CHOOSE j \in DOMAIN data : data[j] = d
                Total(l) == ForUp(0, 1, l, LAMBDA t, j : t + bits[j])
            IN  [v |-> words[i], n |-> CHOOSE l \in 1 .. 16 : Total(l - 1) < i /\ i <= Total(l)]])
DcCode == Code(DcBits, DcData)
AcCode == Code(AcBits, AcData)

Quantum(id, k) == (IF id = 0 THEN 2 ELSE 3) + (k % 2)

-----------------------------------------------------------------------------
(* The scan, in bits, then in bytes.                                       *)
BitsOf(v, n) == [i \in 1 .. n |-> (v \div 2 ^ (n - i)) % 2]
Category(v) == CHOOSE n \in 0 .. 11 : v \in 1 - 2 ^ n .. 2 ^ n - 1 /\ (n = 0 \/ v \notin 1 - 2 ^ (n - 1) .. 2 ^ (n - 1) - 1)
Word2(c) == BitsOf(c.v, c.n)
Value(v) == BitsOf(IF v >= 0 THEN v ELSE v + 2 ^ Category(v) - 1, Category(v))

BlockBits(diff, k, ac) ==
    Word2(DcCode[Category(diff)]) \o Value(diff)
    \o (IF ac = 0 THEN << >>
        ELSE Flat([z \in 1 .. (k - 1) \div 16 |-> Word2(AcCode[240])])
             \o Word2(AcCode[16 * ((k - 1) % 16) + Category(ac)]) \o Value(ac))
    \o (IF ac # 0 /\ k = 63 THEN << >> ELSE Word2(AcCode[0]))

PerMcu(p) == p.msx * p.msy + 2
Component(p, blk) == LET b == blk % PerMcu(p) IN IF b < p.msx * p.msy THEN 0 ELSE b - p.msx * p.msy + 1
Across(p) == (p.width + 8 * p.msx - 1) \div (8 * p.msx)
Mcus(p) == Across(p) * ((p.height + 8 * p.msy - 1) \div (8 * p.msy))

(* The DC value before block blk, 0 at the start of a restart interval.    *)
DcBefore(p, blk) ==
    LET first == IF p.nrst = 0 THEN 0 ELSE (blk \div (PerMcu(p) * p.nrst)) * PerMcu(p) * p.nrst
        same == {b \in first .. blk - 1 : Component(p, b) = Component(p, blk)}
    IN  IF same = {} THEN 0 ELSE p.block[CHOOSE b \in same : \A c \in same : c <= b].dc

McuBits(p, m) ==
    Flat([i \in 1 .. PerMcu(p) |->
        LET blk == m * PerMcu(p) + i - 1
            b == p.block[blk]
        IN  BlockBits(b.dc - DcBefore(p, blk), b.k, b.ac)])

(* Padded with ones, eight bits each, FF 00 for FF.                        *)
Stuffed(bits) ==
    LET n == (Len(bits) + 7) \div 8
        Byte(i) == ForUp(0, 8 * i - 7, 8 * i, LAMBDA v, j : 2 * v + IF j <= Len(bits) THEN bits[j] ELSE 1)
    IN  Flat([i \in 1 .. n |-> With(Byte(i), LAMBDA v : IF v = 255 THEN <<255, 0>> ELSE <<v>>)])

ScanBytes(p) ==
    LET size == IF p.nrst = 0 THEN Mcus(p) ELSE p.nrst
        intervals == (Mcus(p) + size - 1) \div size
    IN  Flat([i \in 1 .. intervals |->
            (IF i = 1 THEN << >> ELSE <<255, 208 + ((i - 2) % 8)>>)
            \o With(Flat([m \in 1 .. (IF i * size <= Mcus(p) THEN size ELSE Mcus(p) - (i - 1) * size) |->
                             McuBits(p, (i - 1) * size + m - 1)]), Stuffed)])

SegmentBytes(marker, content) == <<255, marker>> \o Big(Len(content) + 2) \o content

File(p) ==
    Flat(<< <<255, 216>>,
            SegmentBytes(219, Flat([id \in 1 .. 2 |-> <<id - 1>> \o [k \in 1 .. 64 |-> Quantum(id - 1, k - 1)]])),
            SegmentBytes(192, <<8>> \o Big(p.height) \o Big(p.width)
                              \o <<3, 1, 16 * p.msx + p.msy, 0, 2, 17, 1, 3, 17, 1>>),
            SegmentBytes(196, Flat([t \in 1 .. 2 |-> <<t - 1>> \o DcBits \o DcData])),
            SegmentBytes(196, <<16>> \o AcBits \o AcData), SegmentBytes(196, <<17>> \o AcBits \o AcData),
            IF p.nrst = 0 THEN << >> ELSE SegmentBytes(221, Big(p.nrst)),
            SegmentBytes(254, [i \in 1 .. p.comment |-> 0]),
            SegmentBytes(218, <<3, 1, 0, 2, 17, 3, 17, 0, 63, 0>>),
            ScanBytes(p), <<255, 217>> >>)

-----------------------------------------------------------------------------
(* The picture: each block by itself, each pixel from its own components.  *)
BlockPixels(p, blk) ==
    LET id == IF Component(p, blk) = 0 THEN 0 ELSE 1
        b == p.block[blk]
        z == ZIG(b.k)
        Coef(v, k) == (v * Quantum(id, k) * IPSF(ZIG(k))) \div 256
    IN  block_idct([i \in 0 .. 63 |-> IF i = 0 THEN Coef(b.dc, 0) ELSE IF i = z THEN Coef(b.ac, b.k) ELSE 0])

Shown(p) ==
    With([blk \in DOMAIN p.block |-> BlockPixels(p, blk)], LAMBDA px :
        [at \in (0 .. p.width - 1) \X (0 .. p.height - 1) |->
            LET mcu == (at[2] \div (8 * p.msy)) * Across(p) + at[1] \div (8 * p.msx)
                x == at[1] % (8 * p.msx)
                y == at[2] % (8 * p.msy)
                first == mcu * PerMcu(p)
                luma == px[first + p.msx * (y \div 8) + x \div 8][8 * (y % 8) + (x % 8)]
                chroma(c) == px[first + p.msx * p.msy + c][8 * (y \div p.msy) + x \div p.msx] - 128
            IN  With(Rgb(luma, chroma(0), chroma(1)), LAMBDA rgb : Pixel(rgb[1], rgb[2], rgb[3]))])

(* The inverse DCT by its definition, for a block of two elements, in      *)
(* units of 1/16, from cosines in units of 1/4096.                         *)
Cos(k) == LET Table == <<4096, 4017, 3784, 3406, 2896, 2276, 1567, 799, 0>>
              j == k % 32
          IN  IF j <= 8 THEN Table[j + 1] ELSE IF j <= 16 THEN -Table[17 - j]
              ELSE IF j <= 24 THEN -Table[j - 15] ELSE Table[33 - j]
Basis(u, x) == IF u = 0 THEN Cos(4) ELSE Cos((2 * x + 1) * u)
Term(F, z, x, y) == (F * ((Basis(z % 8, x) * Basis(z \div 8, y)) \div 1024)) \div 4096
Exact16(F0, z, F, x, y) == Term(F0, 0, x, y) + Term(F, z, x, y) + 128 * 16
=============================================================================
