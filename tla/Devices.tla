------------------------------- MODULE Devices ------------------------------
(***************************************************************************)
(* The small calculations of the examples: the queue of earth_hour_433     *)
(* (SimpleFIFO.h), the pages of the cache that bootload_elf maps           *)
(* (hello_world_main.c), and the texts and frames put together or taken    *)
(* apart in one go: the query and the path of a request and the way to its *)
(* handler and its answer (mmu/main/WebServer.cpp, RequestManager.cpp),    *)
(* the beacons of free80211/main/main.c, the pulses of an LED strip        *)
(* (led_strip_rmt_ws2812.c), the start of an LCD (lcd.c) and the settings  *)
(* of a radio (RFM69OOK.cpp).  A text is a sequence of characters.         *)
(***************************************************************************)
EXTENDS Loops, Sequences, TLC

(* The queue: an array of rawSize places, with indices and a count of      *)
(* eight bits.                                                             *)

CountRange == 256    \* SIMPLEFIFO_SIZE_TYPE is uint8_t

flush(rawSize) ==
    [raw |-> [i \in 0 .. rawSize - 1 |-> 0], size |-> rawSize, numberOfElements |-> 0, nextIn |-> 0, nextOut |-> 0]

count(f) == f.numberOfElements

(* Slip: the index is not brought back to the start of the array.          *)
enqueueUnwrapped(f, element) ==
    IF count(f) >= f.size \/ f.nextIn >= f.size THEN [fifo |-> f, value |-> FALSE]
    ELSE [fifo |-> [f EXCEPT !.numberOfElements = @ + 1, !.raw[f.nextIn] = element, !.nextIn = @ + 1], value |-> TRUE]

enqueue(f, element) ==
    IF count(f) >= f.size THEN [fifo |-> f, value |-> FALSE]
    ELSE LET in == f.nextIn % f.size IN
         [fifo |-> [f EXCEPT !.numberOfElements = (@ + 1) % CountRange, !.raw[in] = element, !.nextIn = in + 1],
          value |-> TRUE]

(* Without a look at the count, which goes below zero when it is empty.    *)
dequeue(f) ==
    LET out == f.nextOut % f.size IN
    [fifo |-> [f EXCEPT !.numberOfElements = (@ - 1) % CountRange, !.nextOut = out + 1], value |-> f.raw[out]]

peek(f) == f.raw[f.nextOut % f.size]

-----------------------------------------------------------------------------
(* The functions that map pages of 64 KB into the data and the instruction *)
(* cache's address space.  An address is its page number, of 16 bits, and  *)
(* what follows it.  The bits of ext_ram lie above those of any physical   *)
(* page, so that | is +.                                                   *)

Pages == 2 ^ 16
Region == 64          \* pages of the 4 MB that follow each other in the table

(* 0xffff >> ((0x40 / psize - 1) & 0x1f), and the bits of an address       *)
(* below it.                                                               *)
Aligned(psize, addr) ==
    LET shift == ((64 \div psize) - 1) % 32 IN
    shift >= 16 \/ addr.low % 2 ^ (16 - shift) = 0

InRegion(page, first) == page \in first .. first + Region - 1

(* The entry of a page, -1 when it is out of range.                        *)
DbusEntry(page) ==
    CASE InRegion(page, 16320) -> (page % Region) + 192      \* 0x3fc00000
      [] InRegion(page, 16256) -> (page % Region) + 256      \* 0x3f800000
      [] InRegion(page, 16192) -> (page % Region) + 320      \* 0x3f400000
      [] OTHER -> -1

IbusEntry(page) ==
    CASE page >= 49344 -> (page % Region) + 128              \* 0xc0c00000
      [] page \in 49088 .. 49343 -> page % Region            \* 0xbfc00000
      [] page \in 49025 .. 49087 -> -1                       \* 0xbf800001
      [] OTHER -> (page % Region) + 64

(* The pages up to the end of the region: the data side adds a region      *)
(* before it rounds down, and so rounds nothing.                           *)
DbusStretch(page) == Region
IbusStretch(page) == Region - (page % Region)

(* Region by region, until num pages are set or one is out of range.       *)
MmuSet(ext_ram, vaddr, paddr, psize, num, fixed, Entry(_), Stretch(_)) ==
    IF ~ Aligned(psize, vaddr) \/ ~ Aligned(psize, paddr) THEN [ret |-> 2, table |-> << >>]
    ELSE IF psize # 64 THEN [ret |-> 3, table |-> << >>]
    ELSE LET s == ForUp([ret |-> 0, table |-> << >>, v |-> vaddr.page, p |-> paddr.page, num |-> num], 1, num,
                LAMBDA t, i :
                  IF t.ret # 0 \/ t.num = 0 THEN t
                  ELSE IF Entry(t.v) = -1 THEN [t EXCEPT !.ret = 4]
                  ELSE LET stretch == Stretch(t.v)
                           n == IF t.num <= stretch THEN t.num ELSE stretch
                           written == Entry(t.v) .. Entry(t.v) + n - 1
                       IN  [t EXCEPT !.num = @ - n, !.v = (@ + stretch) % Pages,
                                     !.p = IF fixed THEN @ ELSE @ + stretch,
                                     !.table = [e \in DOMAIN @ \cup written |->
                                         IF e \notin written THEN @[e]
                                         ELSE ext_ram + t.p + (IF fixed THEN 0 ELSE e - Entry(t.v))]])
         IN  [ret |-> s.ret, table |-> s.table]

Test_Cache_Dbus_MMU_Set(ext_ram, vaddr, paddr, psize, num, fixed) ==
    MmuSet(ext_ram, vaddr, paddr, psize, num, fixed, DbusEntry, DbusStretch)
Test_Cache_Ibus_MMU_Set(ext_ram, vaddr, paddr, psize, num, fixed) ==
    MmuSet(ext_ram, vaddr, paddr, psize, num, fixed, IbusEntry, IbusStretch)

-----------------------------------------------------------------------------
(* Texts and frames.                                                       *)

(* getQuery: the state machine over the characters of the query.           *)
getQuery(queryString) ==
    LET Put(map, name, value) == [n \in DOMAIN map \cup {name} |-> IF n = name THEN value ELSE map[n]]
        end == ForUp([map |-> << >>, state |-> "NAME", name |-> << >>, value |-> << >>], 1, Len(queryString),
            LAMBDA s, i : LET c == queryString[i] IN
                CASE s.state = "NAME" /\ c # "=" -> [s EXCEPT !.name = Append(@, c)]
                  [] s.state = "NAME" /\ c = "=" -> [s EXCEPT !.state = "VALUE", !.value = << >>]
                  [] s.state = "VALUE" /\ c # "&" -> [s EXCEPT !.value = Append(@, c)]
                  [] OTHER -> [s EXCEPT !.map = Put(@, s.name, s.value), !.state = "NAME", !.name = << >>])
    IN  IF end.state = "VALUE" THEN Put(end.map, end.name, end.value) ELSE end.map

(* Slip: the last part is only kept when a slash follows.                  *)
pathSplitOpen(path) ==
    ForUp([ret |-> << >>, part |-> << >>], 1, Len(path), LAMBDA s, i :
        IF path[i] = "/" THEN [ret |-> Append(s.ret, s.part), part |-> << >>]
        ELSE [s EXCEPT !.part = Append(@, path[i])]).ret

(* pathSplit: what std::getline reads, up to every slash and at the end.   *)
pathSplit(path) ==
    With(ForUp([ret |-> << >>, part |-> << >>], 1, Len(path), LAMBDA s, i :
             IF path[i] = "/" THEN [ret |-> Append(s.ret, s.part), part |-> << >>]
             ELSE [s EXCEPT !.part = Append(@, path[i])]),
         LAMBDA s : IF s.part = << >> THEN s.ret ELSE Append(s.ret, s.part))

(* The handlers in the order of their registration: the words of the path  *)
(* a handler asks for, whether they must stand at its start, and whether   *)
(* the path must end behind them.  A "" stands for the slash at the end; a *)
(* last word that is not followed by a slash or the end is any longer word *)
(* that begins with it as well.                                            *)
PathHandler(method, words, start, end, handler) ==
    [method |-> method, words |-> words, start |-> start, end |-> end, handler |-> handler]
m_pathHandlers == <<
    PathHandler("POST", <<"api", "mmu", "">>, TRUE, FALSE, "mmu"),
    PathHandler("POST", <<"api", "mem", "">>, TRUE, FALSE, "mem"),
    PathHandler("POST", <<"api", "flash", "">>, TRUE, FALSE, "flash"),
    PathHandler("GET", <<"api", "mmu", "">>, TRUE, FALSE, "mmu"),
    PathHandler("GET", <<"api", "mem", "">>, TRUE, FALSE, "mem"),
    PathHandler("GET", <<"api", "flash", "">>, TRUE, FALSE, "flash"),
    PathHandler("GET", <<"hello", "">>, FALSE, FALSE, "test"),
    PathHandler("POST", <<"ESP32", "LOG", "SET">>, TRUE, FALSE, "log"),
    PathHandler("GET", <<"ESP32", "FILE">>, TRUE, FALSE, "file"),
    PathHandler("GET", <<"ESP32", "SYSTEM">>, TRUE, TRUE, "system") >>

Longer == {<<"SET", "SETTING">>, <<"FILE", "FILES">>, <<"SYSTEM", "SYSTEMS">>, <<"hello", "hellos">>}

(* path: the words behind each slash of the path.                          *)
match(h, method, path) ==
    /\ method = h.method
    /\ \E at \in 0 .. Len(path) - Len(h.words) :
          /\ \A i \in DOMAIN h.words :
                \/ h.words[i] \in {"", path[at + i]}
                \/ i = Len(h.words) /\ ~h.end /\ <<h.words[i], path[at + i]>> \in Longer
          /\ h.start => at = 0
          /\ h.end => at + Len(h.words) = Len(path)

(* The handler that is called, or the file that is sent.                   *)
processRequest(method, path) ==
    LET matching == {i \in DOMAIN m_pathHandlers : match(m_pathHandlers[i], method, path)} IN
    IF matching # {} THEN [handler |-> m_pathHandlers[CHOOSE i \in matching : \A j \in matching : i <= j].handler, file |-> << >>]
    ELSE [handler |-> "none", file |-> IF path = <<"">> THEN <<"index.html">> ELSE path]

(* The header text of sendData from the headers in the order of the map.   *)
sendDataHeaders(m_headers) ==
    ForUp(<< >>, 1, Len(m_headers), LAMBDA headers, i :
        IF headers = << >> THEN m_headers[i] \o <<": ">> ELSE <<"; ">> \o m_headers[i] \o <<"=">>)

(* The rows of the dumps: the address a row names and the one its value is *)
(* read from, as pages of 64 KB and words in them, or bytes in the flash.  *)
(* The end of the page tables, mem_location + 63 * 4, counts words; a row  *)
(* of theirs has a second value, from the tables of the other processor    *)
(* 8 KB further on.  The other two dumps move on before they read, so the  *)
(* last value of the flash is what lies behind buffer[64].                 *)
Row(page, named, read) == [page |-> page, named |-> named, read |-> read]
BehindBuffer == -1
handle_REST_MMU == [i \in 1 .. 63 * 4 |-> [aval |-> 2048 + i - 1] @@ Row(16369, i - 1, i - 1)]
handle_REST_MEM(ix) ==
    [i \in 1 .. 64 |-> Row(IF ix >= 51 THEN 16397 + ix - 77 ELSE 16192 + ix, i - 1, i)]
handle_REST_FLASH(val) == [i \in 1 .. 64 |-> Row(val, i - 1, IF i < 64 THEN i ELSE BehindBuffer)]

-----------------------------------------------------------------------------
(* free80211: the beacon of one line and the number of the next.           *)
beacon_raw ==
    <<128, 0, 0, 0, 255, 255, 255, 255, 255, 255, 186, 222, 175, 254, 0, 6, 186, 222, 175, 254, 0, 6, 0, 0,
      0, 1, 2, 3, 4, 5, 6, 7, 100, 0, 49, 4, 0, 0, 1, 8, 130, 132, 139, 150, 12, 18, 24, 36, 3, 1, 1,
      5, 4, 1, 2, 0, 0>>
BEACON_SSID_OFFSET == 38

beacon_rick(line, ssid, seqnum) ==
    [i \in 1 .. Len(beacon_raw) + Len(ssid) |->
        CASE i \in {16, 22} -> line                    \* SRCADDR_OFFSET + 5, BSSID_OFFSET + 5
          [] i = 23 -> (seqnum % 16) * 16              \* SEQNUM_OFFSET
          [] i = 24 -> (seqnum \div 16) % 256
          [] i = BEACON_SSID_OFFSET -> Len(ssid)
          [] i \in 1 .. 37 \ {16, 22, 23, 24} -> beacon_raw[i]
          [] i \in BEACON_SSID_OFFSET + 1 .. BEACON_SSID_OFFSET + Len(ssid) -> ssid[i - BEACON_SSID_OFFSET]
          [] OTHER -> beacon_raw[i - Len(ssid)]]

NextSeqnum(seqnum) == IF seqnum + 1 > 4095 THEN 0 ELSE seqnum + 1

-----------------------------------------------------------------------------
(* The strip: green, red and blue of each pixel, eight items to a byte.    *)
set_pixel(buffer, index, red, green, blue) ==
    IF index >= Len(buffer) \div 3 THEN [ret |-> "ESP_ERR_INVALID_ARG", buffer |-> buffer]
    ELSE [ret |-> "ESP_OK",
          buffer |-> [buffer EXCEPT ![3 * index + 1] = green % 256, ![3 * index + 2] = red % 256,
                                    ![3 * index + 3] = blue % 256]]

(* One call of the adapter: as many whole bytes as are needed for          *)
(* wanted_num items, if there are as many.                                 *)
ws2812_rmt_adapter(src, wanted_num) ==
    LET size == IF Len(src) <= (wanted_num + 7) \div 8 THEN Len(src) ELSE (wanted_num + 7) \div 8 IN
    [translated_size |-> size,
     items |-> [i \in 1 .. 8 * size |-> (src[((i - 1) \div 8) + 1] \div 2 ^ (7 - ((i - 1) % 8))) % 2]]

(* The RMT driver: the adapter fills room for wanted_num items at a time;  *)
(* over when it writes more.                                               *)
Pulses(src, wanted_num) ==
    ForUp([out |-> << >>, left |-> src, over |-> FALSE], 1, Len(src), LAMBDA s, i :
        With(ws2812_rmt_adapter(s.left, wanted_num), LAMBDA a :
            [out |-> s.out \o a.items, over |-> s.over \/ Len(a.items) > wanted_num,
             left |-> SubSeq(s.left, a.translated_size + 1, Len(s.left))]))

-----------------------------------------------------------------------------
(* lcd.c: the commands with their values and the number of values to send, *)
(* 128 for none and a pause; what goes over the wire is a level of the D/C *)
(* pin and bytes, or a pause.                                              *)
Cmd(cmd, data, databytes) == [cmd |-> cmd, data |-> data, databytes |-> databytes]
st_init_cmds == <<
    Cmd(54, <<96>>, 1), Cmd(58, <<85>>, 1), Cmd(178, <<12, 12, 0, 51, 51>>, 5), Cmd(183, <<69>>, 1), Cmd(187, <<43>>, 1),
    Cmd(192, <<44>>, 1), Cmd(194, <<1, 255>>, 2), Cmd(195, <<17>>, 1), Cmd(196, <<32>>, 1), Cmd(198, <<15>>, 1),
    Cmd(208, <<164, 161>>, 1), Cmd(224, <<208, 0, 5, 14, 21, 13, 55, 67, 71, 9, 21, 18, 22, 25>>, 14),
    Cmd(225, <<208, 0, 5, 13, 12, 6, 45, 68, 64, 14, 28, 24, 22, 25>>, 14), Cmd(17, << >>, 128), Cmd(41, << >>, 128) >>
ili_init_cmds == <<
    Cmd(207, <<0, 131, 48>>, 3), Cmd(237, <<100, 3, 18, 129>>, 4), Cmd(232, <<133, 1, 121>>, 3),
    Cmd(203, <<57, 44, 0, 52, 2>>, 5), Cmd(247, <<32>>, 1), Cmd(234, <<0, 0>>, 2), Cmd(192, <<38>>, 1), Cmd(193, <<17>>, 1),
    Cmd(197, <<53, 62>>, 2), Cmd(199, <<190>>, 1), Cmd(54, <<40>>, 1), Cmd(58, <<85>>, 1), Cmd(177, <<0, 27>>, 2),
    Cmd(242, <<8>>, 1), Cmd(38, <<1>>, 1), Cmd(224, <<31, 26, 24, 10, 15, 6, 69, 135, 50, 10, 7, 2, 7, 5, 0>>, 15),
    Cmd(225, <<0, 37, 39, 5, 16, 9, 58, 120, 77, 5, 24, 13, 56, 58, 31>>, 15), Cmd(42, <<0, 0, 0, 239>>, 4),
    Cmd(43, <<0, 0, 1, 63>>, 4), Cmd(44, << >>, 0), Cmd(183, <<7>>, 1), Cmd(182, <<10, 130, 39, 0>>, 4),
    Cmd(17, << >>, 128), Cmd(41, << >>, 128) >>

lcd_cmd(cmd) == << <<"cmd", <<cmd>> >> >>
lcd_data(data, len) == IF len = 0 THEN << >> ELSE << <<"data", SubSeq(data, 1, len)>> >>
lcd_get_id == lcd_cmd(4) \o << <<"read">> >>

(* forced: the type in the configuration, or "auto".                       *)
lcd_init(lcd_id, forced) ==
    LET lcd_type == CASE forced # "auto" -> forced [] forced = "auto" /\ lcd_id = 0 -> "ili" [] OTHER -> "st"
        lcd_init_cmds == IF lcd_type = "st" THEN st_init_cmds ELSE ili_init_cmds
    IN  ForUp(lcd_get_id, 1, Len(lcd_init_cmds), LAMBDA wire, i :
            LET c == lcd_init_cmds[i] IN
            wire \o lcd_cmd(c.cmd) \o lcd_data(c.data, c.databytes % 32)
                 \o IF c.databytes >= 128 THEN << <<"delay">> >> ELSE << >>)

-----------------------------------------------------------------------------
(* RFM69OOK.cpp: the registers for a frequency in Hz, in steps of          *)
(* RF69OOK_FSTEP = 15625 / 256 Hz, and the frequency of the registers.     *)
setFrequency(freqHz) ==
    LET steps == (freqHz \div 15625) * 256 + ((freqHz % 15625) * 256) \div 15625 IN
    <<(steps \div 65536) % 256, (steps \div 256) % 256, steps % 256>>
getFrequency(frf) ==
    LET steps == frf[1] * 65536 + frf[2] * 256 + frf[3] IN
    (steps \div 256) * 15625 + ((steps % 256) * 15625) \div 256

setBitrate(bitrate) == <<((32000000 \div bitrate) \div 256) % 256, (32000000 \div bitrate) % 256>>
setBandwidth(reg, bw) == (reg \div 32) * 32 + bw   \* bw < 32
setRSSIThreshold(rssi) == (-rssi * 2) % 256
readRSSI(value) == -(value \div 2)

(* The power register: the amplifiers PA0, PA1 and PA2 in the bits 128, 64 *)
(* and 32, and the level.                                                  *)
setPowerLevel(reg, level) == (reg \div 32) * 32 + (IF level > 31 THEN 31 ELSE level)
setHighPower(onOff, reg, _powerLevel) == IF onOff THEN (reg % 32) + 64 + 32 ELSE 128 + (_powerLevel % 128)
=============================================================================
