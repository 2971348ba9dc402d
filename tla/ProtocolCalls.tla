---------------------------- MODULE ProtocolCalls -----------------------------
(***************************************************************************)
(* The protocols of mongoose.c beside what their RFCs say, or beside each  *)
(* other: what one side writes the other must read.                        *)
(***************************************************************************)
EXTENDS MongooseCalls

D == INSTANCE MongooseDigest
N == INSTANCE MongooseNet
M == INSTANCE MongooseMessages
LOCAL INSTANCE Loops
LOCAL INSTANCE Sequences
LOCAL INSTANCE FiniteSets
LOCAL INSTANCE TLC

CONSTANTS Lengths,     \* of the messages to digest, in bytes
          Cuts,        \* where they are cut
          FrameSizes,  \* bytes of data in a web socket frame
          Received,    \* what recvfrom may return: 1 for any data, 0 or -1
          MaxTime,     \* of a dialogue, in seconds
          MaxPackets   \* that reach its program

-----------------------------------------------------------------------------
(* Digests, and the handshake and frames of a web socket.                  *)
Repeated(n, x) == [i \in 1 .. n |-> x]
Pattern(n) == [i \in 1 .. n |-> With(i % 256, LAMBDA k : (k * k + 7 * k) % 256)]
Halves16(bytes) == [i \in 1 .. Len(bytes) \div 2 |-> 256 * bytes[2 * i - 1] + bytes[2 * i]]
Nonce == <<116, 104, 101, 32, 115, 97, 109, 112, 108, 101, 32, 110, 111, 110, 99, 101>>   \* "the sample nonce"

(* Published: RFC 1321 A.5, RFC 3174 7.3, RFC 2202 3, RFC 6455 1.3.        *)
Vectors == {
    <<"md5", << >>, <<\hd41d, \h8cd9, \h8f00, \hb204, \he980, \h0998, \hecf8, \h427e>> >>,
    <<"md5", D!Codes(97, 122), <<\hc3fc, \hd3d7, \h6192, \he400, \h7dfb, \h496c, \hca67, \he13b>> >>,
    <<"md5", D!Codes(65, 90) \o D!Codes(97, 122) \o D!Codes(48, 57), <<\hd174, \hab98, \hd277, \hd9f5, \ha561, \h1c2c, \h9f41, \h9d9f>> >>,
    <<"sha1", D!Codes(97, 99), <<\ha999, \h3e36, \h4706, \h816a, \hba3e, \h2571, \h7850, \hc26c, \h9cd0, \hd89d>> >>,
    <<"sha1", Concat([i \in 1 .. 14 |-> D!Codes(96 + i, 99 + i)]), <<\h8498, \h3e44, \h1c3b, \hd26e, \hbaae, \h4aa1, \hf951, \h29e5, \he546, \h70f1>> >>,
    <<"hmac", Repeated(20, \haa), Repeated(50, \hdd), <<\h125d, \h7342, \hb9ac, \h11cd, \h91a3, \h9af4, \h8aa1, \h7b4f, \h63f1, \h75d3>> >>,
    <<"hmac", D!Codes(1, 25), Repeated(50, \hcd), <<\h4c90, \h07f4, \h0262, \h50c6, \hbc84, \h14f9, \hbf50, \hc86c, \h2d72, \h35da>> >>,
    <<"accept", Nonce, <<\hb37a, \h4f2c, \hc062, \h4f16, \h90f6, \h4606, \hcf38, \h5945, \hb2be, \hc4ea>> >> }

DigestCalls ==
    {<<"vector", v>> : v \in Vectors}
    \cup UNION {{<<"digest", n, cut, cut2>> : cut, cut2 \in Cuts \cap (0 .. n)} : n \in Lengths}
    \cup {<<"hmac", n>> : n \in {1, 63, 64, 65, 80}}
    \cup {<<"handshake", Pattern(n)>> : n \in {0, 1, 9}}
    \cup {<<"frame", op, n, client>> : op \in {1, 9, 256, 257}, n \in FrameSizes \cap (0 .. 1000), client \in BOOLEAN}
    \cup {<<"frame", 2, n, FALSE>> : n \in FrameSizes}

Vector == Asked("vector") /\ \E v \in {call[2]} : answer' =
    CASE v[1] = "md5" -> B!cs_from_hex(D!cs_md5(<<v[2]>>))
      [] v[1] = "sha1" -> D!mg_hash_sha1_v(<<v[2]>>)
      [] v[1] = "hmac" -> D!cs_hmac_sha1(v[2], v[3])
      [] OTHER -> B!cs_base64_decode(D!mg_ws_handshake(B!cs_base64_encode(v[2])), 28).out

(* One digest of a message in up to three pieces.                          *)
Pieces3(m, i, j) == IF i <= j THEN <<SubSeq(m, 1, i), SubSeq(m, i + 1, j), B!From(m, j + 1)>> ELSE <<SubSeq(m, 1, i), B!From(m, i + 1)>>
Digest == Asked("digest") /\ \E pieces \in {Pieces3(Pattern(call[2]), call[3], call[4])} :
    answer' = <<B!cs_from_hex(D!cs_md5(pieces)), D!mg_hash_sha1_v(pieces)>>
Hmac1 == Asked("hmac") /\ answer' = D!cs_hmac_sha1(Pattern(call[2]), Pattern(70))

Random4 == << <<0, 0>>, <<32767, 65535>>, <<1, 2>>, <<\h1234, \h5678>> >>
Handshake == Asked("handshake") /\ answer' =
    <<D!mg_send_websocket_handshake(call[2], << >>, Random4),
      D!mg_connect_ws(call[2], "host", <<97>>, <<98>>, <<99>>, << <<"Extra", << >> >> >>, Random4)>>

Mask == <<1, 254, 85, 170>>
Waiting == <<3, 4, 5>>      \* in the send buffer already
WsFrame == Asked("frame") /\ \E data \in {Pattern(call[3])} : answer' =
    <<D!mg_send_websocket_frame(Waiting, call[2], data, call[4], Mask),
      D!mg_send_websocket_framev(Waiting, call[2], Pieces3(data, Len(data) \div 3, Len(data) \div 2), call[4], Mask)>>

(* The message with the mark, the zeros and the length in bits behind it.  *)
PaddedMessage(m, length) ==
    m \o <<128>> \o Repeated((55 - Len(m)) % 64, 0) \o length
Blocks(p) == [i \in 1 .. Len(p) \div 64 |-> SubSeq(p, 64 * i - 63, 64 * i)]
BitCount(m) == <<0, 0, 0, 0>> \o D!WordBytes(<<0, 8 * Len(m)>>)
Sha1Of(m) == With(Blocks(PaddedMessage(m, BitCount(m))), LAMBDA b :
    Concat(With(ForUp(D!cs_sha1_init.state, 1, Len(b), LAMBDA s, i : D!cs_sha1_transform(s, b[i])), LAMBDA s :
        [i \in 1 .. 5 |-> D!WordBytes(s[i])])))
Md5Of(m) == With(Blocks(PaddedMessage(m, D!Backwards(BitCount(m)))), LAMBDA b :
    Concat(With(ForUp(D!MD5_Init.buf, 1, Len(b), LAMBDA s, i : D!MD5Transform(s, b[i])), LAMBDA s :
        [i \in 1 .. 4 |-> D!Backwards(D!WordBytes(s[i]))])))

(* A digest is the one of the RFC for the published messages, and of any   *)
(* message the one of its padded blocks, however it is cut: on, before and *)
(* behind the places where a block is full or its length has no room.  The *)
(* server answers the key a client makes, of 16 bytes, as RFC 6455 says,   *)
(* and a frame is read as it was written, whatever form its length takes,  *)
(* in one piece or in several, masked by clients and by no server          *)
(* (mongoose.c:818-1004, 1250-1451, 8842-8858, 8870-8874, 8941-9151).      *)
DigestsExact ==
    done =>
    CASE call[1] = "vector" -> Halves16(answer) = call[2][Len(call[2])]
      [] call[1] = "digest" -> \E m \in {Pattern(call[2])} : answer = <<Md5Of(m), Sha1Of(m)>>
      [] call[1] = "hmac" ->
            LET n == call[2]
                key == IF n > 64 THEN Sha1Of(Pattern(n)) ELSE Pattern(n)
                K(mask) == [i \in 1 .. 64 |-> D!Xor32(<<0, IF i <= Len(key) THEN key[i] ELSE 0>>, <<0, mask>>)[2]]
            IN  answer = Sha1Of(K(92) \o Sha1Of(K(54) \o Pattern(70)))
      [] call[1] = "handshake" ->
            LET ValuesOf(lines, name) == {lines[i][2] : i \in {j \in DOMAIN lines : lines[j][1] = name}} IN
            /\ \A k \in 1 .. 2 : \E key \in ValuesOf(answer[k], "Sec-WebSocket-Key") :
                   Len(key) = 24 /\ Len(B!cs_base64_decode(key, 24).out) = 16
            /\ ValuesOf(answer[1], "Host") = {} /\ ValuesOf(answer[2], "Host") = {"host"}
            /\ Len(answer[1]) = 5 /\ Len(answer[2]) = 9
      [] call[1] = "frame" ->
            \E buf \in {B!From(answer[1], 4)} : \E h \in {D!ReadHeader(buf)} :
                /\ answer[1] = answer[2] /\ SubSeq(answer[1], 1, 3) = Waiting
                /\ h.data_len = call[3] /\ Len(buf) = h.header_len + h.data_len
                /\ D!Unmasked(buf, h) = Pattern(call[3])
                /\ buf[1] = (call[2] % 16) + (IF call[2] > 255 THEN 0 ELSE 128)
                /\ (h.mask_len = 4) = call[4]
                /\ call[4] /\ call[3] > 2 => SubSeq(buf, h.header_len + 1, Len(buf)) # Pattern(call[3])
      [] OTHER -> TRUE

-----------------------------------------------------------------------------
(* Dialogues: a program with a connection of its own, or with a listener,  *)
(* polls while the system does what it likes.                              *)
DialogueCalls ==
    {<<"client", host, proto, t[1], socket, [greets |-> t[2], after |-> after]>> :
         host \in {"name", "number"}, proto \in {"tcp", "udp"}, t \in {<<0, 2>>, <<4, 0>>}, socket \in {"ok", "none"},
         after \in {"nothing", "close"}}
    \cup {<<"server", proto, [greets |-> 0, after |-> after], socket>> :
             proto \in {"tcp", "udp"}, after \in {"nothing", "close", "answer", "keep"}, socket \in {"ok", "none"}}

Begin(name, m) == call[1] = name /\ call' = <<"dialogue", call>> /\ answer' = m /\ UNCHANGED done
Client == Begin("client", With(N!mg_connect_opt(N!mg_mgr_init(call[6]), call[2], call[3], call[5]), LAMBDA m :
                               IF call[4] = 0 THEN m ELSE N!mg_set_timer(m, 1, call[4])))
Server == Begin("server", N!mg_bind_opt(N!mg_mgr_init(call[3]), call[2], call[4]))

World == [dt |-> 0, cast |-> FALSE, socket |-> "ok", dns |-> << >>, junk |-> FALSE, connect |-> "wait", read |-> "none", who |-> 0,
          from |-> 0, n |-> 1, write |-> "all"]
Conns(m, P(_)) == {id \in DOMAIN m.c : ~ m.c[id].freed /\ P(m.c[id])}
Packets(m) == Cardinality({i \in DOMAIN m.told : m.told[i][2] \in {"recv", "cast"}})

(* What may happen in a poll of m: only what some connection can notice.   *)
(* A datagram may come back from recvfrom without data (see Received).     *)
ClientWorlds(m) ==
    LET resolving == Conns(m, LAMBDA c : c.handler = "resolver") # {}
        connecting == Conns(m, LAMBDA c : c.handler = "user" /\ "CONNECTING" \in c.flags) # {}
        reading == Conns(m, LAMBDA c : c.handler = "user" /\ {"CONNECTING", "RESOLVING"} \cap c.flags = {}) # {} /\ Packets(m) < MaxPackets
        sending == Conns(m, LAMBDA c : c.send > 0 \/ "CONNECTING" \in c.flags) # {}
    IN  {w \in [dt : {t \in {0, 5} : m.now + t <= MaxTime}, cast : {FALSE}, who : {0}, from : {0},
                 socket : IF resolving THEN {"ok", "none"} ELSE {"ok"},
                 dns : IF resolving THEN {<< >>, <<"A">>, <<"CNAME">>} ELSE {<< >>}, junk : IF resolving THEN BOOLEAN ELSE {FALSE},
                 connect : IF connecting THEN {"wait", "ok", "refused"} ELSE {"wait"},
                 read : IF reading THEN {"none", "data", "eof", "reset"} ELSE {"none"}, n : Received \cup {1},
                 write : IF sending THEN {"all", "part", "full", "error"} ELSE {"all"}] :
            /\ w.junk => w.dns = << >>
            /\ w.socket = "none" => w.dns = <<"A">>
            /\ w.n # 1 => w.junk \/ (call[2][3] = "udp" /\ w.read = "data")}
ServerWorlds(m) ==
    LET children == Conns(m, LAMBDA c : c.listener # 0 /\ "UDP" \notin c.flags)
        Writes == {"all", "part", "full", "error"}
        told == Packets(m) < MaxPackets
        more == Len(m.c) < 4 /\ told
        Reads == IF more THEN {"none", "data", "eof", "reset"} ELSE {"none"}
        From == IF more THEN 0 .. 2 ELSE {0}
    IN  {w \in {[World EXCEPT !.cast = cast, !.from = from, !.who = who, !.read = read, !.write = write] :
                    cast \in IF told THEN BOOLEAN ELSE {FALSE}, from \in From, who \in children, read \in Reads,
                    write \in Writes} : w.cast => w.from = 0}
        \cup {w \in {[World EXCEPT !.from = from, !.write = write, !.n = n] : from \in From, write \in Writes, n \in Received \cup {1}} :
                 w.n # 1 => call[2][2] = "udp" /\ w.from # 0}

Worlds(m) == IF call[2][1] = "client" THEN ClientWorlds(m) ELSE ServerWorlds(m)
Talking == call[1] = "dialogue" /\ ~ done /\ UNCHANGED call
Managed == Talking /\ Len(call[2]) > 1
PollManager == Managed /\ UNCHANGED done /\ \E w \in Worlds(answer) : answer' = N!mg_socket_if_poll(answer, w)
(* The program ends a connection of its own, which may not have begun.     *)
HangUp == Managed /\ call[2][1] = "client" /\ ~ answer.c[1].freed /\ answer' = N!Closing(answer, 1) /\ UNCHANGED done
FreeManager == Managed /\ done' = TRUE /\ answer' = N!mg_mgr_free(answer, World)

(* Every connection is polled or waits for an address, and then a request  *)
(* that is under way will tell it; what is closed is forgotten, with its   *)
(* socket, and everything is once the manager is freed.  A connection is   *)
(* told of its beginning at most once, exactly once if the program did not *)
(* hang up before, of data only after that, and of its end once, last.     *)
(* A name is asked for at most three times, timeout apart.  Clients of a   *)
(* listener are told apart by their address, and each gets an answer to    *)
(* all it sent; of a listener that could not be opened nothing is left and *)
(* nothing told.  While recvfrom returns data (mongoose.c:2003-2119,       *)
(* 2196-2223, 2301-2829, 2911-2925, 3114-3542, 3579-3706, 10707-10850).    *)
EventsTold ==
    call[1] = "dialogue" /\ Len(call[2]) > 1 =>
    \E m \in {answer} :
    LET Live == {id \in DOMAIN m.c : ~ m.c[id].freed}
        Listed == {m.conns[i] : i \in DOMAIN m.conns}
        Waiting4 == {id \in Live : "RESOLVING" \in m.c[id].flags}
        Told(id) == SelectSeq(m.told, LAMBDA e : e[1] = id /\ e[2] # "cast")
        At(t, ev) == {i \in DOMAIN t : t[i][2] = ev}
        Story(id) == \E t \in {Told(id)} :
            LET begins == At(t, "connect") \cup At(t, "accept") IN
            /\ Cardinality(begins) <= 1 /\ Cardinality(At(t, "close")) <= 1
            /\ \A i \in At(t, "recv") \cup At(t, "send") : \E j \in begins : j < i
            /\ m.c[id].freed <=> At(t, "close") = {Len(t)} /\ t # << >>
            /\ m.c[id].freed /\ begins = {} => done \/ "CLOSE_IMMEDIATELY" \in m.c[id].flags
            /\ Cardinality(At(t, "timer")) <= 1 /\ (At(t, "timer") # {} => m.now >= call[2][4])
    IN  /\ Cardinality(Listed) = Len(m.conns) /\ Listed = Live \ Waiting4
        /\ \A id \in Waiting4 : \E r \in Listed : m.c[r].req.pending /\ m.c[r].req.for = id
        /\ \A r \in Listed : m.c[r].req.pending => m.c[r].req.for \in Waiting4
        /\ m.open = {m.c[id].sock : id \in Live} \ {0}
        /\ IF call[2][1] = "server" /\ call[2][4] = "none" THEN Live = {} /\ m.told = << >>
           ELSE \A id \in DOMAIN m.c : m.c[id].handler = "user" => Story(id)
        /\ Len(m.queries) <= 3 /\ \A i \in 2 .. Len(m.queries) : m.queries[i] - m.queries[i - 1] >= 5
        /\ call[2][1] = "server" =>
              \A sa \in 1 .. 2 :
                LET those == {id \in DOMAIN m.c : m.c[id].sa = sa}
                    Sum(F(_)) == ForUp(0, 1, Len(m.c), LAMBDA n, id : IF id \in those THEN n + F(id) ELSE n)
                    sent == ForUp(0, 1, Len(m.wire), LAMBDA n, i : IF m.wire[i][2] = sa THEN n + m.wire[i][3] ELSE n)
                IN  /\ call[2][2] = "udp" => Cardinality(those \cap Live) <= 1
                    /\ call[2][3].after \in {"answer", "keep"} /\ call[2][2] = "udp" =>
                          sent + Sum(LAMBDA id : m.c[id].send) = Sum(LAMBDA id : m.c[id].recv)
        /\ done => Live = {} /\ m.open = {}

(* A connection that is told of data received some, and the memory of its  *)
(* buffer is its own, to be freed once (mongoose.h:3238 "Data has benn     *)
(* received", beside mongoose.c:2494-2505, 3396-3421).                     *)
DataReceived ==
    call[1] = "dialogue" /\ Len(call[2]) > 1 =>
        /\ ~ answer.twice /\ \A id \in DOMAIN answer.c : ~ answer.c[id].stale
        /\ \A i \in DOMAIN answer.told : answer.told[i][2] = "recv" => answer.told[i][3] > 0

-----------------------------------------------------------------------------
(* DNS: a query, what the server makes of it, and its reply, of which the  *)
(* last bytes may be missing.  Names as bytes.                             *)
Name1 == <<97>>                                    \* "a"
Name2 == <<98, 99, 46, 100>>                       \* "bc.d"
Name3 == Repeated(63, 101) \o <<46, 102, 46, 103>>   \* 63 times "e", then ".f.g"
Answers == {<< <<1, <<10, 0, 0, 1>> >> >>, << <<5, Name2>>, <<1, <<10, 0, 0, 2>> >> >>, << <<1, <<9, 8, 7, 6>> >>, <<5, Name3>> >>, << >>}

(* Addresses from parts; [host, ip, named] and [port, text].               *)
Hosts == << [kind |-> "host", ip |-> <<1, 2, 3, 4>>, aliases |-> <<Name1, Name2>>],
            [kind |-> "nameserver", ip |-> <<9, 9, 9, 9>>], [kind |-> "nameserver", ip |-> <<8, 8, 4, 4>>] >>
HostParts == {[text |-> <<49, 48, 46, 48, 46, 48, 46, 49, 58>>, means |-> <<10, 0, 0, 1>>],      \* "10.0.0.1:"
              [text |-> <<58>>, means |-> <<0, 0, 0, 0>>], [text |-> << >>, means |-> <<0, 0, 0, 0>>],
              [text |-> Append(Name2, 58), means |-> <<1, 2, 3, 4>>],
              [text |-> <<122, 58>>, means |-> <<"ask">>],                                        \* "z:"
              [text |-> <<76>> \o Append(B!From(M!localhost, 2), 58), means |-> <<"refused">>]}
PortParts == {[text |-> <<48>>, means |-> 0], [text |-> <<56, 48>>, means |-> 80], [text |-> <<54, 53, 53, 51, 52>>, means |-> 65534],
              [text |-> <<54, 53, 53, 51, 53>>, means |-> 65535], [text |-> <<54, 53, 53, 51, 54>>, means |-> 65536]}

PacketCalls ==
    {<<"dns", name, udp, answers, own>> : name \in {Name1, Name2, Name3}, udp \in BOOLEAN, answers \in Answers, own \in BOOLEAN}
    \cup {<<"pointers", room>> : room \in 1 .. 12}
    \cup {<<"broken", udp, n>> : udp \in BOOLEAN, n \in {2, 5, 11, 14}}
    \cup {<<"address", scheme, host, port, behind>> : scheme \in {<< >>, M!udp_scheme, M!tcp_scheme}, host \in HostParts,
              port \in PortParts, behind \in {<< >>, <<44>>, <<33>>}}
    \cup {<<"files", lines, name>> : lines \in {<< >>, <<Hosts[1]>>, Hosts, <<Hosts[3], Hosts[2]>>}, name \in {Name1, Name3}}

Tid == <<0, 161>>
DnsReply(msg, answers, start) ==
    ForUp(M!mg_dns_create_reply(start, msg), 1, Len(answers), LAMBDA r, i :
          M!mg_dns_reply_record(r, msg.questions[1], << >>, answers[i][1], 60 + i, answers[i][2]))
Stripped(bytes, udp) == IF udp THEN bytes ELSE B!From(bytes, 3)
DnsQuery == Asked("dns") /\ \E query \in {M!mg_send_dns_query(Tid, call[2], 1, call[3])} :
    \E handled \in {M!dns_handler(query, call[3])} :
    \E reply \in {M!mg_dns_send_reply(DnsReply(handled.msg, call[4], IF call[5] THEN << >> ELSE Waiting), call[3], call[5])} :
        answer' = <<query, handled, reply, [k \in 0 .. 80 |-> With(Stripped(reply.sent, call[3]), LAMBDA pkt :
                       M!mg_parse_dns(M!First(pkt, Len(pkt) - k)))]>>

(* "bc.d", the name of the question, pointed to by a CNAME answer whose    *)
(* name is "a." and the "d" of the question's.                             *)
Packed == <<0, 161, 129, 128, 0, 1, 0, 1, 0, 0, 0, 0>> \o <<2, 98, 99, 1, 100, 0, 0, 1, 0, 1>>
          \o <<192, 12, 0, 5, 0, 1, 0, 0, 0, 9, 0, 4, 1, 97, 192, 15>>
Pointers == Asked("pointers") /\ \E msg \in {M!mg_parse_dns(Packed)} :
    answer' = <<M!mg_dns_uncompress_name(msg, msg.answers[1].name, call[2]),
                M!mg_dns_parse_record_data(msg, msg.answers[M!mg_dns_next_record(msg, 5, 0)], call[2]),
                M!mg_dns_next_record(msg, 1, 0), M!mg_dns_next_record(msg, 5, 1)>>
Broken == Asked("broken") /\ answer' = M!dns_handler(Pattern(call[3]), call[2])
Address == Asked("address") /\
    answer' = M!mg_parse_address(call[2] \o call[3].text \o call[4].text \o call[5], Hosts, 200)
SystemFiles == Asked("files") /\ answer' = <<M!mg_get_ip_address_of_nameserver(call[2]), M!mg_resolve_from_hosts_file(call[2], call[3])>>

(* A server reads the name and type that were asked for, the client the    *)
(* same transaction and question and every answer in order; of a reply     *)
(* that is cut short it takes no address or name that is not whole, and    *)
(* none at all when an answer has not even begun.  A name is read through  *)
(* pointers and cut at the room there is.  What a server cannot read it    *)
(* gets back behind an error.  Addresses mean the protocol, host and port  *)
(* they are written with, or are refused: from port 65535, and when they   *)
(* go on with anything but a blank or a comma; a name the hosts file does  *)
(* not know is left to be asked for (mongoose.c:2357-2432, 10147-10577,    *)
(* 10616-10722).                                                           *)
PacketsExact ==
    done =>
    CASE call[1] = "dns" ->
            LET name == call[2]
                udp == call[3]
                answers == call[4]
                asked == answer[2].msg
                sent == answer[3].sent
                Size == Len(Stripped(sent, udp))
                last == answers[Len(answers)]
                LastLen == IF last[1] = 1 THEN 4 ELSE Len(last[2]) + 2
                Read(msg, i) == M!mg_dns_parse_record_data(msg, msg.answers[i], IF answers[i][1] = 1 THEN 4 ELSE 100)
            IN  /\ asked.ok /\ answer[2].sent = << >> /\ asked.transaction_id = Tid
                /\ asked.questions[1].rtype = 1 /\ M!mg_dns_uncompress_name(asked, asked.questions[1].name, 511) = name
                /\ answer[3].io = (IF call[5] THEN sent ELSE Waiting)
                /\ ~ udp => 256 * sent[1] + sent[2] = Size - 12
                /\ \A k \in {j \in 0 .. 80 : answers # << >> /\ j < Size} : \E msg \in {answer[4][k]} :
                      /\ k < LastLen <=> (msg.ok /\ msg.num_answers = Len(answers))
                      /\ msg.ok => /\ msg.transaction_id = Tid /\ msg.flags = 33152
                                   /\ M!mg_dns_uncompress_name(msg, msg.questions[1].name, 511) = name
                                   /\ \A i \in DOMAIN answers :
                                        IF i < Len(answers) \/ k = 0 THEN Read(msg, i) = [ret |-> 0, data |-> answers[i][2]]
                                        ELSE Read(msg, i).data = << >>
                /\ answers = << >> => answer[4][0].ok /\ answer[4][0].num_answers = 0
      [] call[1] = "pointers" ->
            LET Room(name) == M!First(name, call[2]) IN
            answer = <<Room(Name2), [ret |-> 0, data |-> Room(<<97, 46, 100>>)], 0, 0>>
      [] call[1] = "broken" -> \E bytes \in {Pattern(call[3])} :
            /\ ~ answer.msg.ok
            /\ Stripped(answer.sent, call[2]) = <<0, 0, 128, 129, 0, 0, 0, 0, 0, 0, 0, 0>> \o Stripped(bytes, call[2])
      [] call[1] = "address" ->
            LET means == call[3].means
                size == Len(call[3].text) + Len(call[4].text)
                good == call[4].means < 65535 /\ call[5] # <<33>>
            IN  /\ answer.udp = (call[2] = M!udp_scheme)
                /\ answer.port = call[4].means % 65536
                /\ answer.ret = (CASE means = <<"ask">> -> 0
                                   [] means = <<"refused">> -> -1
                                   [] OTHER -> IF good THEN size ELSE -1)
                /\ answer.ret > 0 => answer.ip = means
      [] call[1] = "files" ->
            LET servers == {i \in DOMAIN call[2] : call[2][i].kind = "nameserver"} IN
            /\ answer[1] = (IF servers = {} THEN <<8, 8, 8, 8>> ELSE call[2][CHOOSE i \in servers : \A j \in servers : i <= j].ip)
            /\ answer[2] = (IF call[3] = Name1 /\ Hosts[1] \in {call[2][i] : i \in DOMAIN call[2]} THEN <<1, 2, 3, 4>> ELSE << >>)
      [] OTHER -> TRUE

-----------------------------------------------------------------------------
(* MQTT: one or two messages, which come in two pieces.                    *)
NoOpts == [flags |-> 2, keep_alive |-> 0, will_topic |-> << >>, will_message |-> << >>, user_name |-> << >>, password |-> << >>]
Opts == {NoOpts, [NoOpts EXCEPT !.keep_alive = 300, !.will_topic = <<Name1>>],
         [NoOpts EXCEPT !.will_topic = <<Name1>>, !.will_message = <<Name2>>, !.password = <<Nonce>>],
         [NoOpts EXCEPT !.user_name = <<Name2>>, !.password = << << >> >>]}
Many(n) == Pattern(n)
Letters == {<<"connect", Name1, opts>> : opts \in Opts} \cup {<<"connect", Repeated(113, 97), NoOpts>>}
    \cup {<<"publish", Name2, Many(n), qos>> : n \in {0, 1, 9}, qos \in {0, 1}}
    \cup {<<"subscribe", << >> >>, <<"subscribe", <<[topic |-> Name2, qos |-> 0], [topic |-> Name1, qos |-> 2]>> >>,
           <<"unsubscribe", <<Name1, Name2>> >>, <<"short", 4>>, <<"short", 11>>, <<"connack", 5>>, <<"suback", <<0, 1>> >>, <<"empty", 12>>}
Letters2 == {<<"publish", Name2, Many(n), 0>> : n \in {121, 122, 123, 124, 16377, 16378, 16379, 16380}}
Id2 == 515
Written(d) ==
    CASE d[1] = "connect" -> M!mg_send_mqtt_handshake_opt(d[2], d[3])
      [] d[1] = "publish" -> M!mg_mqtt_publish(<< >>, d[2], Id2, M!MG_MQTT_QOS(d[4]), d[3])
      [] d[1] = "subscribe" -> M!mg_mqtt_subscribe(<< >>, d[2], Id2)
      [] d[1] = "unsubscribe" -> M!mg_mqtt_unsubscribe(<< >>, d[2], Id2)
      [] d[1] = "short" -> M!mg_send_mqtt_short_command(<< >>, d[2], Id2)
      [] d[1] = "connack" -> M!mg_mqtt_connack(<< >>, d[2])
      [] d[1] = "suback" -> M!mg_mqtt_suback(<< >>, d[2], Id2)
      [] OTHER -> M!Empty(<< >>, d[2])
MqttCalls ==
    {<<"mqtt", <<d>>, c>> : d \in Letters \cup Letters2, c \in 1 .. 4}
    \cup {<<"mqtt", <<d, e>>, c>> : d, e \in Letters, c \in 1 .. 4}

(* The first piece lacks the last two bytes of the first message, or one,  *)
(* or none, or reaches two bytes into what follows.                        *)
FirstPiece(d, c) == IF Len(Written(d)) + c > 3 THEN Len(Written(d)) + c - 3 ELSE 1
Mqtt == Asked("mqtt") /\ \E all \in {Concat([i \in DOMAIN call[2] |-> Written(call[2][i])])} :
    \E n \in {FirstPiece(call[2][1], call[3])} :
    \E first \in {M!mqtt_handler(M!First(all, n), 85)} :
        answer' = IF n >= Len(all) THEN <<first.events, first.io>>
                  ELSE With(M!mqtt_handler(first.io \o B!From(all, n + 1), 85), LAMBDA second :
                            <<first.events \o second.events, second.io>>)

LastMissing == call[3] = 2 /\ Len(Written(call[2][1])) > 2

Command(d) == CASE d[1] = "connect" -> 1 [] d[1] = "connack" -> 2 [] d[1] = "publish" -> 3 [] d[1] = "subscribe" -> 8
            [] d[1] = "suback" -> 9 [] d[1] = "unsubscribe" -> 10 [] OTHER -> d[2]
Read1(d, mm) ==
    LET Of(s) == M!Text(mm.pkt, s) IN
    /\ mm.cmd = Command(d) /\ mm.len = Len(Written(d))
    /\ d[1] = "connect" =>
          LET opts == d[3]
              will == opts.will_topic # << >> /\ opts.will_message # << >>
              Or(s, there) == IF there /\ s # << >> THEN s[1] ELSE << >>
          IN  /\ Of(mm.protocol_name) = <<77, 81, 73, 115, 100, 112>> /\ mm.protocol_version = 3
              /\ mm.keep_alive_timer = IF opts.keep_alive = 0 THEN 60 ELSE opts.keep_alive
              /\ [i \in 1 .. 5 |-> Of(mm.strings[i])] =
                    <<d[2], Or(opts.will_topic, will), Or(opts.will_message, will), Or(opts.user_name, TRUE), Or(opts.password, TRUE)>>
    /\ d[1] = "publish" /\ d[4] = 0 => Of(mm.topic) = d[2] /\ Of(mm.payload) = d[3]
    /\ d[1] = "publish" => mm.qos = d[4]
    /\ d[1] \in {"subscribe", "suback"} \/ (d[1] = "short" /\ d[2] < 8) => mm.message_id = Id2
    /\ d[1] = "subscribe" => \E all \in {M!Topics(mm)} :
          d[2] = [i \in DOMAIN all |-> [topic |-> Of(all[i].topic), qos |-> all[i].qos]]
    /\ d[1] = "connack" => mm.connack_ret_code = d[2]

-----------------------------------------------------------------------------
(* CoAP: options are [number, length], in the order they are added in.     *)
CoapNumbers == {0, 12, 13, 268, 269, 65535}
OptionLists == {<< >>} \cup {<< <<n, l>> >> : n \in CoapNumbers, l \in {0, 12, 13, 268, 269}}
    \cup {<< <<n, 1>>, <<k, 2>> >> : n, k \in CoapNumbers} \cup {<< <<269, 1>>, <<n, 2>>, <<13, 3>>, <<13, 4>> >> : n \in CoapNumbers}
Coap(list, token, payload) ==
    [msg_type |-> 1, msg_id |-> Id2, token |-> Pattern(token), code_class |-> 2, code_detail |-> 31, payload |-> Pattern(payload),
     options |-> ForUp(<< >>, 1, Len(list), LAMBDA o, i : M!mg_coap_add_option(o, list[i][1], Pattern(list[i][2])))]
BadCoap == {[Coap(<< >>, 9, 0) EXCEPT !.msg_type = 3], [Coap(<< >>, 0, 0) EXCEPT !.msg_type = 4], [Coap(<< >>, 0, 2) EXCEPT !.code_class = 8],
            [Coap(<< >>, 1, 0) EXCEPT !.code_detail = 32],
            [Coap(<< >>, 0, 0) EXCEPT !.options = <<[number |-> 5, value |-> << >>], [number |-> 4, value |-> <<1>>]>>]}
CoapCalls == {<<"coap", list, token, payload>> : list \in OptionLists, token \in {0, 8}, payload \in {0, 2}}
    \cup {<<"bad", cm>> : cm \in BadCoap} \cup {<<"ack", id>> : id \in {0, 65535}}
    \cup {<<"junk", bytes>> : bytes \in {<< >>, <<64, 1, 2>>, <<128, 0, 0, 0>>, <<73, 0, 0, 0>>, <<64, 0, 0, 0, 240>>, <<64, 0, 0, 0, 15>>,
                                         <<66, 0, 0, 0, 1>>, <<64, 0, 0, 0, 208>>, <<64, 0, 0, 0, 14, 0>>, <<64, 0, 0, 0, 255>>}}
CoapMessage == Asked("coap") /\ \E made \in {M!mg_coap_compose(Coap(call[2], call[3], call[4]), Waiting)} :
    answer' = <<made, [k \in 0 .. 12 |-> M!mg_coap_parse(M!First(B!From(made.io, 4), Len(made.io) - 3 - k))], M!coap_handler(B!From(made.io, 4))>>
CoapWrong == \/ Asked("bad") /\ answer' = M!mg_coap_compose(call[2], Waiting)
             \/ Asked("junk") /\ answer' = <<M!mg_coap_parse(call[2]), M!coap_handler(call[2])>>
             \/ Asked("ack") /\ answer' = M!coap_handler(M!mg_coap_send_ack(<< >>, call[2]))

(* SNTP: a reply, in eighths of a second, and the name of a server.        *)
SntpCalls ==
    {<<"sntp", [hdr |-> hdr, stratum |-> 1, t1 |-> 80 + t1, t2 |-> 80 + t2, t3 |-> 80 + t3], len>> : hdr \in {36, 37, 35, 28},
        t1 \in {90, 100}, t2, t3 \in {50, 100, 104}, len \in {47, 48}}
    \cup {<<"sntpname", scheme, name, port>> : scheme \in {<< >>, M!udp_scheme}, name \in {Name1, Name2}, port \in {<< >>, <<58, 57>>}}
Sntp == \/ Asked("sntp") /\ answer' = M!mg_sntp_parse_reply(call[2], call[3], 100)
        \/ Asked("sntpname") /\ answer' = M!mg_parse_address(M!mg_sntp_connect(call[2] \o call[3] \o call[4]), Hosts, 200)

(* MQTT messages are read as they were written, one with each piece that   *)
(* comes in: once a message is complete it is told, and none of the bytes  *)
(* behind it is lost.  Where the last byte of the first one is missing     *)
(* nothing is asked here: see BufferedWhole.  A publication with QoS has   *)
(* its topic before its number when written and behind it when read: only  *)
(* its QoS is asked for.  A CoAP message keeps its options in order and is *)
(* read as it was, cut short it is a message with fewer options or less    *)
(* payload, or is ignored like all that is wrong; nothing is composed of a *)
(* wrong one.  The time of an SNTP reply is the one it was sent at and     *)
(* what it took, if the clocks allow that, and the server is asked by UDP, *)
(* at its port (mongoose.c:9590-9951, 10876-11430, 11768-11990).           *)
MessagesExact ==
    done =>
    CASE call[1] = "mqtt" ->
            LastMissing \/ \E events \in {answer[1]} :
                /\ Len(events) \in 1 .. Len(call[2]) /\ \A i \in DOMAIN events : Read1(call[2][i], events[i])
                /\ answer[2] = Concat([i \in 1 .. Len(call[2]) - Len(events) |-> Written(call[2][Len(events) + i])])
      [] call[1] = "coap" ->
            LET cm == Coap(call[2], call[3], call[4])
                size == M!coap_calculate_packet_size(cm).len
                Begins(s, t) == s = M!First(t, Len(s))
                Same(m) == [m EXCEPT !.flags = {}] = [flags |-> {}] @@ cm
            IN  /\ answer[1].err = "" /\ Len(answer[1].io) = 3 + size /\ SubSeq(answer[1].io, 1, 3) = Waiting
                /\ Same(answer[2][0]) /\ answer[3] = <<answer[2][0]>>
                /\ \A i \in 2 .. Len(cm.options) : cm.options[i - 1].number <= cm.options[i].number
                /\ \A k \in 0 .. 12 : \E m \in {answer[2][k]} :
                      IF "ERROR" \in m.flags THEN m.options = << >> /\ m.payload = << >>
                      ELSE Begins(m.options, cm.options) /\ Begins(m.payload, cm.payload)
                           /\ (m.payload # << >> => m.options = cm.options) /\ m.token = cm.token
      [] call[1] = "bad" -> answer.err # "" /\ answer.io = Waiting
      [] call[1] = "ack" -> Len(answer) = 1 /\ answer[1].msg_type = 2 /\ answer[1].msg_id = call[2] /\ answer[1].payload = << >>
      [] call[1] = "junk" -> IF "ERROR" \in answer[1].flags THEN answer[2] = << >> ELSE call[2][5] = 255 /\ answer[1].payload = << >>
      [] call[1] = "sntp" ->
            \E b \in {call[2]} :
                /\ answer.ok <=> call[3] = 48 /\ b.hdr \in {36, 37}
                /\ answer.ok => answer.time = (b.t3 - 80)
                      + (IF b.t3 < b.t2 \/ (100 - (b.t1 - 80)) < (b.t3 - b.t2) THEN 0 ELSE (100 - (b.t1 - 80)) - (b.t3 - b.t2))
      [] call[1] = "sntpname" -> answer.udp /\ answer.port = (IF call[4] = << >> THEN 123 ELSE 9) /\ answer.ip = <<1, 2, 3, 4>>
      [] OTHER -> TRUE

(* A message is told once, when all of it is there (mongoose.c:9703 "not   *)
(* fully buffered", beside 9617-9619).                                     *)
BufferedWhole ==
    done /\ call[1] = "mqtt" /\ Len(call[2]) = 1 => Len(answer[1]) = 1 /\ answer[2] = << >>

-----------------------------------------------------------------------------
(* Dialogues of a broker with its clients, and of a client that asks for   *)
(* the time.  What a client writes, the broker reads.                      *)
Expressions == {<<Name1>>, << <<97, 98>>, <<99, 47, 35>> >>, << <<35>> >>}         \* "a"; "ab" and "c/#"; "#"
Broker0 == [broker |-> M!mg_mqtt_broker_init, live |-> {}, last |-> << >>]
Sntp0 == [count |-> 0, timer |-> 0, closing |-> FALSE, sent |-> << >>, told |-> << >>, now |-> 0, begun |-> FALSE]
TalkCalls == {<<"broker">>, <<"time">>}
Talk == \/ Begin("broker", Broker0) \/ Begin("time", Sntp0)

Speaks(b, nc, bytes, last) ==
    With(M!mqtt_handler(bytes, 0).events[1], LAMBDA mm :
         [b EXCEPT !.broker = M!mg_mqtt_broker([@ EXCEPT !.sent = << >>], nc, mm), !.last = last])
Clients == 1 .. 3
At1(b, nc) == CHOOSE s \in {b.broker.sessions[i] : i \in DOMAIN b.broker.sessions} : s.nc = nc
Brokering == Talking /\ call[2] = <<"broker">> /\ UNCHANGED done
Connects == Brokering /\ \E nc \in Clients \ answer.live :
    answer' = [Speaks(answer, nc, M!mg_send_mqtt_handshake_opt(Name1, NoOpts), << >>) EXCEPT !.live = @ \cup {nc}]
Subscribes == Brokering /\ \E nc \in answer.live, topics \in Expressions :
    /\ At1(answer, nc).subscriptions = << >>
    /\ answer' = Speaks(answer, nc, M!mg_mqtt_subscribe(<< >>, [i \in DOMAIN topics |-> [topic |-> topics[i], qos |-> 0]], Id2), << >>)
Publishes == Brokering /\ \E nc \in answer.live, topic \in {Name1, <<97, 98>>, <<99, 47, 97>>, <<120>>} :
    answer' = Speaks(answer, nc, M!mg_mqtt_publish(<< >>, topic, Id2, 0, <<46, 98>>), <<topic, <<46, 98>> >>)
Leaves == Brokering /\ \E nc \in answer.live :
    answer' = [broker |-> M!mg_mqtt_close_session([answer.broker EXCEPT !.sent = << >>], nc), live |-> answer.live \ {nc}, last |-> << >>]

(* A poll of the connection: it is connected or not in the first, then     *)
(* something is read, then the timer is looked at.                         *)
PollTime == Talking /\ call[2] = <<"time">> /\ \E dt \in {0, 3, 10}, ok \in BOOLEAN, read \in {"none", "reply", "malformed"} :
    LET at == [answer EXCEPT !.now = @ + dt, !.begun = TRUE]
        joined == IF answer.begun THEN at ELSE M!mg_sntp_util_ev_handler(at, "connect", ok, at.now)
        heard == M!mg_sntp_util_ev_handler(joined, read, ok, at.now)
        timed(c) == IF c.closing \/ c.timer = 0 \/ c.now < c.timer THEN c
                    ELSE With(M!mg_sntp_util_ev_handler(c, "timer", ok, c.now), LAMBDA d : IF d.timer = c.timer THEN [d EXCEPT !.timer = 0] ELSE d)
        lost == ~ answer.begun /\ ~ ok
    IN  /\ ~ answer.begun => read = "none"
        /\ answer' = (IF lost THEN [joined EXCEPT !.closing = TRUE] ELSE timed(heard))
        /\ done' = answer'.closing

(* An expression asks for a topic it equals, "#" for all, one that ends in *)
(* "/#" for those below what is before it, and for that itself.            *)
Matches(e, topic) ==
    LET stem == M!First(e, Len(e) - 2) IN
    \/ e \in {topic, <<35>>}
    \/ e[Len(e)] = 35 /\ (topic = stem \/ M!First(topic, Len(e) - 1) = M!First(e, Len(e) - 1))
Copies(b, s) == Cardinality({k \in DOMAIN b.sent : b.sent[k].nc = s.nc})
Sessions(b) == {b.sessions[i] : i \in DOMAIN b.sessions}
Subscribed(s, topic) == \E j \in DOMAIN s.subscriptions : Matches(s.subscriptions[j], topic)

(* The sessions of a broker are those of the clients that are connected,   *)
(* each with what it subscribed to; what is published goes at most once to *)
(* each, once to those that asked for it with an expression other than     *)
(* "#", and is read by them as it was sent.  Who gets it besides is the    *)
(* matter of TopicsMatch.                                                  *)
(* Who asks for the time is told once, of success or of failure, and asks  *)
(* again every ten seconds, three times, until it is (mongoose.c:          *)
(* 9966-10128, 11966-12026).                                               *)
DialoguesEnd ==
    /\ call = <<"dialogue", <<"broker">> >> =>
        LET b == answer.broker IN
            /\ {s.nc : s \in Sessions(b)} = answer.live /\ Len(b.sessions) = Cardinality(answer.live)
            /\ answer.last # << >> => \A s \in Sessions(b) :
                  /\ Copies(b, s) <= 1
                  /\ Subscribed([s EXCEPT !.subscriptions = SelectSeq(@, LAMBDA e : e # <<35>>)], answer.last[1]) => Copies(b, s) = 1
            /\ \A k \in DOMAIN b.sent : \E mm \in {M!parse_mqtt(b.sent[k].bytes, 0)} :
                  /\ b.sent[k].nc \in answer.live /\ mm.len = Len(b.sent[k].bytes)
                  /\ answer.last # << >> => mm.cmd = 3 /\ <<M!Text(mm.pkt, mm.topic), M!Text(mm.pkt, mm.payload)>> = answer.last
                  /\ answer.last = << >> => mm.cmd \in {2, 9}
    /\ call = <<"dialogue", <<"time">> >> =>
        /\ Len(answer.sent) <= 4 /\ \A i \in 2 .. Len(answer.sent) : answer.sent[i] - answer.sent[i - 1] >= 10
        /\ Len(answer.told) = (IF answer.closing THEN 1 ELSE 0)
        /\ answer.begun /\ ~ answer.closing => answer.now < answer.timer /\ answer.timer = answer.sent[Len(answer.sent)] + 10

(* What is published goes to those that asked for its topic, and to no one *)
(* else (mongoose.c:10051-10056 "Matches a topic against a topic           *)
(* expression ... Returns 1 if it matches; 0 otherwise", beside            *)
(* 10058-10069).                                                           *)
TopicsMatch ==
    call = <<"dialogue", <<"broker">> >> /\ answer.last # << >> =>
        \A s \in Sessions(answer.broker) : Copies(answer.broker, s) = IF Subscribed(s, answer.last[1]) THEN 1 ELSE 0

(* What one side of a protocol writes the other reads, as its RFC has it   *)
(* (see each).                                                             *)
ProtocolsExact == DigestsExact /\ PacketsExact /\ MessagesExact

(* Every dialogue tells its program what happens, in order, and ends (see  *)
(* each).                                                                  *)
DialoguesTold == EventsTold /\ DialoguesEnd
=============================================================================
