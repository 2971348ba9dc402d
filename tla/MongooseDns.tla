----------------------------- MODULE MongooseDns ------------------------------
(***************************************************************************)
(* DNS messages of mongoose.c: queries and answers as bytes, and what is   *)
(* read back from them.  Names are bytes, 46 the dot; the place of a byte  *)
(* in a packet counts from 0, and a place and a length stand for a string  *)
(* of the packet.                                                          *)
(***************************************************************************)
EXTENDS MongooseBytes

A_RECORD == 1
CNAME_RECORD == 5
MaxRecords == 32         \* MG_MAX_DNS_QUESTIONS, MG_MAX_DNS_ANSWERS
Header == 12

First(s, n) == SubSeq(s, 1, IF n < Len(s) THEN n ELSE Len(s))
U16(n) == <<(n \div 256) % 256, n % 256>>
U32(n) == U16(n \div 65536) \o U16(n % 65536)
At(pkt, at) == pkt[at + 1]
At16(pkt, at) == 256 * At(pkt, at) + At(pkt, at + 1)

(* The transaction is stored as it is, the rest in network order.          *)
mg_dns_insert_header(io, pos, msg) ==
    SubSeq(io, 1, pos) \o msg.transaction_id \o U16(msg.flags) \o U16(msg.num_questions) \o U16(msg.num_answers)
    \o <<0, 0, 0, 0>> \o From(io, pos + 1)

(* From the first question to behind the last one's type and class.        *)
mg_dns_copy_questions(io, msg) ==
    IF msg.num_questions = 0 THEN io
    ELSE io \o With(msg.questions[msg.num_questions].name, LAMBDA n : SubSeq(msg.pkt, Header + 1, n.at + n.len + 4))

(* A label is what is before, between or behind the dots; of more than 127 *)
(* bytes it makes the name useless, << >>.                                 *)
mg_dns_encode_name(name) ==
    LET dots == {0, Len(name) + 1} \cup {i \in DOMAIN name : name[i] = 46}
        Next(i) == CHOOSE j \in dots : j > i /\ \A k \in dots : k > i => j <= k
        Labels == ForUp(<< >>, 1, Len(name) + 1, LAMBDA out, i :
                        IF i - 1 \notin dots THEN out ELSE out \o <<Next(i - 1) - i>> \o SubSeq(name, i, Next(i - 1) - 1))
    IN  IF \E i \in dots : i <= Len(name) /\ Next(i) - i - 1 > 127 THEN << >> ELSE Append(Labels, 0)

(* rdata is a name for CNAME.                                              *)
mg_dns_encode_record(rr, name, rdata) ==
    LET head == mg_dns_encode_name(name)
        data == IF rr.rtype = CNAME_RECORD THEN mg_dns_encode_name(rdata) ELSE rdata
    IN  CASE rr.kind = "invalid" \/ head = << >> -> << >>
          [] rr.kind = "question" /\ head # << >> -> head \o U16(rr.rtype) \o U16(rr.rclass)
          [] rr.kind = "answer" /\ head # << >> ->
                IF rr.rtype = CNAME_RECORD /\ data = << >> THEN << >>
                ELSE head \o U16(rr.rtype) \o U16(rr.rclass) \o U32(rr.ttl) \o U16(Len(data)) \o data

(* What a resolver sends; behind its length when it is not a datagram.     *)
(* Nothing for a name that cannot be encoded.                              *)
mg_send_dns_query(tid, name, query_type, udp) ==
    LET record == mg_dns_encode_record([kind |-> "question", rtype |-> query_type, rclass |-> 1], name, << >>)
        pkt == mg_dns_insert_header(<< >>, 0, [transaction_id |-> tid, flags |-> 256, num_questions |-> 1, num_answers |-> 0]) \o record
    IN  CASE record = << >> -> << >> [] record # << >> /\ udp -> pkt [] OTHER -> U16(Len(pkt)) \o pkt

-----------------------------------------------------------------------------
(* Reading.                                                                *)
(* The last byte of the name that begins there: its end, the second byte   *)
(* of a pointer, or a place behind the packet.                             *)
NameEnd(pkt, at) ==
    LET n == Len(pkt)
        End[i \in at .. n + 64] ==
            CASE i >= n -> i
              [] i < n /\ At(pkt, i) = 0 -> i
              [] i < n /\ At(pkt, i) >= 64 -> i + 1
              [] OTHER -> End[i + At(pkt, i) + 1]
    IN  End[at]

(* Slip: the ten bytes before the data are not looked for.                 *)
mg_parse_dns_resource_recordRash(pkt, at, reply) ==
    LET n == NameEnd(pkt, at)
        end == Len(pkt)
        size == IF reply /\ n + 10 < end THEN At16(pkt, n + 9) ELSE 0
    IN  IF n > end - 5 THEN [next |-> -1]
        ELSE [next |-> IF reply THEN n + 11 + size ELSE n + 5,
              rr |-> [name |-> [at |-> at, len |-> n - at + 1], rtype |-> At16(pkt, n + 1), rclass |-> At16(pkt, n + 3),
                      ttl |-> << >>, kind |-> IF reply THEN "answer" ELSE "question", rdata |-> [at |-> n + 11, len |-> size]]]

mg_parse_dns_resource_record(pkt, at, reply) ==
    LET n == NameEnd(pkt, at)
        end == Len(pkt)
        size == At16(pkt, n + 9)
        rr == [name |-> [at |-> at, len |-> n - at + 1], rtype |-> At16(pkt, n + 1), rclass |-> At16(pkt, n + 3),
               ttl |-> << >>, kind |-> "question", rdata |-> [at |-> 0, len |-> 0]]
    IN  CASE n > end - 5 \/ (reply /\ n + 5 >= end - 6) -> [next |-> -1]
          [] n <= end - 5 /\ ~ reply -> [next |-> n + 5, rr |-> rr]
          [] OTHER -> [next |-> n + 11 + size,
                       rr |-> [rr EXCEPT !.kind = "answer", !.ttl = SubSeq(pkt, n + 6, n + 9), !.rdata = [at |-> n + 11, len |-> size]]]

(* The message in a packet; ok is FALSE when it is broken.  At most 32     *)
(* questions and answers are looked at.                                    *)
Fewer(n) == IF n > MaxRecords THEN MaxRecords ELSE n
mg_parse_dns(pkt) ==
    LET Records(s, count, reply, field) ==
            ForUp(s, 1, count, LAMBDA t, i :
                IF ~ t.ok THEN t
                ELSE With(mg_parse_dns_resource_record(pkt, t.at, reply), LAMBDA r :
                          IF r.next = -1 THEN [t EXCEPT !.ok = FALSE]
                          ELSE [t EXCEPT !.at = r.next, ![field] = Append(@, r.rr)]))
    IN  IF Len(pkt) < Header THEN [ok |-> FALSE]
        ELSE With([ok |-> TRUE, at |-> Header, pkt |-> pkt, transaction_id |-> SubSeq(pkt, 1, 2), flags |-> At16(pkt, 2),
                   num_questions |-> Fewer(At16(pkt, 4)), num_answers |-> Fewer(At16(pkt, 6)), questions |-> << >>, answers |-> << >>],
                  LAMBDA s : With(Records(s, s.num_questions, FALSE, "questions"), LAMBDA q : Records(q, s.num_answers, TRUE, "answers")))

(* The name a place of the packet stands for, in at most dst_len bytes;    *)
(* << >> when it leaves the packet.  Pointers do not go round in circles.  *)
mg_dns_uncompress_name(msg, name, dst_len) ==
    LET end == Len(msg.pkt)
        Stop(s, dst) == [s EXCEPT !.on = FALSE, !.dst = dst]
        Step(s, i) ==
            LET chunk_len == At(msg.pkt, s.at)
                data == s.at + 1
                leeway == dst_len - Len(s.dst)
                n == IF chunk_len > leeway THEN leeway ELSE chunk_len
                label == SubSeq(msg.pkt, data + 1, data + n)
            IN  CASE ~ s.on -> s
                  [] s.on /\ chunk_len = 0 -> Stop(s, First(s.dst, Len(s.dst) - 1))
                  [] s.on /\ chunk_len # 0 /\ data >= end -> Stop(s, << >>)
                  [] s.on /\ chunk_len >= 64 /\ data < end ->
                        With(256 * (chunk_len % 64) + At(msg.pkt, data), LAMBDA off :
                             IF off >= end THEN Stop(s, << >>) ELSE [s EXCEPT !.at = off])
                  [] s.on /\ chunk_len \in 1 .. 63 /\ data < end ->
                        CASE data + n >= end -> Stop(s, << >>)
                          [] data + n < end /\ n = leeway -> Stop(s, s.dst \o label)
                          [] OTHER -> [s EXCEPT !.at = data + n, !.dst = Append(s.dst \o label, 46)]
    IN  IF name.at >= end THEN << >> ELSE ForUp([on |-> TRUE, at |-> name.at, dst |-> << >>], 1, end + 1, Step).dst

(* The address or name an answer holds; a name that leaves the packet is   *)
(* no failure, only without use (what is left in the buffer is not         *)
(* modelled).                                                              *)
mg_dns_parse_record_data(msg, rr, data_len) ==
    CASE rr.rtype = A_RECORD /\ data_len >= 4 /\ rr.rdata.at + data_len <= Len(msg.pkt) ->
            [ret |-> 0, data |-> SubSeq(msg.pkt, rr.rdata.at + 1, rr.rdata.at + data_len)]
      [] rr.rtype = CNAME_RECORD -> [ret |-> 0, data |-> mg_dns_uncompress_name(msg, rr.rdata, data_len)]
      [] OTHER -> [ret |-> -1, data |-> << >>]

(* The next answer of a type behind the answer prev, 0 when there is none. *)
mg_dns_next_record(msg, query, prev) ==
    LET those == {i \in prev + 1 .. msg.num_answers : msg.answers[i].rtype = query} IN
    IF those = {} THEN 0 ELSE CHOOSE i \in those : \A j \in those : i <= j

-----------------------------------------------------------------------------
(* A server.  A broken message is sent back behind a header that says so   *)
(* and names no transaction; else the handler gets it.                     *)
dns_handler(recv_mbuf, udp) ==
    LET io == IF udp THEN recv_mbuf ELSE From(recv_mbuf, 3)
        error == mg_dns_insert_header(io, 0, [transaction_id |-> <<0, 0>>, flags |-> 32897, num_questions |-> 0, num_answers |-> 0])
    IN  With(mg_parse_dns(io), LAMBDA msg :
             IF msg.ok THEN [msg |-> msg, sent |-> << >>] ELSE [msg |-> msg, sent |-> IF udp THEN error ELSE U16(Len(error)) \o error])

(* A reply in a buffer, behind what it holds.                              *)
Allowed(flags) == flags + (IF (flags \div 32768) % 2 = 1 THEN 0 ELSE 32768) + IF (flags \div 128) % 2 = 1 THEN 0 ELSE 128
mg_dns_create_reply(io, msg) ==
    [msg |-> [msg EXCEPT !.flags = Allowed(@), !.num_answers = 0], io |-> mg_dns_copy_questions(io, msg), start |-> Len(io)]

(* An answer with the name given, or the question's; none behind the 32nd. *)
(* (Names are short enough: what one with a label of more than 127 bytes   *)
(* leaves in the buffer is not modelled.)                                  *)
mg_dns_reply_record(reply, question, name, rtype, ttl, rdata) ==
    LET asked == IF name = << >> THEN mg_dns_uncompress_name(reply.msg, question.name, 511) ELSE name
        record == mg_dns_encode_record([kind |-> "answer", rtype |-> rtype, rclass |-> question.rclass, ttl |-> ttl], asked, rdata)
    IN  IF reply.msg.num_answers >= MaxRecords \/ record = << >> THEN reply
        ELSE [reply EXCEPT !.io = @ \o record, !.msg.num_answers = @ + 1]

(* What is sent, and what stays in the buffer: all of it in the send       *)
(* buffer of the connection, nothing in another one.  The length in front  *)
(* of what is not a datagram leaves out the header.                        *)
mg_dns_send_reply(reply, udp, own) ==
    With(mg_dns_insert_header(reply.io, reply.start, reply.msg), LAMBDA io :
    With(IF udp THEN io ELSE SubSeq(io, 1, reply.start) \o U16(Len(reply.io) - reply.start) \o From(io, reply.start + 1), LAMBDA out :
         [sent |-> From(out, reply.start + 1), io |-> IF own THEN out ELSE SubSeq(out, 1, reply.start)]))

-----------------------------------------------------------------------------
(* The name server is the first the system lists, and Google's when it     *)
(* lists none; a name in the hosts file is not asked for.  A line is what  *)
(* sscanf makes of it.                                                     *)
mg_get_ip_address_of_nameserver(lines) ==
    LET those == {i \in DOMAIN lines : lines[i].kind = "nameserver"} IN
    IF those = {} THEN <<8, 8, 8, 8>> ELSE lines[CHOOSE i \in those : \A j \in those : i <= j].ip
mg_resolve_from_hosts_file(lines, name) ==
    LET those == {i \in DOMAIN lines : lines[i].kind = "host" /\ \E k \in DOMAIN lines[i].aliases : lines[i].aliases[k] = name} IN
    IF those = {} THEN << >> ELSE lines[CHOOSE i \in those : \A j \in those : i <= j].ip

(* Numbers, each but the last followed by its separator: how many bytes    *)
(* they take, 0 when one of them is missing.                               *)
Digits(s, i) == LET end == {j \in i .. Len(s) + 1 : j = Len(s) + 1 \/ s[j] \notin 48 .. 57} IN (CHOOSE j \in end : \A k \in end : j <= k) - i
Numbers(s, at, seps) ==
    ForUp([len |-> at, values |-> << >>, ok |-> TRUE], 0, Len(seps), LAMBDA t, i :
        LET there == i = 0 \/ (t.len < Len(s) /\ s[t.len + 1] = seps[i])
            from == IF i = 0 THEN t.len ELSE t.len + 1
            n == Digits(s, from + 1)
        IN  IF ~ t.ok \/ ~ there \/ n = 0 THEN [t EXCEPT !.ok = FALSE]
            ELSE [t EXCEPT !.len = from + n,
                           !.values = Append(@, ForUp(0, from + 1, from + n, LAMBDA v, j : 10 * v + s[j] - 48))])

(* [PROTO://][HOST]:PORT.  A name that is not in the hosts file has to be  *)
(* asked for, which is 0, and then the port is not looked at; localhost is *)
(* not asked for.  Without addresses of 128 bits, as built.                *)
udp_scheme == <<117, 100, 112, 58, 47, 47>>
tcp_scheme == <<116, 99, 112, 58, 47, 47>>
localhost == <<108, 111, 99, 97, 108, 104, 111, 115, 116>>
mg_parse_address(text, hosts, host_len) ==
    LET udp == First(text, 6) = udp_scheme
        str == IF udp \/ First(text, 6) = tcp_scheme THEN From(text, 7) ELSE text
        ends == {i \in 1 .. Len(str) + 1 : i = Len(str) + 1 \/ str[i] \in {32, 58}}
        host == SubSeq(str, 1, (CHOOSE i \in ends : \A j \in ends : i <= j) - 1)
        ip == Numbers(str, 0, <<46, 46, 46, 58>>)
        named == IF host # << >> /\ Len(str) < host_len /\ Len(str) > Len(host) /\ str[Len(host) + 1] = 58
                 THEN Numbers(str, Len(host) + 1, << >>) ELSE [ok |-> FALSE]
        colon == IF str # << >> /\ str[1] = 58 THEN Numbers(str, 1, << >>) ELSE [ok |-> FALSE]
        alone == Numbers(str, 0, << >>)
        known == mg_resolve_from_hosts_file(hosts, host)
        Result(ret, addr, port, name) == [ret |-> ret, udp |-> udp, ip |-> addr, port |-> port % 65536, host |-> name]
        Whole(n, addr, port, name) ==
            Result(IF port < 65535 /\ (n.len = Len(str) \/ str[n.len + 1] \in {44, 32, 9, 10, 13}) THEN n.len ELSE -1, addr, port, name)
    IN  CASE ip.ok -> Whole(ip, SubSeq(ip.values, 1, 4), ip.values[5], << >>)
          [] ~ ip.ok /\ named.ok ->
                CASE known # << >> -> Whole(named, known, named.values[1], host)
                  [] known = << >> /\ LowerAll(First(host, 9)) = localhost -> Result(-1, << >>, named.values[1], host)
                  [] OTHER -> Result(0, << >>, named.values[1], host)
          [] ~ ip.ok /\ ~ named.ok /\ colon.ok -> Whole(colon, <<0, 0, 0, 0>>, colon.values[1], << >>)
          [] ~ ip.ok /\ ~ named.ok /\ ~ colon.ok /\ alone.ok -> Whole(alone, <<0, 0, 0, 0>>, alone.values[1], << >>)
          [] OTHER -> Result(-1, << >>, 0, << >>)
=============================================================================
