--------------------------- MODULE MongooseMessages ----------------------------
(***************************************************************************)
(* The messages of mongoose.c's MQTT, CoAP and SNTP: what is written, what *)
(* is read back, and the broker.  Texts are bytes; a place and a length    *)
(* stand for a string of the receive buffer; << >> and <<text>> for a      *)
(* string that may be missing.                                             *)
(***************************************************************************)
EXTENDS MongooseDns
LOCAL INSTANCE FiniteSets
LOCAL INSTANCE TLC

Concat(parts) == ForUp(<< >>, 1, Len(parts), LAMBDA t, i : t \o parts[i])
Text(pkt, s) == SubSeq(pkt, s.at + 1, s.at + s.len)
Bit(n, b) == (n \div b) % 2 = 1
With1(n, b) == IF Bit(n, b) THEN n ELSE n + b

-----------------------------------------------------------------------------
(* MQTT, writing.                                                          *)
CONNECT == 1
CONNACK == 2
PUBLISH == 3
SUBSCRIBE == 8
SUBACK == 9
UNSUBSCRIBE == 10
HAS_WILL == 4
HAS_PASSWORD == 64
HAS_USER_NAME == 128
MG_MQTT_QOS(qos) == 2 * qos
MG_MQTT_GET_QOS(flags) == (flags \div 2) % 4
Counted(s) == U16(Len(s)) \o s

LengthDigits(len) ==
    ForUp([left |-> len, out |-> << >>, on |-> TRUE], 1, 4, LAMBDA d, i :
        IF ~ d.on THEN d
        ELSE [left |-> d.left \div 128, out |-> Append(d.out, (d.left % 128) + IF d.left >= 128 THEN 128 ELSE 0), on |-> d.left >= 128]).out

(* The header goes in front of the last len bytes of the send buffer.      *)
mg_mqtt_prepend_header(send, cmd, flags, len) ==
    LET off == Len(send) - len IN
    First(send, off) \o <<16 * cmd + flags>> \o LengthDigits(len) \o From(send, off + 1)
Message(send, cmd, flags, body) == mg_mqtt_prepend_header(send \o body, cmd, flags, Len(body))

mg_mqtt_publish(send, topic, message_id, flags, data) ==
    Message(send, PUBLISH, flags,
            Counted(topic) \o (IF MG_MQTT_GET_QOS(flags) > 0 THEN U16(message_id) ELSE << >>) \o data)
mg_mqtt_subscribe(send, topics, message_id) ==
    Message(send, SUBSCRIBE, MG_MQTT_QOS(1),
            U16(message_id) \o Concat([i \in DOMAIN topics |-> Append(Counted(topics[i].topic), topics[i].qos)]))
mg_mqtt_unsubscribe(send, topics, message_id) ==
    Message(send, UNSUBSCRIBE, MG_MQTT_QOS(1), U16(message_id) \o Concat([i \in DOMAIN topics |-> Counted(topics[i])]))
mg_mqtt_connack(send, return_code) == Message(send, CONNACK, 0, <<0, return_code>>)
mg_send_mqtt_short_command(send, cmd, message_id) == Message(send, cmd, MG_MQTT_QOS(1), U16(message_id))
mg_mqtt_suback(send, qoss, message_id) == Message(send, SUBACK, MG_MQTT_QOS(1), U16(message_id) \o qoss)
Empty(send, cmd) == mg_mqtt_prepend_header(send, cmd, 0, 0)      \* ping, pong, disconnect

(* The length has one byte: from 128 bytes on nobody can read it.          *)
mg_send_mqtt_handshake_opt(client_id, opts) ==
    LET Given(s) == Concat([i \in DOMAIN s |-> Counted(s[i])])
        will == IF opts.will_topic # << >> /\ opts.will_message # << >> THEN opts.will_topic \o opts.will_message ELSE << >>
        F1(f) == IF opts.user_name # << >> THEN With1(f, HAS_USER_NAME) ELSE f
        F2(f) == IF opts.password # << >> THEN With1(f, HAS_PASSWORD) ELSE f
        F3(f) == IF will # << >> THEN With1(f, HAS_WILL) ELSE f
        body == Counted(<<77, 81, 73, 115, 100, 112>>) \o <<3, F3(F2(F1(opts.flags)))>>
                \o U16(IF opts.keep_alive = 0 THEN 60 ELSE opts.keep_alive)
                \o Counted(client_id) \o Given(will) \o Given(opts.user_name) \o Given(opts.password)
    IN  <<16 * CONNECT, Len(body) % 256>> \o body

(* MQTT, reading.  A message is taken for whole when its last byte is      *)
(* still missing; what is behind the buffer is read then, stale.           *)
scanto(pkt, p) == [s |-> [at |-> p + 2, len |-> At16(pkt, p)], next |-> p + 2 + At16(pkt, p)]
NoString == [at |-> 0, len |-> 0]
LengthSize(io) == CHOOSE k \in 1 .. 4 : ~ Bit(At(io, k), 128) /\ \A j \in 1 .. k - 1 : Bit(At(io, j), 128)
parse_mqtt(io, stale) ==
    LET pkt == Append(io, stale)
        header == At(io, 0)
        cmd == header \div 16
        k == LengthSize(pkt)
        p == 1 + k
        end == p + ForUp(0, 1, k, LAMBDA n, i : n + (At(pkt, i) % 128) * 128 ^ (i - 1))
        base == [len |-> end, pkt |-> pkt, cmd |-> cmd, qos |-> MG_MQTT_GET_QOS(header)]
        Id(at) == base @@ [message_id |-> At16(pkt, at)]
        (* The strings behind the fixed part, each if it was announced.    *)
        connect == With(scanto(pkt, p), LAMBDA name :
            LET q == name.next
                flags == At(pkt, q + 1)
                Strings == ForUp([p |-> q + 4, all |-> << >>], 1, 5, LAMBDA t, i :
                    IF t.p < end /\ (i = 1 \/ Bit(flags, <<0, HAS_WILL, HAS_WILL, HAS_USER_NAME, HAS_PASSWORD>>[i]))
                    THEN With(scanto(pkt, t.p), LAMBDA s : [p |-> s.next, all |-> Append(t.all, s.s)])
                    ELSE [t EXCEPT !.all = Append(@, NoString)])
            IN  base @@ [protocol_name |-> name.s, protocol_version |-> At(pkt, q), connect_flags |-> flags,
                         keep_alive_timer |-> At16(pkt, q + 2), strings |-> Strings.all])
        published == LET q == IF MG_MQTT_GET_QOS(header) > 0 THEN p + 2 ELSE p IN
            With(scanto(pkt, q), LAMBDA t :
                 (IF q > p THEN Id(p) ELSE base) @@ [topic |-> t.s, payload |-> [at |-> t.next, len |-> end - t.next]])
    IN  IF Len(io) < 2 \/ end > Len(io) + 1 THEN [len |-> -1]
        ELSE CASE cmd = CONNECT -> connect
               [] cmd = CONNACK -> base @@ [connack_ret_code |-> At(pkt, p + 1)]
               [] cmd \in 4 .. 7 \cup {SUBACK} -> Id(p)
               [] cmd = PUBLISH -> published
               [] cmd = SUBSCRIBE -> Id(p) @@ [payload |-> [at |-> p + 2, len |-> end - p - 2]]
               [] OTHER -> base

(* Topics of a subscription, one by one: pos is -1 behind the last.        *)
mg_mqtt_next_subscribe_topic(mm, pos) ==
    LET at == mm.payload.at + pos IN
    IF pos >= mm.payload.len THEN [pos |-> -1]
    ELSE With(At16(mm.pkt, at), LAMBDA n :
              [topic |-> [at |-> at + 2, len |-> n], qos |-> At(mm.pkt, at + 2 + n), pos |-> pos + 2 + n + 1])
Topics(mm) ==
    ForUp([pos |-> 0, all |-> << >>], 1, 4, LAMBDA t, i :
        IF t.pos = -1 THEN t
        ELSE With(mg_mqtt_next_subscribe_topic(mm, t.pos), LAMBDA n :
                  IF n.pos = -1 THEN [t EXCEPT !.pos = -1]
                  ELSE [pos |-> n.pos, all |-> Append(t.all, [topic |-> n.topic, qos |-> n.qos])])).all

(* One message for every time something came in; it stays in the buffer    *)
(* when it is longer than that.                                            *)
mqtt_handler(io, stale) ==
    With(parse_mqtt(io, stale), LAMBDA mm :
         IF mm.len = -1 THEN [events |-> << >>, io |-> io]
         ELSE [events |-> <<mm>>, io |-> IF mm.len <= Len(io) THEN From(io, mm.len + 1) ELSE io])

-----------------------------------------------------------------------------
(* The broker: its sessions, the last first; what it sends, by connection. *)
mg_mqtt_broker_init == [sessions |-> << >>, sent |-> << >>]
Sent(b, nc, bytes) == [b EXCEPT !.sent = Append(@, [nc |-> nc, bytes |-> bytes])]

mg_mqtt_close_session(b, nc) == [b EXCEPT !.sessions = SelectSeq(@, LAMBDA s : s.nc # nc)]

mg_mqtt_broker_handle_connect(b, nc) ==
    Sent([b EXCEPT !.sessions = <<[nc |-> nc, subscriptions |-> << >>]>> \o @], nc, mg_mqtt_connack(<< >>, 0))

(* A session subscribes once: the memory of a second subscription is made  *)
(* too small.  (With QoS 0: else the byte behind a topic's text is not 0.) *)
mg_mqtt_broker_handle_subscribe(b, nc, mm) ==
    LET all == Topics(mm) IN
    Sent([b EXCEPT !.sessions = [i \in DOMAIN @ |-> IF @[i].nc # nc THEN @[i] ELSE
             [@[i] EXCEPT !.subscriptions = @ \o [j \in DOMAIN all |-> Text(mm.pkt, all[j].topic)]]]],
         nc, mg_mqtt_suback(<< >>, [j \in DOMAIN all |-> all[j].qos], mm.message_id))

(* "#" means anything in place of itself and of the byte before it: "#"    *)
(* alone is compared with all of the topic.  A topic shorter than what is  *)
(* subscribed to is read on behind its end.                                *)
mg_mqtt_match_topic_expression(exp, mm) ==
    LET wild == \E i \in DOMAIN exp : exp[i] = 35
        n == IF ~ wild THEN Len(exp) ELSE IF Len(exp) < 2 \/ mm.topic.len < Len(exp) - 2 THEN mm.topic.len ELSE Len(exp) - 2
    IN  First(From(mm.pkt, mm.topic.at + 1), n) = First(exp, n)

mg_mqtt_broker_handle_publish(b, mm) ==
    ForUp(b, 1, Len(b.sessions), LAMBDA k, i :
        IF \E j \in DOMAIN b.sessions[i].subscriptions : mg_mqtt_match_topic_expression(b.sessions[i].subscriptions[j], mm)
        THEN Sent(k, b.sessions[i].nc, mg_mqtt_publish(<< >>, Text(mm.pkt, mm.topic), 0, 0, Text(mm.pkt, mm.payload)))
        ELSE k)

mg_mqtt_broker(b, nc, mm) ==
    CASE mm.cmd = CONNECT -> mg_mqtt_broker_handle_connect(b, nc)
      [] mm.cmd = SUBSCRIBE -> mg_mqtt_broker_handle_subscribe(b, nc, mm)
      [] mm.cmd = PUBLISH -> mg_mqtt_broker_handle_publish(b, mm)
      [] OTHER -> b

-----------------------------------------------------------------------------
(* CoAP.  An option is [number, value]; the list stays in order.           *)
mg_coap_add_option(options, number, value) ==
    LET n == Cardinality({i \in DOMAIN options : options[i].number <= number})
        new == [number |-> number, value |-> value]
    IN  SubSeq(options, 1, n) \o <<new>> \o From(options, n + 1)

coap_get_ext_opt_size(value) == IF value \in 13 .. 268 THEN 1 ELSE IF value \in 269 .. 65804 THEN 2 ELSE 0
coap_split_opt(value) ==
    CASE value < 13 -> [base |-> value, ext |-> << >>]
      [] value \in 13 .. 268 -> [base |-> 13, ext |-> <<value - 13>>]
      [] OTHER -> [base |-> 14, ext |-> U16(value - 269)]

(* What is wrong with a message, or its size.                              *)
Deltas(options) == [i \in DOMAIN options |-> options[i].number - IF i = 1 THEN 0 ELSE options[i - 1].number]
coap_calculate_packet_size(cm) ==
    LET Size(i) == 1 + coap_get_ext_opt_size(Deltas(cm.options)[i]) + coap_get_ext_opt_size(Len(cm.options[i].value)) + Len(cm.options[i].value)
        Wrong(i) == \/ i < Len(cm.options) /\ cm.options[i].number > cm.options[i + 1].number
                    \/ Len(cm.options[i].value) > 65804 \/ Deltas(cm.options)[i] > 65804
        Result(err) == [err |-> err, len |-> 0]
    IN  CASE cm.msg_type > 3 -> Result("MSG_TYPE")
          [] cm.msg_type <= 3 /\ Len(cm.token) > 8 -> Result("TOKEN")
          [] cm.msg_type <= 3 /\ Len(cm.token) <= 8 /\ cm.code_class > 7 -> Result("CODE_CLASS")
          [] cm.msg_type <= 3 /\ Len(cm.token) <= 8 /\ cm.code_class <= 7 /\ cm.code_detail > 31 -> Result("CODE_DETAIL")
          [] OTHER -> IF \E i \in DOMAIN cm.options : Wrong(i) THEN Result("OPTIONS")
                      ELSE [err |-> "", len |-> 4 + Len(cm.token) + (IF cm.payload = << >> THEN 0 ELSE Len(cm.payload) + 1)
                                                + ForUp(0, 1, Len(cm.options), LAMBDA n, i : n + Size(i))]

mg_coap_compose(cm, io) ==
    LET Option(i) == With(coap_split_opt(Deltas(cm.options)[i]), LAMBDA d : With(coap_split_opt(Len(cm.options[i].value)), LAMBDA l :
                          <<16 * d.base + l.base>> \o d.ext \o l.ext \o cm.options[i].value))
        bytes == <<64 + 16 * cm.msg_type + Len(cm.token), 32 * cm.code_class + cm.code_detail>> \o U16(cm.msg_id) \o cm.token
                 \o Concat([i \in DOMAIN cm.options |-> Option(i)]) \o (IF cm.payload = << >> THEN << >> ELSE <<255>> \o cm.payload)
    IN  With(coap_calculate_packet_size(cm), LAMBDA s :
             IF s.err # "" THEN [err |-> s.err, io |-> io] ELSE [err |-> "", io |-> io \o bytes])
mg_coap_send_ack(send, msg_id) ==
    mg_coap_compose([msg_type |-> 2, msg_id |-> msg_id, token |-> << >>, code_class |-> 0, code_detail |-> 0, options |-> << >>,
                     payload |-> << >>], send).io

(* Reading: cm with the flags of what was found and of what is wrong.      *)
Flagged(cm, f) == [cm EXCEPT !.flags = @ \cup f]
NOT_ENOUGH_DATA == {"ERROR", "NOT_ENOUGH"}
FORMAT_ERROR == {"ERROR", "FORMAT"}
IGNORE == {"ERROR", "IGNORED"}
NoMessage == [flags |-> {}, msg_type |-> 0, msg_id |-> 0, code_class |-> 0, code_detail |-> 0, token |-> << >>, options |-> << >>,
              payload |-> << >>]
coap_parse_header(io) ==
    LET first == At(io, 0)
        typed == Flagged([NoMessage EXCEPT !.msg_type = (first \div 16) % 4], {"MSG_TYPE"})
        code == At(io, 1)
    IN  CASE Len(io) < 4 -> Flagged(NoMessage, NOT_ENOUGH_DATA)
          [] Len(io) >= 4 /\ first \div 64 # 1 -> Flagged(NoMessage, IGNORE)
          [] Len(io) >= 4 /\ first \div 64 = 1 /\ first % 16 > 8 -> Flagged(typed, FORMAT_ERROR)
          [] OTHER -> Flagged([typed EXCEPT !.code_class = code \div 32, !.code_detail = code % 32, !.msg_id = At16(io, 2)],
                              {"CODE_CLASS", "CODE_DETAIL", "MSG_ID"})
(* A number of 13 or 14 is continued in one or two bytes.                  *)
coap_get_ext_opt(io, p, info) ==
    CASE info = 13 -> IF p < Len(io) THEN [size |-> 1, value |-> At(io, p) + 13] ELSE [size |-> -1]
      [] info = 14 -> IF p + 1 < Len(io) THEN [size |-> 2, value |-> (At16(io, p) + 269) % 65536] ELSE [size |-> -1]
      [] OTHER -> [size |-> 0, value |-> info]
coap_get_options(io, from, cm) ==
    LET end == Len(io)
        Fails(s, f) == [s EXCEPT !.on = FALSE, !.cm = Flagged(@, f)]
        One(s) ==
            With(coap_get_ext_opt(io, s.p + 1, At(io, s.p) \div 16), LAMBDA delta :
            IF delta.size = -1 THEN Fails(s, NOT_ENOUGH_DATA)
            ELSE With(coap_get_ext_opt(io, s.p + 1 + delta.size, At(io, s.p) % 16), LAMBDA length :
            LET p == s.p + 1 + delta.size + length.size
                number == (delta.value + s.prev) % 65536
            IN  IF length.size = -1 \/ p + length.value > end THEN Fails(s, NOT_ENOUGH_DATA)
                ELSE [s EXCEPT !.p = p + length.value, !.prev = number,
                               !.cm.options = mg_coap_add_option(@, number, SubSeq(io, p + 1, p + length.value))]))
        all == ForUp([on |-> TRUE, p |-> from, prev |-> 0, cm |-> cm], from, end, LAMBDA s, i :
                   IF ~ s.on \/ s.p >= end \/ At(io, s.p) = 255 THEN s
                   ELSE IF 15 \in {At(io, s.p) \div 16, At(io, s.p) % 16} THEN Fails(s, FORMAT_ERROR)
                   ELSE One(s))
    IN  IF from = end THEN [p |-> end, cm |-> cm]
        ELSE With(all, LAMBDA s :
                  IF "ERROR" \in s.cm.flags THEN [p |-> end, cm |-> [s.cm EXCEPT !.options = << >>]]
                  ELSE [p |-> IF s.p = end THEN end ELSE s.p + 1, cm |-> Flagged(s.cm, {"OPTIONS"})])
mg_coap_parse(io) ==
    With(coap_parse_header(io), LAMBDA h :
    LET n == At(io, 0) % 16 IN
    IF "ERROR" \in h.flags THEN h
    ELSE IF 4 + n > Len(io) THEN Flagged(h, NOT_ENOUGH_DATA)
    ELSE With(coap_get_options(io, 4 + n, IF n = 0 THEN h ELSE Flagged([h EXCEPT !.token = SubSeq(io, 5, 4 + n)], {"TOKEN"})), LAMBDA o :
              IF o.p = Len(io) THEN o.cm ELSE Flagged([o.cm EXCEPT !.payload = From(io, o.p + 1)], {"PAYLOAD"})))

(* Every error has the bit that means a message is to be ignored.          *)
coap_handler(io) ==
    With(mg_coap_parse(io), LAMBDA cm : IF cm.flags \cap IGNORE = {} THEN <<cm>> ELSE << >>)

-----------------------------------------------------------------------------
(* SNTP.  Times are in eighths of a second, those of a packet since 1900.  *)
SNTP_TIME_OFFSET == 80       \* stands for the seconds from 1900 to 1970, in eighths
SNTP_ATTEMPTS == 3
mg_sntp_send_request(now) == [hdr |-> 227, stratum |-> 0, t1 |-> 0, t2 |-> 0, t3 |-> 8 * (now \div 8) + SNTP_TIME_OFFSET]

(* The way there and back, nothing if the server's clock went back or is   *)
(* slower than that.  (This clock does not go back.)                       *)
mg_calculate_delay(now, t1, t2, t3) ==
    LET d1 == now + SNTP_TIME_OFFSET - t1
        d2 == t3 - t2
    IN  IF d2 >= 0 /\ d1 > d2 THEN d1 - d2 ELSE 0
mg_sntp_parse_reply(buf, len, now) ==
    IF len < 48 \/ (buf.hdr \div 8) % 8 # 4 \/ buf.hdr % 8 \notin {4, 5} THEN [ok |-> FALSE]
    ELSE [ok |-> TRUE, kiss_of_death |-> buf.stratum = 0,
          time |-> buf.t3 - SNTP_TIME_OFFSET + mg_calculate_delay(now, buf.t1, buf.t2, buf.t3)]

(* The address a name means: by UDP, on port 123 if it names none.         *)
mg_sntp_connect(name) ==
    LET Colon2(from) == {i \in from .. Len(name) : name[i] = Colon}
        first == CHOOSE i \in Colon2(1) : \A j \in Colon2(1) : i <= j
        rest == IF Colon2(1) # {} /\ first < Len(name) /\ name[first + 1] = 47 THEN Colon2(first + 1) ELSE Colon2(1)
    IN  (IF First(name, 6) = udp_scheme THEN << >> ELSE udp_scheme) \o name \o IF rest = {} THEN <<58, 49, 50, 51>> ELSE << >>

(* The connection of mg_sntp_get_time, c = [count, timer, flags, sent,     *)
(* told], in seconds.                                                      *)
mg_sntp_util_ev_handler(c, ev, ok, now) ==
    LET Fails == [c EXCEPT !.told = Append(@, "failed"), !.closing = TRUE] IN
    CASE ev = "connect" /\ ~ ok -> [Fails EXCEPT !.closing = c.closing]
      [] (ev = "connect" /\ ok) \/ ev = "timer" ->
            IF c.count <= SNTP_ATTEMPTS THEN [c EXCEPT !.sent = Append(@, now), !.timer = now + 10, !.count = @ + 1] ELSE Fails
      [] ev = "malformed" -> Fails
      [] ev = "reply" -> [c EXCEPT !.told = Append(@, "reply"), !.closing = TRUE]
      [] OTHER -> c
=============================================================================
