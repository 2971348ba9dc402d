----------------------------- MODULE MongooseNet ------------------------------
(***************************************************************************)
(* The event manager of mongoose.c: its connections, what select shows of  *)
(* their sockets, the events they tell their handlers, and the resolver,   *)
(* whose connection asks for an address another connection waits for.      *)
(*                                                                         *)
(* A manager is a record.  Connections are the positions of m.c; those     *)
(* that are polled are in m.conns, the last added first.  m.told is what   *)
(* the handlers of the program heard, polls apart; m.wire what was sent,   *)
(* by socket.  A world w says what the system does during one poll.        *)
(* A connection is stale when the memory of its recv_mbuf was freed before *)
(* it came by it; m.twice says that some memory was freed twice.           *)
(* Without TLS, tunnels and lwIP's own interface, as built.                *)
(***************************************************************************)
EXTENDS Integers
LOCAL INSTANCE Sequences
LOCAL INSTANCE Loops

NoRequest == [pending |-> FALSE, for |-> 0, last_time |-> 0, retries |-> 0, err |-> "ok"]
max_retries == 2
timeout == 5
Modifiable == {"SEND_AND_CLOSE", "CLOSE_IMMEDIATELY"}     \* _MG_CALLBACK_MODIFIABLE_FLAGS_MASK

mg_create_connection_base(handler) ==
    [handler |-> handler, flags |-> {}, listener |-> 0, sock |-> 0, err |-> 0, sa |-> 0, recv |-> 0, stale |-> FALSE, send |-> 0,
     ev_timer_time |-> 0, priv_2 |-> 0, req |-> NoRequest, freed |-> FALSE]
mg_mgr_init(plan) == [conns |-> << >>, c |-> << >>, now |-> 1, plan |-> plan, told |-> << >>, wire |-> << >>,
                      queries |-> << >>, socks |-> 0, open |-> {}, twice |-> FALSE]

Created(m, conn) == [m EXCEPT !.c = Append(@, conn)]
mg_add_conn(m, id) == [m EXCEPT !.conns = <<id>> \o @]
mg_remove_conn(m, id) == [m EXCEPT !.conns = SelectSeq(@, LAMBDA i : i # id)]
Opened(m, id) == [m EXCEPT !.socks = @ + 1, !.open = @ \cup {m.socks + 1}, !.c[id].sock = m.socks + 1]
Added(n) == IF n > 0 THEN n ELSE 0          \* mbuf_append refuses what its length cannot be
mg_send(m, id, n) == [m EXCEPT !.c[id].send = @ + Added(n)]

-----------------------------------------------------------------------------
(* Events.  The handlers of the program do what its plan says.             *)
User(m, id, ev, arg) ==
    LET Marked(f) == [m EXCEPT !.c[id].flags = @ \cup {f}] IN
    CASE ev = "connect" /\ arg = 0 /\ m.plan.greets > 0 -> mg_send(m, id, m.plan.greets)
      [] ev = "recv" /\ m.plan.after = "close" -> Marked("SEND_AND_CLOSE")
      [] ev = "recv" /\ m.plan.after = "answer" -> mg_send(m, id, arg)
      [] ev = "recv" /\ m.plan.after = "keep" ->
            [mg_send(m, id, arg) EXCEPT !.c[id].flags = @ \ {"SEND_AND_CLOSE"}]
      [] ev = "timer" -> Marked("CLOSE_IMMEDIATELY")
      [] OTHER -> m

(* Only some flags can be changed by a handler.                            *)
Masked(before, m, id) ==
    [m EXCEPT !.c[id].flags = (before.c[id].flags \ Modifiable) \cup (@ \cap Modifiable)]
mg_call_user(m, id, ev, arg) ==
    Masked(m, User(IF ev = "poll" THEN m ELSE [m EXCEPT !.told = Append(@, <<id, ev, arg>>)], id, ev, arg), id)

(* The socket of a client, or of a listener, is closed; one a listener     *)
(* shares is not.                                                          *)
mg_socket_if_destroy_conn(m, id) ==
    IF m.c[id].sock = 0 THEN m
    ELSE [m EXCEPT !.open = IF "UDP" \in m.c[id].flags /\ m.c[id].listener # 0 THEN @ ELSE @ \ {m.c[id].sock},
                   !.c[id].sock = 0]
mg_destroy_conn(m, id, destroy_if) ==
    With(IF destroy_if THEN mg_socket_if_destroy_conn(m, id) ELSE m, LAMBDA n :
         [n EXCEPT !.c[id].freed = TRUE, !.twice = @ \/ m.c[id].stale])

(* There may be no socket left for it: then the next poll says so.         *)
mg_do_connect(m, id, socket) ==
    With([m EXCEPT !.c[id].flags = @ \cup {"CONNECTING"}, !.c[id].err = IF socket = "ok" THEN 0 ELSE 1], LAMBDA n :
         mg_add_conn(IF socket = "ok" THEN Opened(n, id) ELSE n, id))

(* The connection whose address was asked for: it connects, or it is told  *)
(* that it could not, and is gone.                                         *)
resolve_cb(m, id, answers, e, socket) ==
    LET resolved == [m EXCEPT !.c[id].flags = @ \ {"RESOLVING"}]
        warned == IF e = "timeout" THEN mg_call_user(resolved, id, "timer", 0) ELSE resolved
    IN  IF \E i \in DOMAIN answers : answers[i] = "A" THEN mg_do_connect(resolved, id, socket)
        ELSE mg_destroy_conn(mg_call_user(mg_call_user(warned, id, "connect", -1), id, "close", 0), id, TRUE)

-----------------------------------------------------------------------------
(* The resolver.  The answer to the last query is not waited for: the next *)
(* poll finds one retry too many and gives up.                             *)
mg_send_dns_query(m, id) == [mg_send(m, id, 1) EXCEPT !.queries = Append(@, m.now)]
Closing(m, id) == [m EXCEPT !.c[id].flags = @ \cup {"CLOSE_IMMEDIATELY"}]
Finished(m, id, answers, socket) ==
    LET req == m.c[id].req IN
    [resolve_cb(m, req.for, answers, req.err, socket) EXCEPT !.c[id].req = NoRequest]

(* Slip: a request that is not done is forgotten with its connection.      *)
mg_resolve_async_ehForgets(m, id, ev, arg, socket) ==
    IF ev = "close" THEN m
    ELSE IF ev = "recv" /\ m.c[id].req.pending /\ Len(arg) > 0 THEN Closing(Finished(m, id, arg, socket), id)
    ELSE m

mg_resolve_async_eh(m, id, ev, arg, socket) ==
    LET req == m.c[id].req IN
    CASE ~ req.pending -> m
      [] req.pending /\ ev \in {"connect", "poll"} ->
            IF req.retries > max_retries THEN [Closing(m, id) EXCEPT !.c[id].req.err = "exceeded"]
            ELSE IF ev = "connect" \/ m.now - req.last_time >= timeout
            THEN [mg_send_dns_query(m, id) EXCEPT !.c[id].req.last_time = m.now, !.c[id].req.retries = @ + 1]
            ELSE m
      [] req.pending /\ ev = "recv" ->
            Closing(IF Len(arg) > 0 THEN Finished(m, id, arg, socket) ELSE [m EXCEPT !.c[id].req.err = "no answers"], id)
      [] req.pending /\ ev = "send" -> [m EXCEPT !.c[id].flags = @ \ {"CLOSE_IMMEDIATELY"}, !.c[id].send = 0]
      [] req.pending /\ ev = "timer" -> [Closing(m, id) EXCEPT !.c[id].req.err = "timeout"]
      [] req.pending /\ ev = "close" -> Finished(m, id, << >>, socket)
      [] OTHER -> m

mg_call(m, id, ev, arg, socket) ==
    IF m.c[id].handler = "user" THEN mg_call_user(m, id, ev, arg)
    ELSE Masked(m, mg_resolve_async_eh(m, id, ev, arg, socket), id)

(* A request, on a UDP connection of its own to the name server; whose     *)
(* socket may be missing already.                                          *)
mg_resolve_async_opt(m, for, socket) ==
    With(mg_do_connect(Created(m, [mg_create_connection_base("resolver") EXCEPT !.flags = {"UDP"}]), Len(m.c) + 1, socket), LAMBDA n :
         [n EXCEPT !.c[Len(n.c)].req = [NoRequest EXCEPT !.pending = TRUE, !.for = for], !.c[for].priv_2 = Len(n.c),
                   !.c[for].flags = @ \cup {"RESOLVING"}])

(* Connecting to a name or a number, by TCP or UDP.                        *)
mg_connect_opt(m, host, proto, socket) ==
    With(Created(m, [mg_create_connection_base("user") EXCEPT !.flags = IF proto = "udp" THEN {"UDP"} ELSE {}]), LAMBDA n :
         IF host = "name" THEN mg_resolve_async_opt(n, Len(n.c), socket) ELSE mg_do_connect(n, Len(n.c), socket))

(* A connection whose address is being asked for is not polled: its timer  *)
(* is the resolver's, too.                                                 *)
mg_set_timer(m, id, t) ==
    LET set == [m EXCEPT !.c[id].ev_timer_time = t] IN
    IF "RESOLVING" \in m.c[id].flags /\ m.c[id].priv_2 # 0 THEN [set EXCEPT !.c[m.c[id].priv_2].ev_timer_time = t] ELSE set

(* A listener whose socket cannot be opened is gone again, unheard.        *)
mg_bind_opt(m, proto, socket) ==
    With(Created(m, [mg_create_connection_base("user") EXCEPT !.flags = {"LISTENING"} \cup IF proto = "udp" THEN {"UDP"} ELSE {}]),
         LAMBDA n : IF socket = "ok" THEN mg_add_conn(Opened(n, Len(n.c)), Len(n.c)) ELSE mg_destroy_conn(n, Len(n.c), TRUE))

-----------------------------------------------------------------------------
(* What came in: n bytes in memory that an empty recv_mbuf takes over.  Of *)
(* a datagram mg_recvfrom frees that memory if it is empty or could not be *)
(* received (n is 0 or -1), and hands it on.                               *)
mg_recv_common(m, id, n, arg, socket) ==
    LET adopts == m.c[id].recv = 0
        kept == [m EXCEPT !.twice = @ \/ IF adopts THEN m.c[id].stale ELSE n <= 0,
                          !.c[id].stale = IF adopts THEN n <= 0 ELSE @,
                          !.c[id].recv = IF adopts THEN n ELSE @ + Added(n)]
    IN  IF "CLOSE_IMMEDIATELY" \in m.c[id].flags THEN [m EXCEPT !.twice = @ \/ n <= 0]
        ELSE mg_call(kept, id, "recv", arg, socket)

(* A child of a listener begins with its properties.                       *)
Child(m, id, flags, sa) ==
    [mg_create_connection_base(m.c[id].handler) EXCEPT !.listener = id, !.flags = flags, !.sa = sa]
mg_accept_conn(m, id, sa) ==
    With(mg_add_conn(Created(m, Child(m, id, {}, sa)), Len(m.c) + 1), LAMBDA n :
         mg_call(Opened(n, Len(n.c)), Len(n.c), "accept", 0, "ok"))

(* A datagram goes to the connection its source has with the listener, or  *)
(* to a new one, which shares the socket and closes once it has answered.  *)
mg_if_recv_udp_cb(m, id, sa, n, arg, socket) ==
    LET those == {i \in 1 .. Len(m.conns) : m.c[m.conns[i]].sa = sa /\ m.c[m.conns[i]].listener = id}
        first == CHOOSE i \in those : \A j \in those : i <= j
        new == With(Created(m, [Child(m, id, {"UDP", "SEND_AND_CLOSE"}, sa) EXCEPT !.sock = m.c[id].sock]), LAMBDA k :
                    mg_call(mg_add_conn(k, Len(k.c)), Len(k.c), "accept", 0, socket))
    IN  IF "LISTENING" \notin m.c[id].flags THEN mg_recv_common(m, id, n, arg, socket)
        ELSE IF those # {} THEN mg_recv_common(m, m.conns[first], n, arg, socket)
        ELSE mg_recv_common(new, Len(new.c), n, arg, socket)

(* Whether there was a datagram or not; the resolver is told its answers.  *)
mg_handle_udp_read(m, id, w) ==
    IF m.c[id].handler = "resolver" THEN mg_if_recv_udp_cb(m, id, 0, w.n, w.dns, w.socket)
    ELSE mg_if_recv_udp_cb(m, id, w.from, w.n, w.n, w.socket)

mg_handle_tcp_read(m, id, read) ==
    CASE read = "data" -> mg_recv_common(m, id, 1, 1, "ok")
      [] read = "eof" -> [m EXCEPT !.c[id].flags = @ \cup {"SEND_AND_CLOSE"}]
      [] read = "reset" -> Closing(m, id)
      [] OTHER -> m

(* A datagram takes all there is to send, whoever added it.                *)
mg_write_to_socket(m, id, write, socket) ==
    LET all == m.c[id].send
        n == IF "UDP" \in m.c[id].flags \/ write = "all" THEN all ELSE 1
    IN  CASE write = "error" /\ "UDP" \in m.c[id].flags -> m
          [] write = "error" /\ "UDP" \notin m.c[id].flags -> Closing(m, id)
          [] OTHER -> mg_call([m EXCEPT !.c[id].send = @ - n, !.wire = Append(@, <<m.c[id].sock, m.c[id].sa, n>>)],
                              id, "send", n, socket)

mg_if_connect_cb(m, id, err, socket) ==
    mg_call([m EXCEPT !.c[id].flags = (@ \ {"CONNECTING"}) \cup IF err # 0 THEN {"CLOSE_IMMEDIATELY"} ELSE {}],
            id, "connect", err, socket)

mg_if_timer(m, id, socket) ==
    LET old_value == m.c[id].ev_timer_time IN
    IF old_value = 0 \/ m.now < old_value THEN m
    ELSE With(mg_call(m, id, "timer", 0, socket), LAMBDA n :
              IF n.c[id].ev_timer_time = old_value THEN [n EXCEPT !.c[id].ev_timer_time = 0] ELSE n)

(* One connection with what select said of its socket.                     *)
mg_mgr_handle_conn(m, id, fd, w) ==
    LET joined(n) ==
            IF "CONNECTING" \notin n.c[id].flags THEN n
            ELSE IF fd # {} THEN mg_if_connect_cb(n, id, IF "UDP" \in n.c[id].flags \/ w.connect = "ok" THEN 0 ELSE 1, w.socket)
            ELSE IF n.c[id].err # 0 THEN mg_if_connect_cb(n, id, n.c[id].err, w.socket)
            ELSE n
        heard(n) ==
            CASE "read" \notin fd -> n
              [] "read" \in fd /\ "UDP" \in n.c[id].flags -> mg_handle_udp_read(n, id, w)
              [] "read" \in fd /\ {"LISTENING", "UDP"} \cap n.c[id].flags = {"LISTENING"} -> mg_accept_conn(n, id, w.from)
              [] OTHER -> mg_handle_tcp_read(n, id, w.read)
        written(n) == IF "write" \in fd /\ n.c[id].send > 0 THEN mg_write_to_socket(n, id, w.write, w.socket) ELSE n
    IN  With(joined(m), LAMBDA a : With(heard(a), LAMBDA b :
        IF "CLOSE_IMMEDIATELY" \in b.c[id].flags THEN b
        ELSE With(written(b), LAMBDA c : mg_if_timer(mg_call(c, id, "poll", 0, w.socket), id, w.socket))))

mg_close_conn(m, id, socket) ==
    mg_destroy_conn(mg_call(mg_socket_if_destroy_conn(mg_remove_conn(m, id), id), id, "close", 0, socket), id, FALSE)

(* What select shows: sockets it was asked about, where the world has      *)
(* something to read, or room, or an end of connecting.                    *)
Asked4Read(m, id) == m.c[id].sock # 0 /\ ("UDP" \notin m.c[id].flags \/ m.c[id].listener = 0)
Asked4Write(m, id) == m.c[id].sock # 0 /\ ("CONNECTING" \in m.c[id].flags \/ m.c[id].send > 0)
Readable(m, id, w) ==
    CASE "CONNECTING" \in m.c[id].flags -> FALSE
      [] m.c[id].handler = "resolver" -> w.dns # << >> \/ w.junk
      [] "LISTENING" \in m.c[id].flags -> w.from # 0
      [] "UDP" \in m.c[id].flags -> w.read = "data"
      [] OTHER -> w.read # "none" /\ w.who \in {0, id}
Writable(m, id, w) ==
    CASE "CONNECTING" \notin m.c[id].flags -> w.write # "full"
      [] OTHER -> "UDP" \in m.c[id].flags \/ w.connect # "wait"

(* A message of mg_broadcast is told to all.                               *)
mg_mgr_handle_ctl_sock(m) ==
    ForUp(m, 1, Len(m.conns), LAMBDA k, i : [k EXCEPT !.told = Append(@, <<m.conns[i], "cast", 0>>)])

(* A poll: every connection there is when it begins, in the order of the   *)
(* list, then those that close.                                            *)
mg_socket_if_poll(m, w) ==
    LET at == [m EXCEPT !.now = @ + w.dt]
        fd == [id \in DOMAIN m.c |-> (IF Asked4Read(m, id) /\ Readable(m, id, w) THEN {"read"} ELSE {})
                                     \cup (IF Asked4Write(m, id) /\ Writable(m, id, w) THEN {"write"} ELSE {})]
        broadcast(n) == IF w.cast THEN mg_mgr_handle_ctl_sock(n) ELSE n
        visited(n) == ForUp(n, 1, Len(m.conns), LAMBDA k, i : mg_mgr_handle_conn(k, m.conns[i], fd[m.conns[i]], w))
        Ends(n, id) == "CLOSE_IMMEDIATELY" \in n.c[id].flags \/ (n.c[id].send = 0 /\ "SEND_AND_CLOSE" \in n.c[id].flags)
        closed(n) == ForUp(n, 1, Len(n.conns), LAMBDA k, i : IF Ends(k, n.conns[i]) THEN mg_close_conn(k, n.conns[i], w.socket) ELSE k)
    IN  With(broadcast(at), LAMBDA a : With(visited(a), closed))

mg_mgr_free(m, w) ==
    With(mg_socket_if_poll(m, w), LAMBDA n :
         ForUp(n, 1, Len(n.conns), LAMBDA k, i : mg_close_conn(k, n.conns[i], w.socket)))
=============================================================================
