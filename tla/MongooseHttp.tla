---------------------------- MODULE MongooseHttp ----------------------------
(***************************************************************************)
(* One connection of components/mongoose/mongoose.c serving HTTP: a        *)
(* record, and operators that give the record a handler leaves behind.     *)
(* The record also has the client's end, and the fields main/WebServer.cpp *)
(* keeps for the connection (the operators named after its handlers).      *)
(*                                                                         *)
(* A request is its number in the script of its client, and what is sent   *)
(* of it is the tokens <<n, 1>>, <<n, 2>>, ...; an answer is the units     *)
(* <<n, 0>> (status line and headers), <<n, 1>>, ... .                     *)
(***************************************************************************)
EXTENDS Integers, Sequences, FiniteSets

CONSTANTS
  FileLen,        \* units of a served file
  SendMax         \* units: MG_MAX_HTTP_SEND_MBUF

ASSUME SizesAssumption == FileLen \in Nat \ {0} /\ SendMax \in Nat \ {0}

(* The requests told apart. *)
Kinds == { "hello", "post", "stream", "system", "file", "fileclose",
           "missing", "upload", "upgrade", "frame", "bad" }

\* Tokens until the empty line, and in all.
HeadLen(kind) == IF kind = "hello" THEN 2 ELSE 1
Size(kind) ==
  CASE kind = "upload" -> 3
    [] kind \in {"hello", "post", "stream"} -> 2
    [] OTHER -> 1

IsFile(kind) == kind \in {"file", "fileclose"}
Silent(kind) == kind \in {"system", "frame"}

\* What a client that sees everything receives for request n.
Answer(n, kind) ==
  IF Silent(kind) \/ kind = "bad" THEN << >>
  ELSE IF IsFile(kind) THEN [i \in 1..(FileLen + 1) |-> << n, i - 1 >>]
  ELSE IF kind = "upgrade" THEN << << n, 0 >> >>
  ELSE << << n, 0 >>, << n, 1 >> >>

NoFile == [open |-> FALSE, sent |-> 0, keepalive |-> FALSE, of |-> 0]

Flag(c, f) == [c EXCEPT !.flags = @ \cup {f}]
Send(c, units) == [c EXCEPT !.out = @ \o units]

\* User data: the listener's, which connections share, that of a web socket,
\* none, or that of an upload, which is the number of its request.
Listener == 0
WsData == -1
Null == -2

AtMost(a, b) == IF a < b THEN a ELSE b

-----------------------------------------------------------------------------
(* Files *)

\* Slip: a full buffer is taken for the end of the file.
TransferFull(c) ==
  LET k == AtMost(SendMax - Len(c.out), FileLen - c.file.sent)
  IN  IF ~c.file.open THEN c
      ELSE IF k > 0
      THEN [Send(c, [i \in 1..k |-> << c.file.of, c.file.sent + i >>])
              EXCEPT !.file.sent = @ + k]
      ELSE [c EXCEPT !.file = NoFile]

\* Fills the send buffer from the open file; the call after the last unit
\* closes it.
mg_http_transfer_file_data(c) ==
  LET room == SendMax - Len(c.out)
      k == AtMost(room, FileLen - c.file.sent)
  IN  IF ~c.file.open \/ room <= 0 THEN c
      ELSE IF k > 0
      THEN [Send(c, [i \in 1..k |-> << c.file.of, c.file.sent + i >>])
              EXCEPT !.file.sent = @ + k]
      ELSE [c EXCEPT !.file = NoFile,
                     !.flags = IF c.file.keepalive THEN @
                               ELSE @ \cup {"send_and_close"}]

\* An answer being sent is forgotten: its file pointer is overwritten, and
\* the count of what was sent of it stays.
mg_http_serve_file(c, n, kind) ==
  IF kind = "missing"
  THEN Flag(Send([c EXCEPT !.file.open = FALSE], Answer(n, kind)),
            "send_and_close")
  ELSE mg_http_transfer_file_data(
         [Send(c, << << n, 0 >> >>) EXCEPT !.file.open = TRUE, !.file.of = n,
                                         !.file.keepalive = (kind = "file")])

-----------------------------------------------------------------------------
(* main/WebServer.cpp and main/RequestManager.cpp: the event handler *)

sendData(c, n) ==
  Flag(Send(c, << << n, 0 >>, << n, 1 >> >>), "send_and_close")

\* processRequest: a registered path, or else a file.
onHttpRequest(c, n, how) ==
  LET kind == c.script[n]
      d == [c EXCEPT !.handled = Append(@, << n, how >>)]
  IN  IF kind \in {"hello", "post", "stream"} THEN sendData(d, n)
      ELSE IF kind = "system" THEN d
      ELSE mg_http_serve_file(d, n, IF IsFile(kind) THEN kind ELSE "missing")

\* With a factory: new user data that remembers the one it replaces.
onMultipartRequest(c) ==
  IF ~c.build.mpFactory THEN c
  ELSE [c EXCEPT !.ud = c.upload, !.made = @ \cup {c.upload}]

\* originalUserData: only an upload's data has replaced other data.
Original(ud) == IF ud = Listener THEN Null ELSE Listener

\* Slip: the user data is restored and never deleted.
onMultipartRequestEndKept(c, n, how) ==
  sendData([c EXCEPT !.ud = Listener,
                     !.handled = Append(@, << n, how >>)], n)

\* Slip: the data deleted is the one restored.
onMultipartRequestEndWrong(c, n, how) ==
  sendData([c EXCEPT !.dead = @ \cup {Listener}, !.ud = Listener,
                     !.handled = Append(@, << n, how >>)], n)

\* Without a factory the user data is the listener's, and that is deleted.
\* What the program does after that is undefined.
onMultipartRequestEnd(c, n, how) ==
  sendData([c EXCEPT !.dead = @ \cup {c.ud}, !.ud = Original(@),
                     !.handled = Append(@, << n, how >>)], n)

\* Only with a factory; nobody frees what it makes.
onHandshakeRequest(c) ==
  IF ~c.build.wsFactory THEN c
  ELSE [c EXCEPT !.ud = WsData, !.made = @ \cup {WsData}]

-----------------------------------------------------------------------------
(* Requests *)

First(c) == c.in[1][1]
Received(c, n) == Cardinality({ i \in 1..Len(c.in) : c.in[i][1] = n })
Drop(c, k) == [c EXCEPT !.in = SubSeq(@, k + 1, Len(@))]

\* mg_parse_http: the length of the head, 0 when it is incomplete, -1 when
\* this is no request: the rest of one whose beginning was lost counts as none.
ParseHead(c) ==
  IF c.in = << >> THEN 0
  ELSE LET kind == c.script[First(c)] IN
       IF kind \in {"bad", "frame"} \/ c.in[1][2] # 1 THEN -1
       ELSE IF Received(c, First(c)) < HeadLen(kind) THEN 0 ELSE HeadLen(kind)

\* POST without Content-Length ends with the connection.
Buffered(c) ==
  LET kind == c.script[First(c)]
  IN  kind # "stream" /\ Received(c, First(c)) >= Size(kind)

\* MPS_FINISHED: everything in recv_mbuf is removed, so that the requests
\* behind the upload are lost as far as they have come.
RemoveAll(c) ==
  LET n == Len(c.handled)
      last == IF c.in = << >> THEN n ELSE c.in[Len(c.in)][1]
  IN  [c EXCEPT !.in = << >>,
                !.handled = @ \o [i \in 1..(last - n) |-> << n + i, "lost" >>]]

\* Takes what there is of the upload; its last token ends it.
mg_http_multipart_continue(c) ==
  LET n == c.upload
      k == Received(c, n)
      d == Drop(c, k)
  IN  IF k > 0 /\ c.in[k] = << n, Size("upload") >>
      THEN RemoveAll(onMultipartRequestEnd([d EXCEPT !.upload = 0], n, "whole"))
      ELSE d

mg_http_multipart_begin(c) ==
  onMultipartRequest([Drop(c, 1) EXCEPT !.upload = First(c)])

\* All the frames buffered, each one an event.
mg_ws_handler(c) ==
  [c EXCEPT !.in = << >>,
            !.handled = @ \o [i \in 1..Len(c.in) |-> << c.in[i][1], "whole" >>]]

\* The handshake is only sent when nothing waits to be sent before it.
Upgrade(c) ==
  LET n == First(c)
      d == onHandshakeRequest([Drop(c, 1) EXCEPT !.ws = TRUE,
             !.handled = Append(@, << n, "whole" >>)])
      e == IF d.out = << >> THEN Send(d, << << n, 0 >> >>) ELSE d
  IN  IF d.flags = {} THEN mg_ws_handler(e) ELSE d

\* Slip: the request stays in the buffer.
HandleMessageKept(c) == onHttpRequest(c, First(c), "whole")

HandleMessage(c) ==
  Drop(onHttpRequest(c, First(c), "whole"), Size(c.script[First(c)]))

-----------------------------------------------------------------------------
(* mg_http_handler *)

\* The first thing every event does.
OnEvent(c) == IF c.ws THEN c ELSE mg_http_transfer_file_data(c)

\* MG_EV_RECV, after that.  One event handles one request at most.
OnRecv(c) ==
  LET len == ParseHead(c)
  IN  IF c.ws THEN mg_ws_handler(c)
      ELSE IF c.upload # 0 THEN mg_http_multipart_continue(c)
      ELSE IF len < 0 THEN Flag(c, "close_immediately")
      ELSE IF len = 0 THEN c
      ELSE IF c.build.streaming /\ c.script[First(c)] = "upload"
      THEN mg_http_multipart_continue(mg_http_multipart_begin(c))
      ELSE IF c.script[First(c)] = "upgrade" THEN Upgrade(c)
      ELSE IF Buffered(c) THEN HandleMessage(c)
      ELSE c

\* MG_EV_CLOSE, after the socket was closed: an upload ends, and a request
\* whose head is there is handled with what there is of its body.
OnClose(c) ==
  LET n == First(c)
      how == IF c.script[n] = "stream" \/ Buffered(c) THEN "late" ELSE "cut"
  IN  IF c.ws THEN c
      ELSE mg_http_transfer_file_data(
             IF c.upload # 0 THEN onMultipartRequestEnd(c, c.upload, "late")
             ELSE IF ParseHead(c) > 0 THEN onHttpRequest(c, n, how)
             ELSE c)

-----------------------------------------------------------------------------
(* The poll of one connection: mg_mgr_handle_conn and the close pass *)

\* What recv gives: data, the end of the stream, or an error.
Receive(c) ==
  IF c.net # << >> THEN OnEvent([c EXCEPT !.in = @ \o c.net, !.net = << >>])
  ELSE IF c.client = "finished" THEN Flag(c, "send_and_close")
  ELSE IF c.client = "gone" THEN Flag(c, "close_immediately")
  ELSE c

\* k units fit in the socket.
mg_write_to_socket(c, k) ==
  IF c.client = "gone" THEN Flag(c, "close_immediately")
  ELSE LET m == AtMost(k, Len(c.out))
       IN  OnEvent([c EXCEPT !.got = @ \o SubSeq(c.out, 1, m),
                             !.out = SubSeq(@, m + 1, Len(@))])

mg_close_conn(c) ==
  [OnClose([c EXCEPT !.st = "closed"])
     EXCEPT !.in = << >>, !.out = << >>, !.file = NoFile, !.upload = 0]

\* Slip: the connection closes with answers in the buffer.
ClosePassHasty(c) == IF c.flags # {} THEN mg_close_conn(c) ELSE c

\* Slip: the end of the client's stream closes nothing.
ClosePassNever(c) ==
  IF "close_immediately" \in c.flags THEN mg_close_conn(c) ELSE c

ClosePass(c) ==
  IF "close_immediately" \in c.flags
     \/ (c.out = << >> /\ "send_and_close" \in c.flags)
  THEN mg_close_conn(c)
  ELSE c

=============================================================================
