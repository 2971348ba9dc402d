---------------------------- MODULE StreamParsing ----------------------------
(***************************************************************************)
(* What the three parsers of mongoose.c that work on a stream in place make*)
(* of what a client sends, however TCP cuts it in pieces.  Each receive    *)
(* event (mg_recv_common) appends what came to recv_mbuf and calls the     *)
(* parser of the connection.                                               *)
(***************************************************************************)
EXTENDS MongooseBodies, MongooseWebsocket, FiniteSets

CONSTANTS
  Bodies,         \* requests with a chunked body: sequences of data
  Uploads,        \* multipart requests: sequences of parts
  Conversations,  \* sequences of websocket frames
  Moves,          \* sets of their messages for which realloc moves recv_mbuf
  MaxPiece        \* bytes of the largest piece TCP delivers

-----------------------------------------------------------------------------
(* What clients send *)

\* Data of a body or a frame; every byte of an upload, and what the handler is
\* told of it (strings all, which TLAPS has to be told of each).
Data == {"d"} \X Nat
Bytes == STRING \cup {"B", "b", "r", "n", "D", "-", "begin", "end", "request_end"}

\* The chunks of a body are not empty: an empty one would end it.
Filled(ds) == ds \in Seq(Seq(Data) \ {<< >>})

\* An upload has a part, and no boundary begins in the data of one.
Clean(y) == \A i \in 1..Len(y) - 1 : ~(y[i] = "B" /\ y[i + 1] = "b")

UploadLegal(ds) ==
  /\ ds \in Seq(Seq(Bytes)) /\ ds # << >>
  /\ \A i \in DOMAIN ds : Clean(ds[i])

\* Only a fragment that is not the last has a continuation behind it, which is
\* the next frame (RFC 6455 lets control frames come between them; the code does
\* not, see the TODO at mongoose.c:8894); a close frame is the last.
FrameSet == [fin : BOOLEAN, op : Nat, data : Seq(Data)]

Legal(fs) ==
  /\ fs \in Seq(FrameSet)
  /\ \A i \in DOMAIN fs :
       /\ fs[i].op = WEBSOCKET_OP_CONTINUE <=> (i > 1 /\ ~fs[i - 1].fin)
       /\ fs[i].op = WEBSOCKET_OP_CLOSE => fs[i].fin /\ i = Len(fs)

ASSUME BodiesAssumption == \A bs \in Bodies : bs \in Seq(Seq(Seq(Data) \ {<< >>}))
ASSUME UploadsAssumption == \A ds \in Uploads : UploadLegal(ds)
ASSUME ConversationsAssumption == \A fs \in Conversations : Legal(fs)
ASSUME MovesAssumption == Moves \subseteq SUBSET Nat
ASSUME MaxPieceAssumption == MaxPiece \in Nat

-----------------------------------------------------------------------------
VARIABLES
  protocol,       \* "chunked", "multipart" or "websocket"
  sent,           \* the bodies, parts or frames the client sends
  input,          \* what has not arrived of them
  conn            \* the state of the parser

vars == << protocol, sent, input, conn >>

Init ==
  \/ /\ protocol = "chunked" /\ sent \in Bodies
     /\ input = FlattenSeq([i \in DOMAIN sent |-> Chunked(sent[i])]) /\ conn = Head0
  \/ /\ protocol = "multipart" /\ sent \in Uploads
     /\ input = Multipart(sent) /\ conn = Multipart0
  \/ /\ protocol = "websocket" /\ sent \in Conversations
     /\ input = Frames(sent)
     /\ \E moves \in Moves : conn = [Websocket0 EXCEPT !.moves = moves]

Recv(c) ==
  CASE protocol = "chunked" -> ChunkedRecv(c)
    [] protocol = "multipart" -> MultipartRecv(c)
    [] protocol = "websocket" -> WebsocketRecv(c)

mg_recv_common ==
  /\ protocol = "chunked" => ~conn.failed
  /\ protocol = "websocket" => ~conn.stray
  /\ \E k \in 1..MaxPiece :
       /\ k <= Len(input)
       /\ conn' = Recv([conn EXCEPT !.buf = @ \o SubSeq(input, 1, k)])
       /\ input' = SubSeq(input, k + 1, Len(input))
  /\ UNCHANGED << protocol, sent >>

Next == mg_recv_common

Spec == Init /\ [][Next]_vars

-----------------------------------------------------------------------------
(* Properties *)

\* What the event handler is to get for all the client sends.
Meant ==
  CASE protocol = "chunked" -> [i \in DOMAIN sent |-> FlattenSeq(sent[i])]
    [] protocol = "multipart" -> PartEvents(sent)
    [] protocol = "websocket" -> Messages(sent)

\* Whatever the pieces, the handler gets nothing that was not sent, nothing
\* twice, and nothing out of order: no byte of a chunk header, a boundary or a
\* frame header is taken for data, and no message comes before it is whole; and
\* no parser counts more bytes as looked at than its buffer holds.
NothingInvented ==
  /\ protocol = "chunked" /\ conn.buf # << >> =>
       conn.failed \/ conn.body_len < Len(conn.buf)
  /\ protocol = "multipart" => conn.prev_io_len \in 0..Len(conn.buf)
  /\ Len(conn.events) <= Len(Meant)
  /\ conn.events = SubSeq(Meant, 1, Len(conn.events))

\* When all has arrived, the handler has got all of it: no parser waits for a
\* byte that nobody will send ("When the last zero chunk is received, Mongoose
\* sends ... event with full reassembled body", mongoose.h; "a sequence of
\* PART_BEGIN/DATA/END"), and a close frame closes the connection.
NothingLost ==
  input = << >> =>
    /\ conn.events = Meant
    /\ protocol = "websocket"
       /\ (\E i \in DOMAIN sent : sent[i].op = WEBSOCKET_OP_CLOSE) => conn.closing

\* assert(blen >= body_len) in mg_handle_chunked: the body put together for
\* earlier receive events is in the buffer.
BodyInBuffer == protocol = "chunked" => ~conn.failed

\* "mongoose will automatically defragment incoming messages" (mongoose.h:4333):
\* what mg_deliver_websocket_data writes goes to recv_mbuf, also when realloc
\* moves it to make room for the size of the message.
Defragmented == protocol = "websocket" => ~conn.stray
=============================================================================
