--------------------------- MODULE MongooseBodies ---------------------------
(***************************************************************************)
(* The bodies of requests that mongoose.c takes apart in recv_mbuf while   *)
(* they arrive: in chunks, and in parts.                                   *)
(***************************************************************************)
EXTENDS Integers, SequencesExt

(* Request bodies in chunks: mg_handle_chunked of mongoose.c puts the body *)
(* together in recv_mbuf itself, behind the head of the request.           *)
(*                                                                         *)
(* Tokens: << "head" >>, << "size", k >>, << "nl" >> and data << "d", v >>.*)

Head0 == [ buf |-> << >>,         \* recv_mbuf
           body_len |-> 0,        \* pd->chunk.body_len
           failed |-> FALSE,      \* an assertion failed: the program stops
           events |-> << >> ]

\* The length of the chunk at the start of s, 0 when it is not all there.
mg_http_parse_chunk(s) ==
  IF Len(s) >= 2 /\ s[1][1] = "size" /\ Len(s) >= s[1][2] + 3
  THEN s[1][2] + 3 ELSE 0

From(s, i) == SubSeq(s, i + 1, Len(s))

\* The chunks of s from position i on: their data, where they end, and
\* whether the last of them is the empty one.
Collapse(s, i) ==
  LET f[j \in 0..Len(s)] ==
        LET n == mg_http_parse_chunk(From(s, j)) IN
        IF n = 0 THEN [data |-> << >>, end |-> j, zero |-> FALSE]
        ELSE IF n = 3 THEN [data |-> << >>, end |-> j + 3, zero |-> TRUE]
        ELSE [f[j + n] EXCEPT !.data = SubSeq(s, j + 3, j + n - 1) \o @]
  IN  f[i]

\* Slip: the search for chunks starts at the reassembled body.
ReassembledNone(c) == 0

Reassembled(c) == c.body_len

\* The body and what follows it, and the request once its last chunk is there:
\* the message is then all that is in the buffer.
ChunkedRecv(c) ==
  LET rest == Tail(c.buf)
      g == Collapse(rest, Reassembled(c))
      body == SubSeq(rest, 1, Reassembled(c)) \o g.data
  IN  IF c.buf = << >> THEN c
      ELSE IF Len(rest) < c.body_len THEN [c EXCEPT !.failed = TRUE]
      ELSE IF g.zero
      THEN [c EXCEPT !.buf = << >>, !.body_len = Len(body),
                     !.events = Append(@, body)]
      ELSE [c EXCEPT !.buf = << @[1] >> \o body \o From(rest, g.end),
                     !.body_len = Len(body)]

-----------------------------------------------------------------------------
(* What a client sends for the chunks ds of a request *)

Chunk(d) == << << "size", Len(d) >>, << "nl" >> >> \o d \o << << "nl" >> >>

Chunked(ds) ==
  << << "head" >> >> \o FlattenSeq([i \in DOMAIN ds |-> Chunk(ds[i])])
                    \o Chunk(<< >>)

-----------------------------------------------------------------------------
(* Uploads in parts: the states of mg_http_multipart_continue of           *)
(* mongoose.c, which hands the data of a part on while it arrives.  The    *)
(* buffer is kept byte by byte where the code counts bytes; the boundary   *)
(* has two, "B" and "b".  A part has one header line: "D", which names it. *)

BoundaryLen == 2

Multipart0 == [ buf |-> << >>, state |-> "WAITING_FOR_BOUNDARY",
                prev_io_len |-> 0, processing_part |-> 0, events |-> << >> ]

\* Bytes before the boundary, or -1.
BoundaryAt(s) ==
  LET at == { i \in 1..Len(s) - 1 : s[i] = "B" /\ s[i + 1] = "b" }
  IN  IF at = {} THEN -1 ELSE (CHOOSE i \in at : \A j \in at : i <= j) - 1

After(s, i) == SubSeq(s, i + 1, Len(s))
GoOn(c) == [more |-> TRUE, c |-> c]
Wait(c) == [more |-> FALSE, c |-> c]

wait_for_boundary(c) ==
  LET b == BoundaryAt(c.buf)
      rest == After(c.buf, b + BoundaryLen)
  IN  IF Len(c.buf) < BoundaryLen + 2 \/ b < 0 \/ Len(rest) < 4 THEN Wait(c)
      ELSE IF SubSeq(rest, 1, 4) = << "-", "-", "r", "n" >>
      THEN GoOn([c EXCEPT !.state = "FINALIZE", !.buf = After(rest, 4)])
      ELSE GoOn([c EXCEPT !.state = "GOT_BOUNDARY"])

Header == << "r", "n", "D", "r", "n", "r", "n" >>

\* The headers of a part, or back to waiting until they are complete.
process_boundary(c) ==
  LET rest == After(c.buf, BoundaryAt(c.buf) + BoundaryLen)
  IN  IF Len(rest) < Len(Header)
      THEN Wait([c EXCEPT !.state = "WAITING_FOR_BOUNDARY"])
      ELSE GoOn([c EXCEPT !.state = "WAITING_FOR_CHUNK",
                          !.buf = After(rest, Len(Header)),
                          !.processing_part = @ + 1,
                          !.events = (IF c.processing_part = 0 THEN @
                                      ELSE Append(@, "end"))
                                     \o << "begin" >>])

\* Slip: what may be the beginning of a boundary is handed on as data.
RoomForBoundaryNone == 0

\* "\r\n", "--" and the boundary.
RoomForBoundary == BoundaryLen + 4

wait_for_chunk(c) ==
  LET b == BoundaryAt(c.buf) IN
  IF Len(c.buf) < BoundaryLen + 6 THEN Wait(c)
  ELSE IF b < 0 /\ c.prev_io_len = 0
  THEN Wait([c EXCEPT !.prev_io_len = Len(c.buf)])
  ELSE IF b < 0 /\ Len(c.buf) > c.prev_io_len + RoomForBoundary
  THEN GoOn([c EXCEPT !.state = "GOT_CHUNK"])
  ELSE IF b >= 0
  THEN GoOn([c EXCEPT !.state = "WAITING_FOR_BOUNDARY", !.prev_io_len = 0,
                      !.buf = After(@, b),
                      !.events = @ \o SubSeq(c.buf, 1, b - 4)])
  ELSE Wait(c)

got_chunk(c) ==
  Wait([c EXCEPT !.state = "WAITING_FOR_CHUNK", !.prev_io_len = 0,
                 !.buf = After(@, c.prev_io_len),
                 !.events = @ \o SubSeq(c.buf, 1, c.prev_io_len)])

\* What is left in the buffer is thrown away.
finalize(c) ==
  Wait([c EXCEPT !.state = "FINISHED", !.buf = << >>,
                 !.events = @ \o << "end", "request_end" >>])

Step(c) ==
  CASE c.state = "WAITING_FOR_BOUNDARY" -> wait_for_boundary(c)
    [] c.state = "GOT_BOUNDARY" -> process_boundary(c)
    [] c.state = "WAITING_FOR_CHUNK" -> wait_for_chunk(c)
    [] c.state = "GOT_CHUNK" -> got_chunk(c)
    [] c.state = "FINALIZE" -> finalize(c)
    [] OTHER -> Wait(c)

\* mg_http_multipart_continue, until a state waits for more.  Every state that
\* does not wait takes bytes, or goes to one that takes bytes or waits.
MultipartRecv(c) ==
  LET f[i \in 0..2 * Len(c.buf) + 2] ==
        IF i = 0 THEN GoOn(c)
        ELSE LET g == f[i - 1] IN IF g.more THEN Step(g.c) ELSE g
  IN  f[2 * Len(c.buf) + 2].c

-----------------------------------------------------------------------------
(* What a client sends for the parts ds, and what the handler is to get *)

Each(ds, before, after) ==
  FlattenSeq([i \in DOMAIN ds |-> before \o ds[i] \o after])

Multipart(ds) ==
  << "-", "-", "B", "b" >>
    \o Each(ds, Header, << "r", "n", "-", "-", "B", "b" >>)
    \o << "-", "-", "r", "n" >>

PartEvents(ds) ==
  Each(ds, << "begin" >>, << "end" >>) \o << "request_end" >>
=============================================================================
