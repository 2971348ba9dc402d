------------------------- MODULE MongooseWebsocket -------------------------
(***************************************************************************)
(* Websocket frames: mg_deliver_websocket_data of mongoose.c, which puts   *)
(* the fragments of a message together in recv_mbuf itself.                *)
(*                                                                         *)
(* Tokens: << "h", fin, opcode >> for the first byte of a frame,           *)
(* << "n", k >> for its length, << "m" >> for the mask, << "d", v >> for   *)
(* data, which is unmasked; v = 8 stands for the bytes that have the       *)
(* opcode of a close frame in their lower half.  Clients mask: the size    *)
(* the code keeps behind the first byte then fits before the data.         *)
(***************************************************************************)
EXTENDS Integers, SequencesExt

WEBSOCKET_OP_CONTINUE == 0
WEBSOCKET_OP_TEXT == 1
WEBSOCKET_OP_CLOSE == 8
WEBSOCKET_OP_PING == 9

Websocket0 == [ buf |-> << >>,       \* recv_mbuf
                closing |-> FALSE,   \* MG_F_SEND_AND_CLOSE
                events |-> << >>,
                moves |-> {},        \* messages whose first fragment moves the buffer
                stray |-> FALSE ]    \* freed memory was written

IsFragment(h) == ~h[2] \/ h[3] = WEBSOCKET_OP_CONTINUE
IsFirstFragment(h) == ~h[2] /\ h[3] # WEBSOCKET_OP_CONTINUE
LowerHalf(t) == IF t[1] = "h" THEN t[3] ELSE IF t[1] = "d" THEN t[2] ELSE 0

Past(s, i) == SubSeq(s, i + 1, Len(s))

\* Where the frame to deliver starts: behind the fragments put together.
FrameAt(buf) ==
  IF buf # << >> /\ IsFragment(buf[1]) /\ ~IsFirstFragment(buf[1])
     /\ Len(buf) >= 2 /\ Len(buf) >= 2 + buf[2][2]
  THEN 2 + buf[2][2] ELSE 0

\* mbuf_resize, for the size put behind the first byte, may move recv_mbuf: the
\* pointers to it are not taken again.
Moved(c) == IsFirstFragment(c.buf[1]) /\ Len(c.events) \in c.moves

FrameThere(buf) ==
  LET s == Past(buf, FrameAt(buf)) IN Len(s) >= 3 /\ Len(s) >= 3 + s[2][2]

\* Slip: the size of the message stays that of its first fragment.
GrowNot(size, k) == size

Grow(size, k) == size + k

\* The close test looks at the byte the frame was at, after the buffer was
\* shifted: the start of the next frame, or what was there before.
DeliverInPlace(c) ==
  LET at == FrameAt(c.buf)
      s == Past(c.buf, at)
      k == s[2][2]
      data == SubSeq(s, 4, 3 + k)
      rest == Past(s, 3 + k)
      reass == IsFragment(c.buf[1])
      size == IF at = 0 THEN k ELSE Grow(c.buf[2][2], k)
      whole == SubSeq(c.buf, 3, at) \o data
      kept == << << "h", FALSE, WEBSOCKET_OP_CONTINUE >>, << "n", size >> >>
      done == ~reass \/ s[1][2]
      look == IF ~reass THEN (rest \o << s[1] >>)[1]
              ELSE IF done /\ Len(rest) > at THEN rest[at + 1]
              ELSE data[1]
  IN  [c EXCEPT
         !.buf = IF done THEN rest ELSE kept \o whole \o rest,
         !.events = IF ~done THEN @
                    ELSE Append(@, [control |-> s[1][3] >= 8,
                                    data |-> IF reass THEN SubSeq(whole, 1, size)
                                             ELSE data]),
         !.closing = @ \/ LowerHalf(look) = WEBSOCKET_OP_CLOSE]

\* What the program does after a write to freed memory is undefined.
Deliver(c) == IF Moved(c) THEN [c EXCEPT !.stray = TRUE] ELSE DeliverInPlace(c)

\* mg_ws_handler: frames as long as there are whole ones.
WebsocketRecv(c) ==
  LET f[i \in 0..Len(c.buf)] ==
        IF i = 0 THEN c
        ELSE LET d == f[i - 1]
             IN  IF ~d.stray /\ FrameThere(d.buf) THEN Deliver(d) ELSE d
  IN  f[Len(c.buf)]

-----------------------------------------------------------------------------
(* What a client sends for the frames fs *)

Frames(fs) ==
  FlattenSeq([i \in DOMAIN fs |->
                << << "h", fs[i].fin, fs[i].op >>,
                   << "n", Len(fs[i].data) >>, << "m" >> >> \o fs[i].data])

\* The messages: fragments joined, control frames as they are.
Messages(fs) ==
  LET f[i \in 0..Len(fs)] ==
        IF i = 0 THEN [open |-> << >>, out |-> << >>]
        ELSE LET g == f[i - 1]
                 whole == g.open \o fs[i].data
             IN  IF fs[i].fin
                 THEN [open |-> << >>,
                       out |-> Append(g.out, [control |-> fs[i].op >= 8,
                                              data |-> whole])]
                 ELSE [g EXCEPT !.open = whole]
  IN  f[Len(fs)].out
=============================================================================
