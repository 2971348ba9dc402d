-------------------------- MODULE WebServer_proofs --------------------------
(***************************************************************************)
(* Proofs about the web server, for any requests of any number of clients. *)
(*                                                                         *)
(* What makes the properties inductive: what is in the socket and not      *)
(* taken from recv_mbuf is always a stretch of the stream its client       *)
(* sends, and it begins with the token the handler waits for (InLine).  So *)
(* a request found in recv_mbuf is the one after those handled, the part   *)
(* of an upload belongs to the upload in progress, and a web socket finds  *)
(* nothing but frames.  Owned says of each user data whether it is         *)
(* deleted, the connection's own, or never freed.                          *)
(*                                                                         *)
(* The theorems take it that a server that streams uploads has a factory   *)
(* for them (Registered): without one the program deletes what is shared.  *)
(*                                                                         *)
(* That the answers arrive whole needs Told beside it, of a client that    *)
(* waits and reads: what it got, what waits in send_mbuf and what is left  *)
(* of the file, one after the other, are the answers to the requests       *)
(* handled (Kept); it had all of them before it began another request      *)
(* (Waiting); and every request handled was whole (Whole).                 *)
(***************************************************************************)
EXTENDS WebServer, FiniteSetTheorems, SequenceTheorems, TLAPS

Tokens == (Nat \ {0}) \X (Nat \ {0})

\* The builds and registrations in which a streamed upload finds a factory.
\* In the others the data deleted is the listener's (ListenerSaved).
WithFactory ==
  { b \in [streaming : BOOLEAN, mpFactory : BOOLEAN, wsFactory : BOOLEAN] :
      b.streaming => b.mpFactory }
Registered == Builds \subseteq WithFactory

Hows == {"whole", "late", "cut", "lost"}
USE DEF Hows
Files == [open : BOOLEAN, sent : 0..FileLen, keepalive : BOOLEAN, of : Nat]

\* What a connection is made of.
Connection ==
  [ st : {"none", "backlog", "open", "closed"},
    script : Seq(Kinds), polite : BOOLEAN,
    client : {"sending", "finished", "gone"}, next : Tokens, net : Seq(Tokens),
    got : Seq(Nat \X Nat), in : Seq(Tokens), out : Seq(Nat \X Nat),
    flags : SUBSET {"send_and_close", "close_immediately"},
    file : Files, ws : BOOLEAN, upload : Nat,
    handled : Seq(Nat \X Hows),
    ud : Int, made : SUBSET Int, dead : SUBSET Int,
    build : WithFactory ]

\* d is c but for what is being answered.
Answered(c, d) ==
  /\ d \in Connection
  /\ d.st = c.st /\ d.script = c.script /\ d.client = c.client
  /\ d.next = c.next /\ d.net = c.net /\ d.in = c.in /\ d.ws = c.ws
  /\ d.upload = c.upload /\ d.handled = c.handled /\ d.ud = c.ud
  /\ d.made = c.made /\ d.dead = c.dead
  /\ d.build = c.build

USE SizesAssumption

\* What is added to send_mbuf changes nothing else.
LEMMA SendAnswers ==
  ASSUME NEW c \in Connection, NEW units \in Seq(Nat \X Nat)
  PROVE  Answered(c, Send(c, units)) /\ Send(c, units).file = c.file
  <1>1. c.out \in Seq(Nat \X Nat)
    BY DEF Connection
  <1>2. c.out \o units \in Seq(Nat \X Nat)
    BY <1>1
  <1>3. QED
    BY <1>2 DEF Connection, Answered, Send

LEMMA FlagAnswers ==
  ASSUME NEW c \in Connection, NEW f \in {"send_and_close", "close_immediately"}
  PROVE  Answered(c, Flag(c, f)) /\ Flag(c, f).file = c.file
  BY ZenonT(40) DEF Connection, Answered, Flag

\* A part of a file goes to send_mbuf, or the file is closed.
LEMMA TransferAnswers ==
  ASSUME NEW c \in Connection
  PROVE  Answered(c, mg_http_transfer_file_data(c))
  <1> DEFINE room == SendMax - Len(c.out)
             k == AtMost(room, FileLen - c.file.sent)
             units == [i \in 1..k |-> << c.file.of, c.file.sent + i >>]
             d == [Send(c, units) EXCEPT !.file.sent = @ + k]
             e == [c EXCEPT !.file = NoFile,
                            !.flags = IF c.file.keepalive THEN @
                                      ELSE @ \cup {"send_and_close"}]
  <1>1. mg_http_transfer_file_data(c) =
          IF ~c.file.open \/ room <= 0 THEN c ELSE IF k > 0 THEN d ELSE e
    BY DEF mg_http_transfer_file_data
  <1>2. c.file \in Files /\ c.out \in Seq(Nat \X Nat)
    BY DEF Connection
  <1>3. c.file.sent \in 0..FileLen /\ c.file.of \in Nat /\ Len(c.out) \in Nat
    BY <1>2 DEF Files
  <1>4. k \in Int /\ k <= FileLen - c.file.sent
    BY <1>3 DEF AtMost
  <1>5. Answered(c, c)
    BY DEF Answered
  <1>6. Answered(c, e)
    <2>1. NoFile \in Files
      BY DEF NoFile, Files
    <2>2. QED
      BY <2>1, ZenonT(40) DEF Connection, Answered
  <1>7. ASSUME k > 0 PROVE Answered(c, d)
    <2>1. units \in Seq(Nat \X Nat)
      <3>1. k \in Nat
        BY <1>4, <1>7
      <3> HIDE DEF k
      <3>2. \A i \in 1..k : << c.file.of, c.file.sent + i >> \in Nat \X Nat
        BY <1>3
      <3>3. QED
        BY <3>1, <3>2
    <2>2. c.file.sent + k \in 0..FileLen
      BY <1>3, <1>4, <1>7
    <2> HIDE DEF k, units
    <2>3. Answered(c, Send(c, units)) /\ Send(c, units).file = c.file
      BY <2>1, SendAnswers
    <2>4. d.file = [c.file EXCEPT !.sent = @ + k] /\ d.file \in Files
      BY <1>2, <2>2, <2>3 DEF Answered, Connection, Files
    <2>5. QED
      BY <2>3, <2>4, ZenonT(40) DEF Answered, Connection
  <1> HIDE DEF room, k, d, e
  <1>8. QED
    BY <1>1, <1>5, <1>6, <1>7

\* Answering goes on.
LEMMA AnsweredTwice ==
  ASSUME NEW c, NEW d, NEW e, Answered(c, d), Answered(d, e)
  PROVE  Answered(c, e)
  BY DEF Answered

Heard(c, n, how) == [c EXCEPT !.handled = Append(@, << n, how >>)]

\* The event handler is given one more request.
LEMMA HeardConnection ==
  ASSUME NEW c \in Connection, NEW n \in Nat, NEW how \in Hows
  PROVE  Heard(c, n, how) \in Connection
  <1>1. c.handled \in Seq(Nat \X Hows)
    BY DEF Connection
  <1>2. << n, how >> \in Nat \X Hows
    OBVIOUS
  <1>3. Append(c.handled, << n, how >>) \in Seq(Nat \X Hows)
    BY <1>1, <1>2
  <1>4. QED
    BY <1>3 DEF Connection, Heard

LEMMA SendDataAnswers ==
  ASSUME NEW c \in Connection, NEW n \in Nat
  PROVE  Answered(c, sendData(c, n))
  <1>1. << << n, 0 >>, << n, 1 >> >> \in Seq(Nat \X Nat)
    <2>1. << n, 0 >> \in Nat \X Nat /\ << n, 1 >> \in Nat \X Nat
      OBVIOUS
    <2>2. QED
      BY <2>1
  <1> DEFINE d == Send(c, << << n, 0 >>, << n, 1 >> >>)
  <1>2. Answered(c, d)
    BY <1>1, SendAnswers
  <1>3. sendData(c, n) = Flag(d, "send_and_close")
    BY DEF sendData
  <1> HIDE DEF d
  <1>4. Answered(d, Flag(d, "send_and_close"))
    BY <1>2, FlagAnswers DEF Answered
  <1>5. QED
    BY <1>2, <1>3, <1>4, AnsweredTwice

\* Both ends of mg_http_serve_file: the start of a file, or an error.
LEMMA ServeFileAnswers ==
  ASSUME NEW c \in Connection, NEW n \in Nat, NEW kind \in {"file", "fileclose", "missing"}
  PROVE  Answered(c, mg_http_serve_file(c, n, kind))
  <1>1. c.file \in Files
    BY DEF Connection
  <1>2. CASE kind = "missing"
    <2> DEFINE closed == [c EXCEPT !.file.open = FALSE]
               d == Send(closed, Answer(n, kind))
    <2>1. [c.file EXCEPT !.open = FALSE] \in Files
      BY <1>1 DEF Files
    <2>2. Answered(c, closed)
      BY <2>1, ZenonT(40) DEF Connection, Answered
    <2>3. Answer(n, kind) \in Seq(Nat \X Nat)
      <3>1. Answer(n, kind) = << << n, 0 >>, << n, 1 >> >>
        BY <1>2 DEF Answer, Silent, IsFile
      <3>2. << n, 0 >> \in Nat \X Nat /\ << n, 1 >> \in Nat \X Nat
        OBVIOUS
      <3>3. QED
        BY <3>1, <3>2
    <2>4. mg_http_serve_file(c, n, kind) = Flag(d, "send_and_close")
      BY <1>2 DEF mg_http_serve_file
    <2> HIDE DEF closed
    <2>5. Answered(closed, d)
      BY <2>2, <2>3, SendAnswers DEF Answered
    <2> HIDE DEF d
    <2>6. Answered(d, Flag(d, "send_and_close"))
      BY <2>5, FlagAnswers DEF Answered
    <2>7. QED
      BY <2>2, <2>4, <2>5, <2>6, AnsweredTwice
  <1>3. CASE kind # "missing"
    <2> DEFINE d == Send(c, << << n, 0 >> >>)
               opened == [d EXCEPT !.file.open = TRUE, !.file.of = n,
                                   !.file.keepalive = (kind = "file")]
    <2>1. << << n, 0 >> >> \in Seq(Nat \X Nat)
      <3>1. << n, 0 >> \in Nat \X Nat
        OBVIOUS
      <3>2. QED
        BY <3>1
    <2>2. Answered(c, d) /\ d.file = c.file
      BY <2>1, SendAnswers
    <2>3. mg_http_serve_file(c, n, kind) = mg_http_transfer_file_data(opened)
      BY <1>3 DEF mg_http_serve_file
    <2> HIDE DEF d
    <2>4. [d.file EXCEPT !.open = TRUE, !.of = n, !.keepalive = (kind = "file")] \in Files
      BY <1>1, <2>2 DEF Files
    <2>5. d \in Connection
      BY <2>2 DEF Answered
    <2>6. Answered(d, opened)
      BY <2>4, <2>5, ZenonT(40) DEF Connection, Answered
    <2> HIDE DEF opened
    <2>7. Answered(opened, mg_http_transfer_file_data(opened))
      BY <2>6, TransferAnswers DEF Answered
    <2>8. QED
      BY <2>2, <2>3, <2>6, <2>7, AnsweredTwice
  <1>4. QED
    BY <1>2, <1>3

\* Whoever answers a request, nothing but the answer changes.
LEMMA HttpRequestAnswers ==
  ASSUME NEW c \in Connection, NEW n \in 1..Len(c.script),
         NEW how \in Hows
  PROVE  Answered(Heard(c, n, how), onHttpRequest(c, n, how))
  <1> DEFINE d == Heard(c, n, how)
             kind == c.script[n]
  <1>1. c.script \in Seq(Kinds)
    BY DEF Connection
  <1>2. kind \in Kinds /\ n \in Nat
    BY <1>1
  <1>3. d \in Connection
    BY <1>2, HeardConnection
  <1>4. onHttpRequest(c, n, how) =
          IF kind \in {"hello", "post", "stream"} THEN sendData(d, n)
          ELSE IF kind = "system" THEN d
          ELSE mg_http_serve_file(d, n, IF IsFile(kind) THEN kind ELSE "missing")
    BY DEF onHttpRequest, Heard
  <1>5. (IF IsFile(kind) THEN kind ELSE "missing") \in {"file", "fileclose", "missing"}
    BY DEF IsFile
  <1> HIDE DEF d, kind
  <1>6. Answered(d, sendData(d, n))
    BY <1>2, <1>3, SendDataAnswers
  <1>7. Answered(d, d)
    BY <1>3 DEF Answered
  <1>8. Answered(d, mg_http_serve_file(d, n, IF IsFile(kind) THEN kind ELSE "missing"))
    BY <1>2, <1>3, <1>5, ServeFileAnswers
  <1>9. QED
    BY <1>4, <1>6, <1>7, <1>8 DEF d

\* The user data of the upload is deleted, and the listener's is back.
Released(c) == [c EXCEPT !.dead = @ \cup {c.ud}, !.ud = Original(c.ud)]

LEMMA ReleasedConnection ==
  ASSUME NEW c \in Connection
  PROVE  Released(c) \in Connection
  <1>1. c.dead \in SUBSET Int /\ c.ud \in Int
    BY DEF Connection
  <1>2. c.dead \cup {c.ud} \in SUBSET Int /\ Original(c.ud) \in Int
    BY <1>1 DEF Original, Listener, Null
  <1>3. QED
    BY <1>2 DEF Released, Connection

\* The end of an upload is a request given to the handler, and an answer.
LEMMA MultipartEndAnswers ==
  ASSUME NEW c \in Connection, NEW n \in Nat, NEW how \in Hows
  PROVE  /\ Answered(Released(Heard(c, n, how)), onMultipartRequestEnd(c, n, how))
         /\ Released(Heard(c, n, how)) \in Connection
  <1> DEFINE d == Released(Heard(c, n, how))
             e == [c EXCEPT !.dead = @ \cup {c.ud}, !.ud = Original(@),
                            !.handled = Append(@, << n, how >>)]
  <1>1. Heard(c, n, how) \in Connection
    BY HeardConnection
  <1>2. d = e
    BY DEF Released, Heard, Connection
  <1>3. d \in Connection
    BY <1>1, ReleasedConnection
  <1>4. onMultipartRequestEnd(c, n, how) = sendData(e, n)
    BY DEF onMultipartRequestEnd
  <1> HIDE DEF d, e
  <1>5. Answered(d, sendData(d, n))
    BY <1>3, SendDataAnswers
  <1>6. QED
    BY <1>2, <1>3, <1>4, <1>5 DEF d

LEMMA EventAnswers ==
  ASSUME NEW c \in Connection
  PROVE  Answered(c, OnEvent(c))
  BY TransferAnswers DEF OnEvent, Answered

-----------------------------------------------------------------------------
(* The stream of a client *)

IsToken(script, t) ==
  /\ t \in Tokens /\ t[1] \in 1..Len(script) /\ t[2] \in 1..Size(script[t[1]])

\* s is a stretch of what the client of script sends.
Stretch(script, s) ==
  /\ s \in Seq(Tokens)
  /\ \A i \in 1..Len(s) : IsToken(script, s[i])
  /\ \A i \in 1..Len(s) : i < Len(s) => s[i + 1] = After(script, s[i])
  /\ \A i, j \in 1..Len(s) : i <= j => s[i][1] <= s[j][1]
  /\ \A i, j \in 1..Len(s) :
       i <= j /\ script[s[i][1]] \in {"upgrade", "frame"} =>
         s[j] = << s[i][1] + (j - i), 1 >>

\* What the client may send next.
IsNext(script, t) ==
  t \in Tokens /\ (t[1] <= Len(script) => IsToken(script, t))

\* Requests have one to three tokens, uploads three.
LEMMA SizeIs ==
  ASSUME NEW kind \in Kinds
  PROVE  /\ Size(kind) \in 1..3 /\ HeadLen(kind) \in 1..2
         /\ HeadLen(kind) <= Size(kind)
         /\ kind \in {"upgrade", "frame"} => Size(kind) = 1
         /\ Size(kind) = 3 <=> kind = "upload"
         /\ HeadLen("upload") = 1 /\ Size("upload") = 3
  BY DEF Size, HeadLen, Kinds

\* After a token comes the next of its request, or the first of the next.
LEMMA AfterIs ==
  ASSUME NEW script \in Seq(Kinds), NEW t, IsToken(script, t)
  PROVE  /\ IsNext(script, After(script, t))
         /\ t[1] <= After(script, t)[1]
         /\ t[2] < Size(script[t[1]]) => After(script, t) = << t[1], t[2] + 1 >>
         /\ t[2] = Size(script[t[1]]) => After(script, t) = << t[1] + 1, 1 >>
  <1>1. /\ t \in Tokens /\ t[1] \in 1..Len(script) /\ t[2] \in 1..Size(script[t[1]])
        /\ t[1] \in Nat /\ t[2] \in Nat /\ Len(script) \in Nat
    BY DEF IsToken, Tokens
  <1>2. script[t[1]] \in Kinds
    BY <1>1
  <1>3. Size(script[t[1]]) \in 1..3
    BY <1>2, SizeIs
  <1>4. CASE t[2] < Size(script[t[1]])
    <2>1. After(script, t) = << t[1], t[2] + 1 >>
      BY <1>4 DEF After
    <2>2. QED
      BY <1>1, <1>3, <1>4, <2>1 DEF IsNext, IsToken, Tokens
  <1>5. CASE ~(t[2] < Size(script[t[1]]))
    <2>1. After(script, t) = << t[1] + 1, 1 >>
      BY <1>5 DEF After
    <2>2. ASSUME t[1] + 1 <= Len(script)
          PROVE  IsToken(script, << t[1] + 1, 1 >>)
      <3>1. script[t[1] + 1] \in Kinds
        BY <1>1, <2>2
      <3>2. Size(script[t[1] + 1]) \in 1..3
        BY <3>1, SizeIs
      <3>3. QED
        BY <1>1, <2>2, <3>2 DEF IsToken, Tokens
    <2>3. QED
      BY <1>1, <1>3, <1>5, <2>1, <2>2 DEF IsNext, Tokens
  <1>6. QED
    BY <1>4, <1>5

\* The client goes on with its stream.
LEMMA StretchAppend ==
  ASSUME NEW script \in Seq(Kinds), FramesAfterUpgrade(script),
         NEW s, Stretch(script, s), NEW t, IsToken(script, t),
         s # << >> => t = After(script, s[Len(s)])
  PROVE  Stretch(script, Append(s, t))
  <1> DEFINE r == Append(s, t)
             n == Len(s)
  <1>1. s \in Seq(Tokens) /\ t \in Tokens /\ n \in Nat
    BY DEF Stretch, IsToken
  <1>2. /\ r \in Seq(Tokens) /\ Len(r) = n + 1 /\ r[n + 1] = t
        /\ \A i \in 1..n : r[i] = s[i]
    BY <1>1
  <1>3. n # 0 => s # << >> /\ t = After(script, s[n])
    BY <1>1
  <1> HIDE DEF r, n
  <1>4. /\ \A i \in 1..n : IsToken(script, s[i])
        /\ \A i \in 1..n : i < n => s[i + 1] = After(script, s[i])
        /\ \A i, j \in 1..n : i <= j => s[i][1] <= s[j][1]
        /\ \A i, j \in 1..n :
             i <= j /\ script[s[i][1]] \in {"upgrade", "frame"} =>
               s[j] = << s[i][1] + (j - i), 1 >>
    BY DEF Stretch, n
  <1>5. \A i \in 1..n + 1 : i \in 1..n \/ i = n + 1
    BY <1>1
  <1>6. \A i \in 1..n + 1 : IsToken(script, r[i])
    BY <1>2, <1>4, <1>5
  <1>7. ASSUME NEW i \in 1..n + 1, i < n + 1
        PROVE  r[i + 1] = After(script, r[i])
    <2>1. CASE i = n
      <3>1. n # 0 /\ r[i] = s[n] /\ r[i + 1] = t
        BY <1>1, <1>2, <2>1
      <3>2. QED
        BY <1>3, <3>1
    <2>2. CASE i # n
      <3>1. i \in 1..n /\ i + 1 \in 1..n /\ i < n
        BY <1>1, <1>7, <2>2
      <3>2. QED
        BY <1>2, <1>4, <3>1
    <2>3. QED
      BY <2>1, <2>2
  <1>8. ASSUME NEW i \in 1..n PROVE s[i][1] <= t[1]
    <2>1. n \in 1..n /\ i <= n /\ n # 0
      BY <1>1
    <2>2. s[i][1] <= s[n][1] /\ s[n][1] <= t[1]
      BY <1>3, <1>4, <2>1, AfterIs
    <2>3. s[i] \in Tokens /\ s[n] \in Tokens
      BY <1>4, <2>1 DEF IsToken
    <2>4. QED
      BY <1>1, <2>2, <2>3, SMTT(30) DEF Tokens
  <1>9. ASSUME NEW i \in 1..n + 1, NEW j \in 1..n + 1, i <= j
        PROVE  r[i][1] <= r[j][1]
    <2>1. CASE j \in 1..n
      <3>1. i \in 1..n
        BY <1>1, <1>9, <2>1
      <3>2. QED
        BY <1>2, <1>4, <1>9, <2>1, <3>1
    <2>2. CASE j = n + 1 /\ i \in 1..n
      BY <1>2, <1>8, <2>2
    <2>3. CASE j = n + 1 /\ i = n + 1
      BY <1>1, <1>2, <2>3 DEF Tokens
    <2>4. QED
      BY <1>5, <2>1, <2>2, <2>3
  <1>10. ASSUME NEW i \in 1..n, script[s[i][1]] \in {"upgrade", "frame"}
         PROVE  t = << s[i][1] + (n + 1 - i), 1 >>
    <2>1. n \in 1..n /\ i <= n /\ n # 0
      BY <1>1
    <2>2. IsToken(script, s[i]) /\ IsToken(script, s[n]) /\ s[i][1] <= s[n][1]
      BY <1>4, <2>1
    <2>3. s[n] = << s[i][1] + (n - i), 1 >>
      BY <1>4, <1>10, <2>1
    <2>4. script[s[n][1]] \in {"upgrade", "frame"}
      BY <1>10, <2>2 DEF FramesAfterUpgrade, IsToken
    <2>5. Size(script[s[n][1]]) = 1
      BY <2>4, SizeIs DEF Kinds
    <2>6. t = << s[n][1] + 1, 1 >>
      BY <1>3, <2>1, <2>2, <2>3, <2>5, AfterIs
    <2>7. s[i][1] \in Nat
      BY <2>2 DEF IsToken
    <2>8. s[n][1] + 1 = s[i][1] + (n - i) + 1
      BY <2>3
    <2>9. s[i][1] + (n - i) + 1 = s[i][1] + (n + 1 - i)
      BY <1>1, <2>7, SMTT(30)
    <2>10. QED
      BY <2>6, <2>8, <2>9
  <1>11. ASSUME NEW i \in 1..n + 1, NEW j \in 1..n + 1, i <= j,
                script[r[i][1]] \in {"upgrade", "frame"}
         PROVE  r[j] = << r[i][1] + (j - i), 1 >>
    <2>1. CASE j \in 1..n
      <3>1. i \in 1..n
        BY <1>1, <1>11, <2>1
      <3>2. QED
        BY <1>2, <1>4, <1>11, <2>1, <3>1
    <2>2. CASE j = n + 1 /\ i \in 1..n
      <3>1. r[i] = s[i] /\ r[j] = t
        BY <1>2, <2>2
      <3>2. t = << s[i][1] + (n + 1 - i), 1 >>
        BY <1>10, <1>11, <2>2, <3>1
      <3>3. n + 1 - i = j - i
        BY <1>1, <2>2
      <3>4. QED
        BY <3>1, <3>2, <3>3
    <2>3. CASE j = n + 1 /\ i = n + 1
      <3>1. r[i] = t /\ r[j] = t /\ j - i = 0 /\ t[1] \in Nat
        BY <1>1, <1>2, <2>3 DEF Tokens
      <3>2. Size(script[t[1]]) = 1
        BY <1>11, <3>1, SizeIs DEF Kinds
      <3>3. t[2] = 1
        BY <3>2 DEF IsToken
      <3>4. t = << t[1], t[2] >>
        BY <1>1 DEF Tokens
      <3>5. QED
        BY <3>1, <3>3, <3>4
    <2>4. QED
      BY <1>5, <2>1, <2>2, <2>3
  <1>12. QED
    BY <1>2, <1>6, <1>7, <1>9, <1>11 DEF Stretch, r

\* The server takes the first k tokens.
LEMMA StretchRest ==
  ASSUME NEW script \in Seq(Kinds), NEW s, Stretch(script, s), NEW k \in 0..Len(s)
  PROVE  /\ Stretch(script, SubSeq(s, k + 1, Len(s)))
         /\ Len(SubSeq(s, k + 1, Len(s))) = Len(s) - k
         /\ \A i \in 1..Len(s) - k : SubSeq(s, k + 1, Len(s))[i] = s[k + i]
  <1> DEFINE r == SubSeq(s, k + 1, Len(s))
             n == Len(s)
  <1>1. s \in Seq(Tokens) /\ n \in Nat /\ k \in 0..n
    BY DEF Stretch
  <1>2. \A i \in k + 1..n : s[i] \in Tokens
    BY <1>1
  <1>3. r \in Seq(Tokens) /\ Len(r) = n - k /\ \A i \in 1..n - k : r[i] = s[k + i]
    BY <1>1, <1>2, SubSeqProperties
  <1> HIDE DEF r, n
  <1>4. /\ \A i \in 1..n : IsToken(script, s[i])
        /\ \A i \in 1..n : i < n => s[i + 1] = After(script, s[i])
        /\ \A i, j \in 1..n : i <= j => s[i][1] <= s[j][1]
        /\ \A i, j \in 1..n :
             i <= j /\ script[s[i][1]] \in {"upgrade", "frame"} =>
               s[j] = << s[i][1] + (j - i), 1 >>
    BY DEF Stretch, n
  <1>5. ASSUME NEW i \in 1..n - k
        PROVE  IsToken(script, r[i]) /\ (i < n - k => r[i + 1] = After(script, r[i]))
    <2>1. k + i \in 1..n
      BY <1>1
    <2>2. i < n - k => i + 1 \in 1..n - k /\ k + i < n /\ (k + i) + 1 = k + (i + 1)
      BY <1>1
    <2>3. QED
      BY <1>3, <1>4, <2>1, <2>2
  <1>6. ASSUME NEW i \in 1..n - k, NEW j \in 1..n - k, i <= j
        PROVE  /\ r[i][1] <= r[j][1]
               /\ script[r[i][1]] \in {"upgrade", "frame"} =>
                    r[j] = << r[i][1] + (j - i), 1 >>
    <2>1. k + i \in 1..n /\ k + j \in 1..n /\ k + i <= k + j /\ (k + j) - (k + i) = j - i
      BY <1>1, <1>6
    <2>2. r[i] = s[k + i] /\ r[j] = s[k + j]
      BY <1>3
    <2>3. QED
      BY <1>4, <2>1, <2>2
  <1>7. Stretch(script, r)
    BY <1>3, <1>5, <1>6 DEF Stretch
  <1>8. QED
    BY <1>3, <1>7 DEF r, n

-----------------------------------------------------------------------------
(* The invariant of a connection *)

\* What was sent and has not been taken from recv_mbuf.
Rest(c) == c.in \o c.net

LastLost(c) == c.handled # << >> /\ c.handled[Len(c.handled)][2] = "lost"

\* t is of the rest of a request whose beginning was lost.
Torn(c, t) == LastLost(c) /\ t[1] = Len(c.handled) /\ t[2] > 1

\* Nothing but t can be the next token taken.
Due(c, t) ==
  IF c.upload = 0 THEN t = << Len(c.handled) + 1, 1 >> \/ Torn(c, t)
  ELSE t[1] = c.upload /\ t[2] \in {2, 3}

Numbered(c) ==
  \A i \in DOMAIN c.handled :
    /\ c.handled[i][1] = i
    /\ c.handled[i][2] = "lost" => BehindUpload(c, i)

\* An upload in progress is the request after the ones handled.
Uploading(c) ==
  c.upload # 0 =>
    /\ c.build.streaming
    /\ c.upload = Len(c.handled) + 1 /\ c.upload \in DOMAIN c.script
    /\ c.script[c.upload] = "upload" /\ ~c.ws

\* User data: that of uploads that ended is deleted, that of the one in
\* progress is the connection's.
Owned(c) ==
  /\ c.dead \subseteq 1..Len(c.handled) /\ c.dead \subseteq c.made
  /\ \A u \in c.made : u \in c.dead \/ u = WsData \/ (u = c.upload /\ u # 0)
  /\ IF c.upload = 0 THEN c.ud = Listener \/ (c.ud = WsData /\ WsData \in c.made)
     ELSE c.ud = c.upload /\ c.upload \in c.made

\* After the upgrade nothing but frames is left.
FramesOnly(c) ==
  c.ws =>
    /\ ~LastLost(c)
    /\ \A m \in DOMAIN c.script : m > Len(c.handled) => c.script[m] = "frame"

InLine(c) ==
  /\ Stretch(c.script, Rest(c))
  /\ Rest(c) # << >> => Due(c, Rest(c)[1])
  /\ c.client # "gone" =>
       /\ IsNext(c.script, c.next)
       /\ IF Rest(c) = << >> THEN Due(c, c.next)
          ELSE c.next = After(c.script, Rest(c)[Len(Rest(c))])

Good(c) ==
  /\ c \in Connection /\ FramesAfterUpgrade(c.script)
  /\ Numbered(c) /\ Uploading(c) /\ Owned(c)
  /\ IF c.st = "closed" THEN c.upload = 0 ELSE InLine(c) /\ FramesOnly(c)
  /\ c.st \in {"none", "backlog"} => c.upload = 0 /\ c.ud = Listener

\* An open connection whose socket was read.
Idle(c) == Good(c) /\ c.st = "open" /\ c.net = << >>

\* Answers do not matter to the invariant.
LEMMA AnsweredGood ==
  ASSUME NEW c, NEW d, Good(c), Answered(c, d)
  PROVE  Good(d)
  <1>1. /\ d \in Connection /\ c \in Connection
        /\ d.st = c.st /\ d.script = c.script /\ d.client = c.client
        /\ d.next = c.next /\ d.net = c.net /\ d.in = c.in /\ d.ws = c.ws
        /\ d.upload = c.upload /\ d.handled = c.handled /\ d.ud = c.ud
        /\ d.made = c.made /\ d.dead = c.dead /\ d.build = c.build
    BY DEF Answered, Good
  <1>2. Rest(d) = Rest(c)
    BY <1>1 DEF Rest
  <1>3. InLine(c) => InLine(d)
    BY <1>1, <1>2 DEF InLine, Due, Torn, LastLost
  <1>4. Numbered(d) /\ Uploading(d) /\ Owned(d)
    BY <1>1 DEF Good, Numbered, BehindUpload, Uploading, Owned
  <1>5. FramesOnly(c) => FramesOnly(d)
    BY <1>1 DEF FramesOnly, LastLost
  <1>6. QED
    BY <1>1, <1>3, <1>4, <1>5 DEF Good

\* The handler takes k tokens.
LEMMA Taking ==
  ASSUME NEW c \in Connection, InLine(c), c.net = << >>, NEW k \in 1..Len(c.in),
         NEW d, d.in = SubSeq(c.in, k + 1, Len(c.in)), d.net = << >>,
         d.script = c.script, d.client = c.client, d.next = c.next,
         Due(d, After(c.script, c.in[k]))
  PROVE  InLine(d)
  <1> DEFINE s == c.in
             r == d.in
             n == Len(s)
  <1>1. s \in Seq(Tokens) /\ Rest(c) = s /\ n \in Nat
    BY DEF Connection, Rest
  <1>2. Stretch(c.script, s)
    BY <1>1 DEF InLine
  <1>3. k \in 0..n
    BY <1>1
  <1>4. Stretch(c.script, r) /\ Len(r) = n - k /\ \A i \in 1..n - k : r[i] = s[k + i]
    <2>1. c.script \in Seq(Kinds)
      BY DEF Connection
    <2>2. r = SubSeq(s, k + 1, n)
      OBVIOUS
    <2> HIDE DEF s, r
    <2>3. QED
      BY <1>2, <1>3, <2>1, <2>2, StretchRest
  <1>5. r \in Seq(Tokens) /\ Rest(d) = r
    BY <1>4 DEF Stretch, Rest
  <1> HIDE DEF s, r, n
  <1>6. ASSUME k < n
        PROVE  r # << >> /\ Due(d, r[1]) /\ r[Len(r)] = s[n] /\ s # << >>
    <2>1. n - k \in 1..n - k /\ 1 \in 1..n - k /\ k + (n - k) = n /\ n - k # 0
      BY <1>1, <1>6
    <2>2. r # << >> /\ r[Len(r)] = s[n] /\ r[1] = s[k + 1]
      BY <1>4, <1>5, <2>1
    <2>3. s[k + 1] = After(c.script, s[k])
      BY <1>2, <1>6 DEF Stretch, n
    <2>4. s # << >>
      BY <1>1, <1>6 DEF n
    <2>5. QED
      BY <2>2, <2>3, <2>4 DEF s
  <1>7. CASE k < n
    BY <1>1, <1>4, <1>5, <1>6, <1>7 DEF InLine, n
  <1>8. CASE ~(k < n)
    <2>1. k = n /\ Len(r) = 0
      BY <1>1, <1>4, <1>8 DEF n
    <2>2. r = << >>
      BY <1>5, <2>1
    <2>3. s # << >>
      BY <1>1, <2>1 DEF n
    <2>4. c.client # "gone" => c.next = After(c.script, s[k]) /\ IsNext(c.script, c.next)
      BY <1>1, <2>1, <2>3 DEF InLine, n
    <2>5. QED
      BY <1>4, <1>5, <2>2, <2>4 DEF InLine, s
  <1>9. QED
    BY <1>7, <1>8

-----------------------------------------------------------------------------
(* What the event handler makes of recv_mbuf *)

LEMMA ReceivedIs ==
  ASSUME NEW c \in Connection, NEW n, NEW k \in 0..Len(c.in),
         \A i \in 1..Len(c.in) : c.in[i][1] = n <=> i <= k
  PROVE  Received(c, n) = k
  <1>1. Len(c.in) \in Nat
    BY DEF Connection
  <1>2. { i \in 1..Len(c.in) : c.in[i][1] = n } = 1..k
    BY <1>1
  <1>3. Cardinality(1..k) = k
    <2>1. Cardinality(1..k) = IF 1 > k THEN 0 ELSE k - 1 + 1
      BY FS_Interval
    <2>2. QED
      BY <1>1, <2>1
  <1>4. QED
    BY <1>2, <1>3 DEF Received

\* No more tokens of a request than there are in recv_mbuf.
LEMMA ReceivedAtMost ==
  ASSUME NEW c \in Connection, NEW n
  PROVE  Received(c, n) \in 0..Len(c.in)
  <1>1. Len(c.in) \in Nat
    BY DEF Connection
  <1>2. IsFiniteSet(1..Len(c.in)) /\ Cardinality(1..Len(c.in)) = Len(c.in)
    <2>1. 1 \in Int /\ Len(c.in) \in Int
      BY <1>1
    <2>2. /\ IsFiniteSet(1..Len(c.in))
          /\ Cardinality(1..Len(c.in)) = IF 1 > Len(c.in) THEN 0 ELSE Len(c.in) - 1 + 1
      BY <2>1, FS_Interval, Zenon
    <2>3. QED
      BY <1>1, <2>2
  <1> DEFINE S == { i \in 1..Len(c.in) : c.in[i][1] = n }
  <1>3. S \subseteq 1..Len(c.in)
    OBVIOUS
  <1> HIDE DEF S
  <1>4. IsFiniteSet(S) /\ Cardinality(S) <= Cardinality(1..Len(c.in))
    BY <1>2, <1>3, FS_Subset
  <1>5. Cardinality(S) \in Nat
    BY <1>4, FS_CardinalityType
  <1>6. QED
    BY <1>1, <1>2, <1>4, <1>5 DEF Received, S

\* When nothing is left in the socket, recv_mbuf has all that was sent.
LEMMA Buffer ==
  ASSUME NEW c, Good(c), c.st = "open", c.net = << >>
  PROVE  /\ c.in \in Seq(Tokens) /\ Len(c.in) \in Nat /\ c.script \in Seq(Kinds)
         /\ Stretch(c.script, c.in) /\ InLine(c) /\ FramesOnly(c)
         /\ \A i \in 1..Len(c.in) : IsToken(c.script, c.in[i])
         /\ c.in # << >> => Due(c, c.in[1]) /\ 1 \in 1..Len(c.in)
         /\ c \in Connection
         /\ \A k \in 0..Len(c.in) : SubSeq(c.in, k + 1, Len(c.in)) \in Seq(Tokens)
  <1>1. c.in \in Seq(Tokens) /\ c.script \in Seq(Kinds) /\ c \in Connection
    BY DEF Good, Connection
  <1>2. Rest(c) = c.in
    BY <1>1 DEF Rest
  <1>3. InLine(c) /\ FramesOnly(c)
    BY DEF Good
  <1>4. Stretch(c.script, c.in) /\ (c.in # << >> => Due(c, c.in[1]))
    BY <1>2, <1>3 DEF InLine
  <1>5. c.in # << >> => 1 \in 1..Len(c.in)
    BY <1>1
  <1>6. \A k \in 0..Len(c.in) : SubSeq(c.in, k + 1, Len(c.in)) \in Seq(Tokens)
    BY <1>4, StretchRest DEF Stretch
  <1>7. QED
    BY <1>1, <1>3, <1>4, <1>5, <1>6 DEF Stretch

LEMMA Concatenated ==
  ASSUME NEW S, NEW s \in Seq(S), NEW t \in Seq(S)
  PROVE  /\ s \o t \in Seq(S) /\ Len(s \o t) = Len(s) + Len(t)
         /\ \A i \in 1..Len(s) + Len(t) :
              (s \o t)[i] = IF i <= Len(s) THEN s[i] ELSE t[i - Len(s)]
  BY ConcatProperties, Zenon

\* r is what c has handled, and its frames.
FramesHeard(c, r) ==
  /\ r \in Seq(Nat \X Hows)
  /\ Len(r) = Len(c.handled) + Len(c.in)
  /\ \A i \in 1..Len(c.handled) + Len(c.in) :
       /\ r[i][1] = i
       /\ r[i] = IF i <= Len(c.handled) THEN c.handled[i] ELSE << i, "whole" >>

\* The frames of recv_mbuf are the requests after those handled.
LEMMA FramesHandled ==
  ASSUME NEW c \in Connection, Numbered(c),
         \A i \in 1..Len(c.in) : c.in[i] = << Len(c.handled) + i, 1 >>,
         NEW r, r = c.handled \o [i \in 1..Len(c.in) |-> << c.in[i][1], "whole" >>]
  PROVE  FramesHeard(c, r)
  <1> DEFINE S == Nat \X Hows
             n == Len(c.in)
             h == Len(c.handled)
             old == c.handled
             new == [i \in 1..n |-> << c.in[i][1], "whole" >>]
  <1>1. n \in Nat /\ h \in Nat /\ old \in Seq(S) /\ Len(old) = h
    BY DEF Connection
  <1>2. \A i \in 1..n : new[i] = << h + i, "whole" >>
    OBVIOUS
  <1>3. new \in Seq(S) /\ Len(new) = n
    <2>1. \A i \in 1..n : << h + i, "whole" >> \in S
      BY <1>1
    <2>2. \A i \in 1..n : << c.in[i][1], "whole" >> \in S
      BY <1>2, <2>1
    <2> HIDE DEF S, n, h
    <2>3. QED
      BY <1>1, <2>2
  <1>4. \A i \in 1..h : old[i][1] = i
    BY <1>1 DEF Numbered
  <1>5. r = old \o new
    OBVIOUS
  <1> HIDE DEF S, n, h, old, new
  <1>6. /\ r \in Seq(S) /\ Len(r) = h + n
        /\ \A i \in 1..h + n : r[i] = IF i <= h THEN old[i] ELSE new[i - h]
    <2>1. /\ old \o new \in Seq(S) /\ Len(old \o new) = Len(old) + Len(new)
          /\ \A i \in 1..Len(old) + Len(new) :
              (old \o new)[i] = IF i <= Len(old) THEN old[i] ELSE new[i - Len(old)]
      BY <1>1, <1>3, Concatenated, Zenon
    <2>2. QED
      BY <1>1, <1>3, <1>5, <2>1, Zenon
  <1>7. ASSUME NEW i \in 1..h + n
        PROVE  r[i][1] = i /\ r[i] = IF i <= h THEN old[i] ELSE << i, "whole" >>
    <2>1. CASE i <= h
      <3>1. i \in 1..h
        BY <1>1, <2>1
      <3>2. QED
        BY <1>4, <1>6, <2>1, <3>1
    <2>2. CASE ~(i <= h)
      <3>1. i - h \in 1..n /\ h + (i - h) = i
        BY <1>1, <2>2
      <3>2. new[i - h] = << i, "whole" >>
        BY <1>2, <3>1
      <3>3. r[i] = new[i - h]
        BY <1>6, <2>2, Zenon
      <3>4. r[i][1] = i /\ r[i] = << i, "whole" >>
        <4>1. << i, "whole" >>[1] = i
          OBVIOUS
        <4>2. QED
          BY <3>2, <3>3, <4>1, Zenon
      <3>5. QED
        BY <2>2, <3>4, Zenon
    <2>3. QED
      BY <2>1, <2>2
  <1>8. QED
    BY <1>6, <1>7 DEF FramesHeard, S, n, h, old

\* The frames in recv_mbuf are the requests after those handled.
LEMMA FramesAre ==
  ASSUME NEW c, Good(c), c.st = "open", c.net = << >>, c.ws, NEW i \in 1..Len(c.in)
  PROVE  /\ c.in[i] = << Len(c.handled) + i, 1 >>
         /\ c.script[Len(c.handled) + i] = "frame"
         /\ Len(c.handled) + i \in DOMAIN c.script
  <1> DEFINE n == Len(c.in)
             h == Len(c.handled)
  <1>1. /\ c.in \in Seq(Tokens) /\ n \in Nat /\ c.script \in Seq(Kinds)
        /\ Stretch(c.script, c.in) /\ InLine(c) /\ FramesOnly(c) /\ c \in Connection
        /\ \A j \in 1..n : IsToken(c.script, c.in[j])
        /\ c.in # << >> => Due(c, c.in[1]) /\ 1 \in 1..n
    BY Buffer
  <1>2. c.upload = 0 /\ c.handled \in Seq(Nat \X Hows) /\ h \in Nat
    BY <1>1 DEF Good, Uploading, Connection
  <1>3. c.in # << >>
      BY <1>1
  <1>4. c.in[1] = << h + 1, 1 >>
      BY <1>1, <1>2, <1>3 DEF Due, Torn, FramesOnly
  <1>5. h + 1 \in DOMAIN c.script
      BY <1>1, <1>3, <1>4 DEF IsToken
  <1>6. c.script[h + 1] = "frame"
      BY <1>2, <1>1, <1>5 DEF FramesOnly
  <1>7. c.in[i] = << h + 1 + (i - 1), 1 >>
      <2>1. c.in[1][1] = h + 1
        BY <1>4
      <2>2. 1 \in 1..n /\ 1 <= i
        BY <1>1, <1>3
      <2>3. \A a, b \in 1..n :
              a <= b /\ c.script[c.in[a][1]] \in {"upgrade", "frame"} =>
                c.in[b] = << c.in[a][1] + (b - a), 1 >>
        BY <1>1 DEF Stretch
      <2>4. c.in[i] = << c.in[1][1] + (i - 1), 1 >>
        BY <1>6, <2>1, <2>2, <2>3
      <2>5. QED
        BY <2>1, <2>4
  <1>8. h + 1 + (i - 1) = h + i /\ h + i > h
      BY <1>1, <1>2
  <1>9. h + i \in DOMAIN c.script
      BY <1>1, <1>7, <1>8 DEF IsToken
  <1>10. QED
      BY <1>1, <1>7, <1>8, <1>9 DEF FramesOnly

\* Web sockets: each frame is an event.
LEMMA WsHandlerGood ==
  ASSUME NEW c, Good(c), c.st = "open", c.net = << >>, c.ws
  PROVE  Idle(mg_ws_handler(c))
  <1> DEFINE n == Len(c.in)
             h == Len(c.handled)
             new == [i \in 1..n |-> << c.in[i][1], "whole" >>]
             d == mg_ws_handler(c)
  <1>1. /\ c.in \in Seq(Tokens) /\ n \in Nat /\ c.script \in Seq(Kinds)
        /\ Stretch(c.script, c.in) /\ InLine(c) /\ FramesOnly(c) /\ c \in Connection
        /\ \A i \in 1..n : IsToken(c.script, c.in[i])
        /\ c.in # << >> => Due(c, c.in[1]) /\ 1 \in 1..n
    BY Buffer
  <1>2. c.upload = 0 /\ c.handled \in Seq(Nat \X Hows) /\ h \in Nat
    BY <1>1 DEF Good, Uploading, Connection
  <1>3. ASSUME NEW i \in 1..n
        PROVE  c.in[i] = << h + i, 1 >> /\ c.script[h + i] = "frame"
    BY FramesAre
  <1>4. /\ d.in = << >> /\ d.handled = c.handled \o new
        /\ d.st = c.st /\ d.script = c.script /\ d.client = c.client
        /\ d.next = c.next /\ d.net = c.net /\ d.ws = c.ws
        /\ d.upload = c.upload /\ d.ud = c.ud /\ d.made = c.made /\ d.dead = c.dead
        /\ d.build = c.build
    BY <1>1 DEF mg_ws_handler, Connection
  <1>5. /\ d.handled \in Seq(Nat \X Hows)
        /\ Len(d.handled) = h + n
        /\ \A i \in 1..h + n :
             /\ d.handled[i][1] = i
             /\ d.handled[i] = IF i <= h THEN c.handled[i] ELSE << i, "whole" >>
    <2>1. Numbered(c) /\ \A i \in 1..Len(c.in) : c.in[i] = << Len(c.handled) + i, 1 >>
      BY <1>3 DEF Good
    <2> DEFINE r == c.handled \o [i \in 1..Len(c.in) |-> << c.in[i][1], "whole" >>]
    <2>2. d.handled = r
      BY <1>4
    <2> HIDE DEF d
    <2>3. FramesHeard(c, d.handled)
      BY <1>1, <2>1, <2>2, FramesHandled
    <2>4. QED
      BY <2>3, Zenon DEF FramesHeard
  <1>6. d \in Connection
    <2>1. << >> \in Seq(Tokens)
      OBVIOUS
    <2>2. d = [c EXCEPT !.in = << >>, !.handled = d.handled]
      BY <1>1 DEF mg_ws_handler, Connection
    <2> HIDE DEF d
    <2>3. QED
      BY <1>1, <1>5, <2>1, <2>2, ZenonT(40) DEF Connection
  <1>7. Len(d.handled) = h + n
    BY <1>5
  <1>8. Numbered(d)
    <2> HIDE DEF d, n
    <2>1. DOMAIN d.handled = 1..h + n /\ DOMAIN c.handled = 1..h
      BY <1>2, <1>5
    <2> HIDE DEF h
    <2>2. ASSUME NEW i \in 1..h + n, d.handled[i][2] = "lost"
          PROVE  BehindUpload(d, i)
      <3>0. ASSUME ~(i <= h) PROVE FALSE
        <4>1. d.handled[i] = << i, "whole" >>
          BY <1>5, <3>0, Zenon
        <4>2. QED
          BY <2>2, <4>1
      <3>1. i \in 1..h /\ d.handled[i] = c.handled[i]
        <4>1. i \in 1..h
          BY <1>2, <3>0
        <4>2. QED
          BY <1>5, <3>0, <4>1, Zenon
      <3>2. c.handled[i][2] = "lost"
        BY <2>2, <3>1
      <3>3. BehindUpload(c, i)
        BY <2>1, <3>1, <3>2 DEF Good, Numbered
      <3>4. i - 1 \in 1..h + n /\ d.handled[i - 1] = c.handled[i - 1]
        <4>1. i > 1
          BY <3>3 DEF BehindUpload
        <4>2. i - 1 \in 1..h + n /\ i - 1 <= h
          BY <1>1, <1>2, <3>1, <4>1
        <4>3. QED
          BY <1>5, <4>2, Zenon
      <3>5. QED
        BY <1>4, <3>3, <3>4 DEF BehindUpload
    <2>3. QED
      BY <1>5, <2>1, <2>2 DEF Numbered
  <1>12. c.ws => ~LastLost(d)
    <2> HIDE DEF d, n
    <2>1. ASSUME d.handled # << >>
          PROVE  d.handled[h + n][2] # "lost"
      <3> HIDE DEF h
      <3>1. h + n \in 1..h + n
        BY <1>1, <1>2, <1>5, <2>1
      <3>2. CASE n = 0
        <4>1. d.handled[h + n] = c.handled[h] /\ h # 0
          BY <1>1, <1>2, <1>5, <3>1, <3>2
        <4>2. c.handled # << >> /\ ~LastLost(c)
          BY <1>1, <1>2, <4>1 DEF FramesOnly, h
        <4>3. QED
          BY <4>1, <4>2 DEF LastLost, h
      <3>3. CASE n # 0
        <4>1. ~(h + n <= h)
          BY <1>1, <1>2, <3>3
        <4>2. d.handled[h + n] = << h + n, "whole" >>
          BY <1>5, <3>1, <4>1, Zenon
        <4>3. QED
          BY <4>2
      <3>4. QED
        BY <3>2, <3>3
    <2>2. QED
      BY <1>5, <2>1 DEF LastLost
  <1> HIDE DEF d, h, n, new
  <1>9. Uploading(d) /\ Owned(d) /\ FramesOnly(d)
    <2>1. Owned(d)
      <3>1. 1..Len(c.handled) \subseteq 1..Len(d.handled)
        BY <1>1, <1>2, <1>7 DEF h
      <3>2. QED
        BY <1>2, <1>4, <3>1 DEF Good, Owned
    <2>2. FramesOnly(d)
      <3>1. ASSUME NEW m \in DOMAIN d.script, m > Len(d.handled)
            PROVE  d.script[m] = "frame"
        <4>1. m \in DOMAIN c.script /\ m > Len(c.handled)
          BY <1>1, <1>2, <1>4, <1>7, <3>1 DEF h
        <4>2. QED
          BY <1>1, <1>4, <4>1 DEF FramesOnly
      <3>2. QED
        BY <1>12, <3>1 DEF FramesOnly
    <2>3. QED
      BY <1>2, <1>4, <2>1, <2>2 DEF Uploading
  <1>10. InLine(d)
    <2>1. CASE c.in = << >>
      <3>1. n = 0 /\ Len(d.handled) = Len(c.handled)
        BY <1>2, <1>7, <2>1 DEF n, h
      <3>2. Rest(d) = Rest(c)
        BY <1>4, <2>1 DEF Rest
      <3>3. QED
        BY <1>1, <1>4, <3>1, <3>2 DEF InLine, Due, Torn, FramesOnly
    <2>2. CASE c.in # << >>
      <3>1. n \in 1..n
        BY <1>1, <2>2
      <3>2. c.in[n] = << h + n, 1 >> /\ c.script[h + n] = "frame"
        BY <1>3, <3>1
      <3>3. Size("frame") = 1
        BY SizeIs DEF Kinds
      <3>4. After(c.script, c.in[n]) = << h + n + 1, 1 >>
        BY <3>2, <3>3 DEF After
      <3>5. Due(d, After(c.script, c.in[n]))
        BY <1>2, <1>4, <1>7, <3>4 DEF Due
      <3>6. SubSeq(c.in, n + 1, n) = << >>
        BY <1>1, SubSeqEmpty
      <3>7. QED
        BY <1>1, <1>4, <3>1, <3>5, <3>6, Taking DEF n
    <2>3. QED
      BY <2>1, <2>2
  <1>11. QED
    BY <1>4, <1>6, <1>8, <1>9, <1>10 DEF Good, Idle, d

\* The request after those handled keeps the numbers in step.
LEMMA HeardNumbered ==
  ASSUME NEW c \in Connection, Numbered(c), NEW how \in Hows, how # "lost",
         NEW n, n = Len(c.handled) + 1, NEW d, d = Heard(c, n, how)
  PROVE  /\ d \in Connection /\ Numbered(d) /\ d.handled[n][2] = how
         /\ Len(d.handled) = Len(c.handled) + 1 /\ Len(c.handled) \in Nat
         /\ d.st = c.st /\ d.script = c.script /\ d.client = c.client
         /\ d.next = c.next /\ d.net = c.net /\ d.in = c.in /\ d.ws = c.ws
         /\ d.upload = c.upload /\ d.ud = c.ud /\ d.made = c.made
         /\ d.dead = c.dead /\ d.build = c.build
  <1>1. c.handled \in Seq(Nat \X Hows) /\ n \in Nat
    BY DEF Connection
  <1>2. d \in Connection
    BY <1>1, HeardConnection
  <1>3. d.handled = Append(c.handled, << n, how >>)
    BY DEF Heard, Connection
  <1>4. /\ Len(d.handled) = n
        /\ \A i \in 1..n : d.handled[i] = IF i = n THEN << n, how >> ELSE c.handled[i]
    <2> DEFINE S == Nat \X Hows
               s == c.handled
               t == << n, how >>
    <2>1. s \in Seq(S) /\ t \in S /\ n = Len(s) + 1 /\ d.handled = Append(s, t)
      BY <1>1, <1>3
    <2> HIDE DEF S, s, t
    <2>2. /\ Len(Append(s, t)) = n
          /\ \A i \in 1..n : Append(s, t)[i] = IF i = n THEN t ELSE s[i]
      BY <2>1
    <2>3. QED
      BY <2>1, <2>2 DEF s, t
  <1>5. DOMAIN d.handled = 1..n /\ DOMAIN c.handled = 1..n - 1
    <2>1. d.handled \in Seq(Nat \X Hows)
      BY <1>2 DEF Connection
    <2>2. QED
      BY <1>1, <1>4, <2>1
  <1>6. Numbered(d)
    <2> DEFINE R(e, i) == /\ e.handled[i][1] = i
                          /\ e.handled[i][2] = "lost" => BehindUpload(e, i)
    <2>1. ASSUME NEW i \in 1..n PROVE R(d, i)
      <3>1. CASE i = n
        BY <1>4, <3>1
      <3>2. CASE i # n
        <4>1. i \in 1..n - 1 /\ R(c, i)
          BY <1>1, <1>5, <3>2 DEF Numbered
        <4>2. i > 1 => i - 1 \in 1..n - 1
          BY <1>1, <3>2
        <4>3. d.script = c.script /\ d.build = c.build
          BY DEF Heard, Connection
        <4>4. \A j \in 1..n - 1 : d.handled[j] = c.handled[j]
          BY <1>1, <1>4
        <4>5. QED
          BY <4>1, <4>2, <4>3, <4>4 DEF BehindUpload
      <3>3. QED
        BY <3>1, <3>2
    <2>2. QED
      BY <1>5, <2>1 DEF Numbered
  <1>7. /\ d.st = c.st /\ d.script = c.script /\ d.client = c.client
        /\ d.next = c.next /\ d.net = c.net /\ d.in = c.in /\ d.ws = c.ws
        /\ d.upload = c.upload /\ d.ud = c.ud /\ d.made = c.made
        /\ d.dead = c.dead /\ d.build = c.build
    BY DEF Heard, Connection
  <1>8. Len(c.handled) \in Nat
    BY <1>1
  <1>9. d.handled[n][2] = how
    BY <1>1, <1>4, <1>8
  <1>10. QED
    BY <1>1, <1>2, <1>4, <1>6, <1>7, <1>8, <1>9

\* e is d after the upload of c has ended.
Ended(c, d, e) ==
  /\ e \in Connection /\ Numbered(e)
  /\ Len(e.handled) = Len(c.handled) + 1 /\ Len(c.handled) \in Nat
  /\ e.st = d.st /\ e.script = d.script /\ e.client = d.client
  /\ e.next = d.next /\ e.net = d.net /\ e.in = d.in /\ e.ws = d.ws
  /\ e.upload = d.upload /\ e.ud = Listener
  /\ e.made = c.made /\ e.build = c.build
  /\ e.dead \subseteq 1..Len(e.handled) /\ e.dead \subseteq e.made
  /\ \A u \in e.made : u \in e.dead \/ u = WsData

\* The last part of an upload ends it, or the close of its connection does.
LEMMA UploadEnds ==
  ASSUME NEW c \in Connection, Numbered(c), Uploading(c), Owned(c), c.upload # 0,
         NEW d \in Connection, d.handled = c.handled, d.upload \in {c.upload, 0},
         d.ud = c.ud, d.made = c.made, d.dead = c.dead, d.script = c.script,
         d.build = c.build, NEW how \in Hows, how # "lost",
         NEW e, e = onMultipartRequestEnd(d, c.upload, how)
  PROVE  Ended(c, d, e) /\ e.handled[c.upload][2] = how
  <1> DEFINE n == c.upload
             h == Heard(d, n, how)
             r == Released(h)
  <1>1. n = Len(d.handled) + 1 /\ Numbered(d) /\ Len(d.handled) = Len(c.handled)
    BY DEF Uploading, Numbered, BehindUpload
  <1>2. /\ h \in Connection /\ Numbered(h) /\ h.handled[n][2] = how
        /\ Len(h.handled) = Len(c.handled) + 1 /\ Len(c.handled) \in Nat
        /\ h.st = d.st /\ h.script = d.script /\ h.client = d.client
        /\ h.next = d.next /\ h.net = d.net /\ h.in = d.in /\ h.ws = d.ws
        /\ h.upload = d.upload /\ h.ud = d.ud /\ h.made = d.made
        /\ h.dead = d.dead /\ h.build = d.build
    BY <1>1, HeardNumbered, SMTT(30)
  <1>3. n \in Nat
    <2> DEFINE k == Len(c.handled)
    <2>1. k \in Nat
      BY <1>2
    <2>2. n = k + 1
      BY <1>1
    <2> HIDE DEF k, n, h, r
    <2>3. QED
      BY <2>1, <2>2
  <1>4. Answered(r, e)
    BY <1>3, MultipartEndAnswers
  <1>5. r = [h EXCEPT !.dead = @ \cup {h.ud}, !.ud = Original(h.ud)]
    BY DEF Released
  <1> HIDE DEF h, r
  <1>11. h.ud = n /\ Original(n) = Listener
    BY <1>2, <1>3 DEF Owned, Original, Listener
  <1>6. /\ r.handled = h.handled /\ r.ud = Listener /\ r.dead = h.dead \cup {h.ud}
        /\ r.st = h.st /\ r.script = h.script /\ r.client = h.client
        /\ r.next = h.next /\ r.net = h.net /\ r.in = h.in /\ r.ws = h.ws
        /\ r.upload = h.upload /\ r.made = h.made /\ r.build = h.build
    BY <1>2, <1>5, <1>11 DEF Connection
  <1>7. /\ e \in Connection /\ e.handled = h.handled /\ e.ud = Listener
        /\ e.dead = c.dead \cup {n} /\ e.made = c.made
        /\ e.st = d.st /\ e.script = d.script /\ e.client = d.client
        /\ e.next = d.next /\ e.net = d.net /\ e.in = d.in /\ e.ws = d.ws
        /\ e.upload = d.upload /\ e.build = h.build
    BY <1>2, <1>4, <1>6, <1>11 DEF Answered
  <1>8. Numbered(e) /\ Len(e.handled) = Len(c.handled) + 1
    BY <1>2, <1>7 DEF Numbered, BehindUpload
  <1>9. /\ e.dead \subseteq 1..Len(e.handled) /\ e.dead \subseteq e.made
        /\ \A u \in e.made : u \in e.dead \/ u = WsData
    <2>1. n \in c.made
      BY DEF Owned
    <2>2. \A u \in c.dead : u \in 1..Len(c.handled) /\ u \in c.made
      BY DEF Owned
    <2>3. \A u \in c.made : u \in c.dead \/ u = WsData \/ u = n
      BY DEF Owned
    <2>4. \A u \in 1..Len(c.handled) : u \in 1..Len(e.handled)
      BY <1>2, <1>8
    <2>5. n \in 1..Len(e.handled)
      BY <1>1, <1>2, <1>8
    <2>6. QED
      BY <1>7, <2>1, <2>2, <2>3, <2>4, <2>5
  <1>10. QED
    BY <1>2, <1>7, <1>8, <1>9 DEF Ended

\* What was behind an upload that ended is lost, and accounted for.
LEMMA RemoveAllGood ==
  ASSUME NEW c, Idle(c), c.upload = 0, ~c.ws, c.build.streaming,
         NEW h, h = Len(c.handled), h # 0, c.script[h] = "upload",
         c.handled[h][2] = "whole"
  PROVE  Idle(RemoveAll(c))
  <1> DEFINE len == Len(c.in)
             last == IF c.in = << >> THEN h ELSE c.in[len][1]
             k == last - h
             new == [i \in 1..k |-> << h + i, "lost" >>]
             d == RemoveAll(c)
             S == Nat \X Hows
  <1>1. /\ c.in \in Seq(Tokens) /\ len \in Nat /\ c.script \in Seq(Kinds)
        /\ Stretch(c.script, c.in) /\ InLine(c) /\ c \in Connection
        /\ \A i \in 1..len : IsToken(c.script, c.in[i])
        /\ c.in # << >> => Due(c, c.in[1]) /\ 1 \in 1..len
    BY Buffer DEF Idle
  <1>2. /\ c.handled \in Seq(S) /\ h \in Nat /\ c.handled # << >>
        /\ c.net = << >> /\ c.st = "open" /\ Good(c) /\ Rest(c) = c.in
    BY <1>1 DEF Connection, Idle, Rest
  <1>3. ~LastLost(c)
    BY <1>2 DEF LastLost
  <1>4. c.in # << >> => c.in[1] = << h + 1, 1 >>
    BY <1>1, <1>3 DEF Due, Torn
  <1>5. last \in Nat /\ last >= h /\ k \in Nat /\ h + k = last
    <2>1. CASE c.in = << >>
      BY <1>2, <2>1
    <2>2. CASE c.in # << >>
      <3>1. len \in 1..len /\ 1 <= len
        BY <1>1, <2>2
      <3>2. c.in[1][1] <= c.in[len][1]
        BY <1>1, <2>2, <3>1 DEF Stretch
      <3>3. c.in[len][1] \in Nat /\ c.in[1][1] = h + 1
        BY <1>1, <1>4, <2>2, <3>1 DEF Tokens
      <3>4. QED
        BY <1>2, <2>2, <3>2, <3>3
    <2>3. QED
      BY <2>1, <2>2
  <1>6. /\ d.in = << >> /\ d.handled = c.handled \o new
        /\ d.st = c.st /\ d.script = c.script /\ d.client = c.client
        /\ d.next = c.next /\ d.net = c.net /\ d.ws = c.ws
        /\ d.upload = c.upload /\ d.ud = c.ud /\ d.made = c.made /\ d.dead = c.dead
        /\ d.build = c.build
        /\ d = [c EXCEPT !.in = << >>, !.handled = c.handled \o new]
    BY <1>1 DEF RemoveAll, Connection
  <1>7. new \in Seq(S) /\ Len(new) = k /\ \A i \in 1..k : new[i] = << h + i, "lost" >>
    <2> HIDE DEF k
    <2>1. \A i \in 1..k : << h + i, "lost" >> \in S
      BY <1>2, <1>5 DEF Hows
    <2> HIDE DEF S
    <2>2. QED
      BY <1>5, <2>1
  <1> HIDE DEF S, k, new, last, len, d
  <1>8. /\ d.handled \in Seq(S) /\ Len(d.handled) = h + k
        /\ \A i \in 1..h + k :
             d.handled[i] = IF i <= h THEN c.handled[i] ELSE << i, "lost" >>
    <2> DEFINE old == c.handled
    <2>1. /\ old \o new \in Seq(S) /\ Len(old \o new) = Len(old) + Len(new)
          /\ \A i \in 1..Len(old) + Len(new) :
              (old \o new)[i] = IF i <= Len(old) THEN old[i] ELSE new[i - Len(old)]
      <3>1. old \in Seq(S) /\ new \in Seq(S)
        BY <1>2, <1>7
      <3> HIDE DEF old
      <3>2. QED
        BY <3>1, Concatenated
    <2>2. ASSUME NEW i \in 1..h + k, ~(i <= h)
          PROVE  new[i - h] = << i, "lost" >>
      <3> DEFINE j == i - h
      <3>1. j \in 1..k /\ h + j = i
        BY <1>2, <1>5, <2>2
      <3> HIDE DEF j
      <3>2. new[j] = << h + j, "lost" >>
        BY <1>7, <3>1
      <3>3. new[j] = << i, "lost" >>
        BY <3>1, <3>2
      <3>4. QED
        BY <3>3 DEF j
    <2> HIDE DEF old
    <2>3. d.handled = old \o new /\ Len(old) = h /\ Len(new) = k /\ old = c.handled
      BY <1>2, <1>6, <1>7 DEF old
    <2>4. ASSUME NEW i \in 1..h + k
          PROVE  d.handled[i] = IF i <= h THEN c.handled[i] ELSE << i, "lost" >>
      <3>1. d.handled[i] = IF i <= h THEN old[i] ELSE new[i - h]
        BY <2>1, <2>3, Zenon
      <3>2. QED
        BY <2>2, <2>3, <3>1, Zenon
    <2>5. QED
      BY <2>1, <2>3, <2>4, Zenon
  <1>9. d \in Connection
    <2>1. << >> \in Seq(Tokens) /\ c.handled \o new = d.handled
      BY <1>6
    <2>2. QED
      BY <1>1, <1>6, <1>8, <2>1, ZenonT(40) DEF Connection, S
  <1>10. Numbered(d)
    <2>1. DOMAIN d.handled = 1..h + k /\ DOMAIN c.handled = 1..h
      BY <1>2, <1>5, <1>8
    <2>2. ASSUME NEW i \in 1..h + k
          PROVE  /\ d.handled[i][1] = i
                 /\ d.handled[i][2] = "lost" => BehindUpload(d, i)
      <3>1. CASE i <= h
        <4>1. i \in 1..h /\ d.handled[i] = c.handled[i]
          <5>1. i \in 1..h
            BY <1>2, <3>1
          <5>2. QED
            BY <1>8, <3>1, <5>1, Zenon
        <4>2. /\ c.handled[i][1] = i
              /\ c.handled[i][2] = "lost" => BehindUpload(c, i)
          BY <1>2, <2>1, <4>1 DEF Good, Numbered
        <4>3. i > 1 => i - 1 \in 1..h + k /\ d.handled[i - 1] = c.handled[i - 1]
          <5>1. i > 1 => i - 1 \in 1..h + k /\ i - 1 <= h
            BY <1>2, <1>5, <4>1
          <5>2. QED
            BY <1>8, <5>1, Zenon
        <4>4. QED
          BY <1>6, <4>1, <4>2, <4>3 DEF BehindUpload
      <3>2. CASE ~(i <= h)
        <4>1. /\ d.handled[i] = << i, "lost" >> /\ i - 1 \in 1..h + k /\ i > 1
          <5>1. i - 1 \in 1..h + k /\ i > 1
            BY <1>2, <1>5, <3>2
          <5>2. QED
            BY <1>8, <3>2, <5>1, Zenon
        <4>2. \/ d.handled[i - 1] = << i - 1, "lost" >>
              \/ i - 1 = h /\ d.handled[i - 1] = c.handled[h]
          <5>1. CASE i - 1 <= h
            <6>1. i - 1 = h
              BY <1>2, <3>2, <5>1
            <6>2. QED
              BY <1>8, <4>1, <5>1, <6>1, Zenon
          <5>2. CASE ~(i - 1 <= h)
            BY <1>8, <4>1, <5>2, Zenon
          <5>3. QED
            BY <5>1, <5>2
        <4>3. \/ d.handled[i - 1][2] = "lost"
              \/ d.script[i - 1] = "upload" /\ d.handled[i - 1][2] = "whole"
          <5>1. << i - 1, "lost" >>[2] = "lost"
            OBVIOUS
          <5>2. QED
            BY <1>6, <4>2, <5>1, Zenon
        <4>4. BehindUpload(d, i)
          BY <1>6, <4>1, <4>3, Zenon DEF BehindUpload
        <4>5. QED
          BY <4>1, <4>4
      <3>3. QED
        BY <3>1, <3>2
    <2>3. QED
      BY <2>1, <2>2 DEF Numbered
  <1>11. Uploading(d) /\ FramesOnly(d)
    BY <1>6 DEF Uploading, FramesOnly
  <1>12. Owned(d)
    <2>1. 1..Len(c.handled) \subseteq 1..Len(d.handled)
      BY <1>2, <1>5, <1>8
    <2>2. QED
      BY <1>2, <1>6, <2>1 DEF Good, Owned
  <1>13. InLine(d)
    <2>1. Rest(d) = << >> /\ Stretch(d.script, << >>)
      BY <1>2, <1>6 DEF Rest, Stretch
    <2>2. ASSUME c.client # "gone" PROVE Due(d, c.next) /\ IsNext(c.script, c.next)
      <3>1. CASE c.in = << >>
        <4>1. c.next = << h + 1, 1 >> /\ IsNext(c.script, c.next)
          BY <1>1, <1>2, <1>3, <2>2, <3>1 DEF InLine, Due, Torn
        <4>2. k = 0
          BY <1>2, <3>1 DEF k, last
        <4>3. QED
          BY <1>2, <1>6, <1>8, <4>1, <4>2 DEF Due
      <3>2. CASE c.in # << >>
        <4> DEFINE t == c.in[len]
        <4>1. len \in 1..len /\ IsToken(c.script, t) /\ t[1] = h + k
          BY <1>1, <1>5, <3>2 DEF last
        <4>2. c.next = After(c.script, t) /\ IsNext(c.script, c.next)
          BY <1>1, <1>2, <2>2, <3>2 DEF InLine, len
        <4>3. t[1] \in Nat /\ t[2] \in Nat \ {0}
          BY <4>1 DEF IsToken, Tokens
        <4>4. k # 0
          <5>1. c.in[1][1] <= t[1] /\ c.in[1][1] = h + 1
            BY <1>1, <1>4, <3>2, <4>1 DEF Stretch, len
          <5>2. QED
            BY <1>2, <1>5, <4>1, <4>3, <5>1
        <4> HIDE DEF t
        <4>5. LastLost(d)
          <5>1. h + k \in 1..h + k /\ ~(h + k <= h)
            BY <1>2, <1>5, <4>4
          <5>2. d.handled[h + k] = << h + k, "lost" >>
            BY <1>8, <5>1
          <5>3. d.handled # << >>
            BY <1>8, <1>2, <1>5, <4>4
          <5>4. QED
            BY <1>8, <5>2, <5>3 DEF LastLost
        <4>6. \/ c.next = << t[1], t[2] + 1 >>
              \/ c.next = << t[1] + 1, 1 >>
          BY <4>2 DEF After
        <4>7. d.upload = 0
          BY <1>6
        <4>8. CASE c.next = << t[1], t[2] + 1 >>
          <5>1. Torn(d, c.next)
            BY <1>8, <4>1, <4>3, <4>5, <4>8 DEF Torn
          <5>2. QED
            BY <4>2, <4>7, <5>1 DEF Due
        <4>9. CASE c.next = << t[1] + 1, 1 >>
          BY <1>8, <4>1, <4>2, <4>7, <4>9 DEF Due
        <4>10. QED
          BY <4>6, <4>8, <4>9
      <3>3. QED
        BY <3>1, <3>2
    <2>3. QED
      BY <1>6, <2>1, <2>2 DEF InLine
  <1>14. QED
    BY <1>2, <1>6, <1>9, <1>10, <1>11, <1>12, <1>13 DEF Good, Idle, d

\* An upload takes the parts that have come.
LEMMA ContinueGood ==
  ASSUME NEW c, Good(c), c.st = "open", c.net = << >>, c.upload # 0
  PROVE  Idle(mg_http_multipart_continue(c))
  <1> DEFINE n == c.upload
             len == Len(c.in)
             k == Received(c, n)
             d == Drop(c, k)
             none == [d EXCEPT !.upload = 0]
             e == onMultipartRequestEnd(none, n, "whole")
  <1>1. /\ c.in \in Seq(Tokens) /\ len \in Nat /\ c.script \in Seq(Kinds)
        /\ Stretch(c.script, c.in) /\ InLine(c) /\ FramesOnly(c) /\ c \in Connection
        /\ \A i \in 1..len : IsToken(c.script, c.in[i])
        /\ c.in # << >> => Due(c, c.in[1]) /\ 1 \in 1..len
        /\ \A j \in 0..len : SubSeq(c.in, j + 1, len) \in Seq(Tokens)
    BY Buffer
  <1>2. /\ Numbered(c) /\ Uploading(c) /\ Owned(c) /\ ~c.ws
        /\ n \in Nat /\ n \in DOMAIN c.script /\ c.script[n] = "upload"
        /\ n = Len(c.handled) + 1 /\ Len(c.handled) \in Nat /\ c.build.streaming
    BY <1>1 DEF Good, Uploading, Connection
  <1>3. Size("upload") = 3
    BY SizeIs DEF Kinds
  <1>4. mg_http_multipart_continue(c) =
          IF k > 0 /\ c.in[k] = << n, 3 >> THEN RemoveAll(e) ELSE d
    BY <1>3 DEF mg_http_multipart_continue
  <1>5. \A i, j \in 1..len : i <= j => c.in[i][1] <= c.in[j][1]
    BY <1>1 DEF Stretch
  <1>6. \A i \in 1..len : i < len => c.in[i + 1] = After(c.script, c.in[i])
    BY <1>1 DEF Stretch
  <1>7. \A i \in 1..len : c.in[i] \in Tokens /\ c.in[i][1] \in Nat
    BY <1>1 DEF Tokens
  <1>8. /\ After(c.script, << n, 2 >>) = << n, 3 >>
        /\ After(c.script, << n, 3 >>) = << n + 1, 1 >>
    BY <1>2, <1>3 DEF After
  <1>9. \/ c.in = << >> /\ k = 0
        \/ /\ k \in 1..len
           /\ \/ c.in[k] = << n, 3 >>
              \/ c.in[k] = << n, 2 >> /\ k = len
    <2>1. CASE c.in = << >>
      BY <1>1, <2>1, ReceivedIs
    <2>2. CASE c.in # << >>
      <3>1. c.in[1] = << n, 2 >> \/ c.in[1] = << n, 3 >>
        <4>1. c.in[1][1] = n /\ c.in[1][2] \in {2, 3}
          BY <1>1, <2>2 DEF Due
        <4>2. c.in[1] = << c.in[1][1], c.in[1][2] >>
          BY <1>1, <2>2 DEF Tokens
        <4>3. QED
          BY <4>1, <4>2
      <3>2. ASSUME NEW m \in 1..len, c.in[m] = << n, 3 >>
            PROVE  \A i \in 1..len : c.in[i][1] = n <=> i <= m
        <4>1. ASSUME NEW i \in 1..len, i <= m PROVE c.in[i][1] = n
          <5>1. c.in[1][1] <= c.in[i][1] /\ c.in[i][1] <= c.in[m][1]
            BY <1>1, <1>5, <2>2, <4>1
          <5>2. c.in[1][1] = n /\ c.in[m][1] = n
            BY <3>1, <3>2
          <5>3. QED
            BY <1>2, <1>7, <5>1, <5>2
        <4>2. ASSUME NEW i \in 1..len, ~(i <= m) PROVE c.in[i][1] # n
          <5>1. m < len /\ m + 1 \in 1..len /\ m + 1 <= i
            BY <1>1, <4>2
          <5>2. c.in[m + 1] = << n + 1, 1 >>
            BY <1>6, <1>8, <3>2, <5>1
          <5>3. n + 1 <= c.in[i][1]
            BY <1>5, <5>1, <5>2
          <5>4. QED
            BY <1>2, <1>7, <5>3
        <4>3. QED
          BY <4>1, <4>2
      <3>3. ASSUME NEW m \in 1..len, c.in[m] = << n, 3 >>
            PROVE  k = m
        <4>1. m \in 0..len
          BY <1>1
        <4>2. QED
          BY <1>1, <3>2, <3>3, <4>1, ReceivedIs
      <3>4. CASE c.in[1] = << n, 3 >>
        BY <1>1, <2>2, <3>3, <3>4
      <3>5. CASE c.in[1] = << n, 2 >> /\ len = 1
        <4>1. \A i \in 1..len : c.in[i][1] = n <=> i <= 1
          BY <3>5
        <4>2. 1 \in 0..len
          BY <3>5
        <4>3. k = 1
          BY <1>1, <4>1, <4>2, ReceivedIs
        <4>4. QED
          BY <3>5, <4>3
      <3>6. CASE c.in[1] = << n, 2 >> /\ len # 1
        <4>1. 1 < len /\ 2 \in 1..len /\ 1 + 1 = 2
          <5> HIDE DEF len
          <5>1. QED
            BY <1>1, <2>2, <3>6
        <4>2. c.in[2] = << n, 3 >>
          BY <1>1, <1>6, <1>8, <2>2, <3>6, <4>1
        <4>3. QED
          BY <3>3, <4>1, <4>2
      <3>7. QED
        BY <3>1, <3>4, <3>5, <3>6
    <2>3. QED
      BY <2>1, <2>2
  <1>10. k \in 0..len
    BY <1>1, <1>9
  <1>11. /\ d \in Connection /\ d.in = SubSeq(c.in, k + 1, len)
         /\ d.st = c.st /\ d.script = c.script /\ d.client = c.client
         /\ d.next = c.next /\ d.net = c.net /\ d.ws = c.ws
         /\ d.upload = c.upload /\ d.ud = c.ud /\ d.made = c.made
         /\ d.dead = c.dead /\ d.handled = c.handled /\ d.build = c.build
    BY <1>1, <1>10 DEF Drop, Connection
  <1>12. CASE k > 0 /\ c.in[k] = << n, 3 >>
    <2>1. /\ none \in Connection /\ none.in = d.in
          /\ none.st = c.st /\ none.script = c.script /\ none.client = c.client
          /\ none.next = c.next /\ none.net = c.net /\ none.ws = c.ws
          /\ none.upload = 0 /\ none.ud = c.ud /\ none.made = c.made
          /\ none.dead = c.dead /\ none.handled = c.handled /\ none.build = c.build
      <3> HIDE DEF d
      <3>1. QED
        BY <1>11 DEF Connection
    <2>0. Len(c.handled) + 1 = n
      BY <1>2
    <2> HIDE DEF none, k, d
    <2>2. /\ e \in Connection /\ Numbered(e) /\ e.handled[n][2] = "whole"
          /\ e.build = c.build
          /\ Len(e.handled) = n /\ e.ud = Listener /\ e.upload = 0
          /\ e.st = c.st /\ e.script = c.script /\ e.client = c.client
          /\ e.next = c.next /\ e.net = c.net /\ e.in = d.in /\ e.ws = c.ws
          /\ e.dead \subseteq 1..Len(e.handled) /\ e.dead \subseteq e.made
          /\ \A u \in e.made : u \in e.dead \/ u = WsData
      <3>1. c.upload # 0 /\ n = c.upload /\ none.upload \in {c.upload, 0}
        BY <2>1
      <3> HIDE DEF e, n
      <3>2. e = onMultipartRequestEnd(none, c.upload, "whole")
        BY <3>1 DEF e
      <3>3. /\ c \in Connection /\ Numbered(c) /\ Uploading(c) /\ Owned(c)
            /\ none \in Connection /\ none.handled = c.handled /\ none.ud = c.ud
            /\ none.made = c.made /\ none.dead = c.dead /\ none.script = c.script
            /\ none.build = c.build
        BY <1>1, <1>2, <2>1
      <3>4. Ended(c, none, e) /\ e.handled[c.upload][2] = "whole"
        <4>1. "whole" \in Hows /\ "whole" # "lost"
          BY DEF Hows
        <4>2. QED
          BY <3>1, <3>2, <3>3, <4>1, UploadEnds
      <3>5. QED
        BY <2>0, <2>1, <3>1, <3>4 DEF Ended
    <2> HIDE DEF e, n
    <2>3. k \in 1..len
      BY <1>9, <1>12
    <2>4. Due(e, After(c.script, c.in[k]))
      BY <1>8, <1>12, <2>2 DEF Due
    <2>5. InLine(e)
      BY <1>1, <1>11, <2>2, <2>3, <2>4, Taking
    <2>6. Uploading(e) /\ Owned(e) /\ FramesOnly(e)
      BY <1>2, <2>2 DEF Uploading, Owned, FramesOnly
    <2>7. Idle(e)
      BY <2>2, <2>5, <2>6 DEF Good, Idle
    <2>8. Idle(RemoveAll(e))
      <3>1. n # 0 /\ n = Len(e.handled) /\ e.script[n] = "upload" /\ ~e.ws
        BY <1>2, <2>2
      <3>2. QED
        BY <1>2, <2>2, <2>7, <3>1, RemoveAllGood
    <2>9. QED
      BY <1>4, <1>12, <2>8
  <1>13. CASE ~(k > 0 /\ c.in[k] = << n, 3 >>)
    <2> HIDE DEF k, d, e, n
    <2>1. Numbered(d) /\ Uploading(d) /\ Owned(d) /\ FramesOnly(d)
      BY <1>2, <1>11 DEF Numbered, BehindUpload, Uploading, Owned, FramesOnly
    <2>2. InLine(d)
      <3>1. CASE c.in = << >> /\ k = 0
        <4>1. d.in = << >>
          BY <1>11, <3>1
        <4>2. Rest(d) = Rest(c)
          BY <1>11, <3>1, <4>1 DEF Rest
        <4>3. QED
          BY <1>1, <1>11, <4>2 DEF InLine, Due
      <3>2. CASE k \in 1..len /\ c.in[k] = << n, 2 >> /\ k = len
        <4>1. Due(d, After(c.script, c.in[k]))
          BY <1>8, <1>11, <3>2 DEF Due, n
        <4>2. QED
          BY <1>1, <1>11, <3>2, <4>1, Taking
      <3>3. QED
        BY <1>1, <1>9, <1>13, <3>1, <3>2
    <2>3. Idle(d)
      BY <1>11, <2>1, <2>2 DEF Good, Idle
    <2>4. QED
      BY <1>4, <1>13, <2>3
  <1>14. QED
    BY <1>12, <1>13

\* Between uploads the first token in recv_mbuf begins the next request.
LEMMA FirstIs ==
  ASSUME NEW c, Good(c), c.st = "open", c.net = << >>, c.upload = 0,
         c.in # << >>, c.in[1][2] = 1
  PROVE  /\ First(c) = Len(c.handled) + 1 /\ c.in[1] = << First(c), 1 >>
         /\ First(c) \in DOMAIN c.script /\ First(c) \in Nat
         /\ First(c) \in 1..Len(c.script)
         /\ c.script[First(c)] \in Kinds
  <1>1. /\ c.in # << >> => Due(c, c.in[1]) /\ 1 \in 1..Len(c.in)
        /\ \A i \in 1..Len(c.in) : IsToken(c.script, c.in[i])
        /\ c.script \in Seq(Kinds)
    BY Buffer
  <1>2. c.in[1] = << Len(c.handled) + 1, 1 >>
    BY <1>1 DEF Due, Torn
  <1>3. First(c) = Len(c.handled) + 1
    BY <1>2 DEF First
  <1>4. First(c) \in 1..Len(c.script)
    BY <1>1, <1>2, <1>3 DEF IsToken
  <1>5. QED
    BY <1>1, <1>2, <1>3, <1>4

LEMMA ParsedIs ==
  ASSUME NEW c, ParseHead(c) > 0
  PROVE  c.in # << >> /\ c.in[1][2] = 1
  BY DEF ParseHead

\* The head of a streamed upload makes new user data.
LEMMA BeginGood ==
  ASSUME NEW c, Good(c), c.st = "open", c.net = << >>, c.upload = 0, ~c.ws,
         c.in # << >>, c.in[1][2] = 1, c.script[First(c)] = "upload", c.build.streaming,
         NEW d, d = mg_http_multipart_begin(c)
  PROVE  Idle(d) /\ d.upload # 0
  <1> DEFINE n == First(c)
             len == Len(c.in)
  <1>1. /\ c.in \in Seq(Tokens) /\ len \in Nat /\ c.script \in Seq(Kinds)
        /\ InLine(c) /\ c \in Connection /\ 1 \in 1..len
        /\ SubSeq(c.in, 1 + 1, len) \in Seq(Tokens)
    BY Buffer
  <1>2. /\ n = Len(c.handled) + 1 /\ c.in[1] = << n, 1 >> /\ n \in DOMAIN c.script
        /\ n \in Nat
    BY FirstIs
  <1>3. /\ Numbered(c) /\ Owned(c) /\ Len(c.handled) \in Nat
        /\ FramesAfterUpgrade(c.script)
    BY <1>1 DEF Good, Connection
  <1>14. c.build.mpFactory
    BY <1>1 DEF Connection, WithFactory
  <1>4. /\ d = [c EXCEPT !.in = SubSeq(@, 1 + 1, Len(@)), !.upload = n,
                         !.ud = n, !.made = @ \cup {n}]
    BY <1>1, <1>14 DEF mg_http_multipart_begin, onMultipartRequest, Drop, Connection
  <1>5. c.made \cup {n} \in SUBSET Int /\ n \in Nat /\ n \in Int
    BY <1>1, <1>2 DEF Connection
  <1>6. d \in Connection
    <2> DEFINE r == SubSeq(c.in, 1 + 1, len)
               made == c.made \cup {n}
               b == [c EXCEPT !.in = r, !.upload = n]
    <2>1. r \in Seq(Tokens) /\ made \in SUBSET Int
      BY <1>1, <1>5
    <2>2. d = [b EXCEPT !.ud = n, !.made = made]
      BY <1>1, <1>4 DEF Connection
    <2> HIDE DEF r, made
    <2>3. b \in Connection
      <3> HIDE DEF n
      <3>1. QED
        BY <1>1, <1>5, <2>1 DEF Connection
    <2> HIDE DEF b, n
    <2>4. QED
      BY <1>5, <2>1, <2>2, <2>3, ZenonT(40) DEF Connection
  <1> HIDE DEF n, len
  <1>7. /\ d.in = SubSeq(c.in, 1 + 1, len) /\ d.upload = n /\ d.ud = n
        /\ d.made = c.made \cup {n} /\ d.st = c.st /\ d.net = c.net
        /\ d.script = c.script /\ d.client = c.client /\ d.next = c.next
        /\ d.handled = c.handled /\ d.dead = c.dead /\ d.build = c.build /\ d.ws = c.ws
    BY <1>1, <1>4 DEF Connection, len
  <1>8. n # 0
    BY <1>2, <1>3
  <1>9. Due(d, After(c.script, c.in[1]))
    <2>1. Size("upload") = 3
      BY SizeIs DEF Kinds
    <2>2. After(c.script, << n, 1 >>) = << n, 2 >>
      BY <1>2, <2>1 DEF After, n
    <2>3. QED
      BY <1>2, <1>7, <1>8, <2>2 DEF Due, Torn, LastLost
  <1>10. InLine(d)
    BY <1>1, <1>7, <1>9, Taking DEF len
  <1>11. Numbered(d) /\ Uploading(d) /\ FramesOnly(d)
    BY <1>2, <1>3, <1>7 DEF Numbered, BehindUpload, Uploading, FramesOnly, LastLost, n
  <1>12. Owned(d)
    BY <1>3, <1>7, <1>8 DEF Owned
  <1>13. QED
    BY <1>3, <1>6, <1>7, <1>8, <1>10, <1>11, <1>12 DEF Good, Idle

\* The upgrade is handled, and the frames behind it.
LEMMA UpgradeGood ==
  ASSUME NEW c, Good(c), c.st = "open", c.net = << >>, c.upload = 0,
         c.in # << >>, c.in[1][2] = 1, c.script[First(c)] = "upgrade"
  PROVE  Idle(Upgrade(c))
  <1> DEFINE n == First(c)
             len == Len(c.in)
             h == Heard(c, n, "whole")
             b == [Drop(c, 1) EXCEPT !.ws = TRUE,
                     !.handled = Append(@, << n, "whole" >>)]
             d == onHandshakeRequest(b)
             e == IF d.out = << >> THEN Send(d, << << n, 0 >> >>) ELSE d
  <1>1. /\ c.in \in Seq(Tokens) /\ len \in Nat /\ c.script \in Seq(Kinds)
        /\ InLine(c) /\ c \in Connection /\ 1 \in 1..len
        /\ SubSeq(c.in, 1 + 1, len) \in Seq(Tokens)
    BY Buffer
  <1>2. /\ n = Len(c.handled) + 1 /\ c.in[1] = << n, 1 >> /\ n \in DOMAIN c.script
        /\ n \in Nat
    BY FirstIs
  <1>3. /\ Numbered(c) /\ Owned(c) /\ Len(c.handled) \in Nat
        /\ FramesAfterUpgrade(c.script)
    BY <1>1 DEF Good, Connection
  <1>4. /\ h \in Connection /\ Numbered(h) /\ Len(h.handled) = n
        /\ h.handled[n][2] = "whole"
        /\ h.st = c.st /\ h.script = c.script /\ h.client = c.client
        /\ h.next = c.next /\ h.net = c.net /\ h.in = c.in
        /\ h.upload = c.upload /\ h.ud = c.ud /\ h.made = c.made /\ h.dead = c.dead /\ h.build = c.build
    BY <1>1, <1>2, <1>3, HeardNumbered
  <1>5. b = [h EXCEPT !.in = SubSeq(@, 1 + 1, Len(@)), !.ws = TRUE]
    BY <1>1 DEF Drop, Heard, Connection
  <1> HIDE DEF h, b, len, n
  <1>6. /\ b \in Connection /\ b.handled = h.handled /\ b.ws
        /\ b.in = SubSeq(c.in, 1 + 1, len)
        /\ b.st = c.st /\ b.script = c.script /\ b.client = c.client
        /\ b.next = c.next /\ b.net = c.net
        /\ b.upload = c.upload /\ b.ud = c.ud /\ b.made = c.made /\ b.dead = c.dead /\ b.build = c.build
    <2> DEFINE r == SubSeq(c.in, 1 + 1, len)
    <2>1. r \in Seq(Tokens)
      BY <1>1
    <2>2. b = [h EXCEPT !.in = r, !.ws = TRUE]
      BY <1>4, <1>5 DEF Connection, len
    <2> HIDE DEF r
    <2>3. b \in Connection /\ b.in = r /\ b.ws /\ b.handled = h.handled
      BY <1>4, <2>1, <2>2 DEF Connection
    <2>4. /\ b.st = h.st /\ b.script = h.script /\ b.client = h.client
          /\ b.next = h.next /\ b.net = h.net
          /\ b.upload = h.upload /\ b.ud = h.ud /\ b.made = h.made /\ b.dead = h.dead /\ b.build = h.build
      BY <1>4, <2>2 DEF Connection
    <2>5. QED
      BY <1>4, <2>3, <2>4 DEF r
  <1>7. /\ d \in Connection /\ d.handled = h.handled /\ d.ws
        /\ d.in = SubSeq(c.in, 1 + 1, len)
        /\ d.st = c.st /\ d.script = c.script /\ d.client = c.client
        /\ d.next = c.next /\ d.net = c.net
        /\ d.upload = c.upload /\ d.dead = c.dead /\ d.build = c.build
        /\ \/ d.ud = c.ud /\ d.made = c.made
           \/ d.ud = WsData /\ d.made = c.made \cup {WsData}
    <2>1. CASE ~b.build.wsFactory
      BY <1>6, <2>1 DEF onHandshakeRequest
    <2>2. CASE b.build.wsFactory
      <3>1. d = [b EXCEPT !.ud = WsData, !.made = @ \cup {WsData}]
        BY <2>2 DEF onHandshakeRequest
      <3>2. b.made \cup {WsData} \in SUBSET Int /\ WsData \in Int
        BY <1>6 DEF Connection, WsData
      <3> HIDE DEF d
      <3>3. QED
        BY <1>6, <3>1, <3>2 DEF Connection
    <2>3. QED
      BY <2>1, <2>2
  <1> HIDE DEF d, e
  <1>8. InLine(d)
    <2>1. Size("upgrade") = 1
      BY SizeIs DEF Kinds
    <2>2. After(c.script, << n, 1 >>) = << n + 1, 1 >>
      BY <2>1 DEF After, n
    <2>3. Due(d, After(c.script, c.in[1]))
      BY <1>2, <1>4, <1>7, <2>2 DEF Due, Torn, LastLost
    <2>4. QED
      BY <1>1, <1>7, <2>3, Taking DEF len
  <1>9. FramesOnly(d)
    <2>1. \A m \in DOMAIN c.script : m > n => c.script[m] = "frame"
      BY <1>2, <1>3 DEF FramesAfterUpgrade, n
    <2>2. ~LastLost(d)
      BY <1>4, <1>7 DEF LastLost
    <2>3. QED
      BY <1>4, <1>7, <2>1, <2>2 DEF FramesOnly
  <1>10. Owned(d)
    <2>1. \A u \in 1..Len(c.handled) : u \in 1..Len(d.handled)
      BY <1>2, <1>3, <1>4, <1>7
    <2>2. QED
      BY <1>3, <1>7, <2>1 DEF Owned
  <1>11. Numbered(d) /\ Uploading(d)
    BY <1>4, <1>7 DEF Numbered, BehindUpload, Uploading
  <1>12. Good(d)
    BY <1>3, <1>7, <1>8, <1>9, <1>10, <1>11 DEF Good
  <1>13. Answered(d, e)
    <2>1. << << n, 0 >> >> \in Seq(Nat \X Nat)
      <3>1. << n, 0 >> \in Nat \X Nat
        BY <1>2
      <3>2. QED
        BY <3>1
    <2>2. Answered(d, Send(d, << << n, 0 >> >>))
      BY <1>7, <2>1, SendAnswers
    <2>3. Answered(d, d)
      BY <1>7 DEF Answered
    <2>4. QED
      BY <2>2, <2>3 DEF e
  <1>14. Good(e) /\ e.st = "open" /\ e.net = << >> /\ e.ws
    BY <1>7, <1>12, <1>13, AnsweredGood DEF Answered
  <1>15. Upgrade(c) = IF d.flags = {} THEN mg_ws_handler(e) ELSE d
    BY DEF Upgrade, d, e, b, n
  <1>16. Idle(d) /\ Idle(mg_ws_handler(e))
    BY <1>7, <1>12, <1>14, WsHandlerGood DEF Idle
  <1>17. QED
    BY <1>15, <1>16

\* A request is handled and taken from the buffer whole.
LEMMA HandleMessageGood ==
  ASSUME NEW c, Good(c), c.st = "open", c.net = << >>, c.upload = 0, ~c.ws,
         c.in # << >>, c.in[1][2] = 1, Buffered(c)
  PROVE  Idle(HandleMessage(c))
  <1> DEFINE n == First(c)
             len == Len(c.in)
             size == Size(c.script[n])
             h == Heard(c, n, "whole")
             e == onHttpRequest(c, n, "whole")
             d == Drop(e, size)
  <1>1. /\ c.in \in Seq(Tokens) /\ len \in Nat /\ c.script \in Seq(Kinds)
        /\ InLine(c) /\ c \in Connection /\ 1 \in 1..len /\ Stretch(c.script, c.in)
        /\ \A k \in 0..len : SubSeq(c.in, k + 1, len) \in Seq(Tokens)
    BY Buffer
  <1>2. /\ n = Len(c.handled) + 1 /\ c.in[1] = << n, 1 >> /\ n \in DOMAIN c.script
        /\ n \in Nat /\ n \in 1..Len(c.script) /\ c.script[n] \in Kinds
    BY FirstIs
  <1>3. /\ Numbered(c) /\ Owned(c) /\ Len(c.handled) \in Nat
        /\ FramesAfterUpgrade(c.script)
    BY <1>1 DEF Good, Connection
  <1>4. size \in 1..3
    BY <1>2, SizeIs
  <1>5. size <= len
    <2>1. Received(c, n) >= size
      BY DEF Buffered
    <2>2. Received(c, n) \in 0..len
      BY <1>1, ReceivedAtMost
    <2> HIDE DEF size, n, len
    <2>3. QED
      BY <1>1, <1>4, <2>1, <2>2
  <1>6. size \in 1..len /\ size \in 0..len
    <2> HIDE DEF size, len
    <2>1. QED
      BY <1>1, <1>4, <1>5
  <1>7. c.in[size] = << n, size >>
    <2>1. \A i \in 1..len : i < len => c.in[i + 1] = After(c.script, c.in[i])
      BY <1>1 DEF Stretch
    <2>2. \A i \in 1..3 : i < size => After(c.script, << n, i >>) = << n, i + 1 >>
      BY DEF After
    <2> HIDE DEF size, len, n
    <2>3. CASE size = 1
      BY <1>2, <2>3
    <2>4. CASE size = 2 \/ size = 3
      <3>1. 1 \in 1..len /\ 1 < len /\ 1 < size /\ 1 + 1 = 2
        BY <1>1, <1>5, <2>4
      <3>2. c.in[2] = << n, 2 >>
        <4>1. c.in[1 + 1] = After(c.script, << n, 1 >>)
          BY <1>2, <2>1, <3>1
        <4>2. After(c.script, << n, 1 >>) = << n, 1 + 1 >>
          BY <2>2, <3>1
        <4>3. QED
          BY <3>1, <4>1, <4>2
      <3>3. CASE size = 2
        BY <3>2, <3>3
      <3>4. CASE size = 3
        <4>1. 2 \in 1..len /\ 2 < len /\ 2 < size /\ 2 + 1 = 3
          BY <1>1, <1>5, <3>4
        <4>2. c.in[2 + 1] = After(c.script, << n, 2 >>)
          BY <2>1, <3>2, <4>1
        <4>3. After(c.script, << n, 2 >>) = << n, 2 + 1 >>
          BY <2>2, <4>1
        <4>4. QED
          BY <3>4, <4>1, <4>2, <4>3
      <3>5. QED
        BY <2>4, <3>3, <3>4
    <2>5. QED
      BY <1>4, <2>3, <2>4
  <1>8. After(c.script, << n, size >>) = << n + 1, 1 >>
    BY <1>4 DEF After
  <1>9. HandleMessage(c) = d
    BY DEF HandleMessage
  <1>10. Answered(h, e)
    BY <1>1, <1>2, HttpRequestAnswers
  <1>11. /\ h \in Connection /\ Numbered(h) /\ Len(h.handled) = n
         /\ h.st = c.st /\ h.script = c.script /\ h.client = c.client
         /\ h.next = c.next /\ h.net = c.net /\ h.in = c.in /\ h.ws = c.ws
         /\ h.upload = c.upload /\ h.ud = c.ud /\ h.made = c.made /\ h.dead = c.dead /\ h.build = c.build
    BY <1>1, <1>2, <1>3, HeardNumbered
  <1>12. d = [e EXCEPT !.in = SubSeq(@, size + 1, Len(@))]
    BY DEF Drop
  <1> HIDE DEF h, e, d, size, len, n
  <1>13. /\ d \in Connection /\ d.handled = h.handled
         /\ d.in = SubSeq(c.in, size + 1, len)
         /\ d.st = c.st /\ d.script = c.script /\ d.client = c.client
         /\ d.next = c.next /\ d.net = c.net /\ d.ws = c.ws
         /\ d.upload = c.upload /\ d.ud = c.ud /\ d.made = c.made /\ d.dead = c.dead /\ d.build = c.build
    <2>1. /\ e \in Connection /\ e.in = c.in /\ SubSeq(c.in, size + 1, len) \in Seq(Tokens)
      BY <1>1, <1>6, <1>10, <1>11 DEF Answered
    <2>2. d \in Connection /\ d.in = SubSeq(c.in, size + 1, len)
      BY <1>12, <2>1, ZenonT(40) DEF Connection, len
    <2>3. /\ d.st = e.st /\ d.script = e.script /\ d.client = e.client
          /\ d.next = e.next /\ d.net = e.net /\ d.ws = e.ws /\ d.handled = e.handled
          /\ d.upload = e.upload /\ d.ud = e.ud /\ d.made = e.made /\ d.dead = e.dead /\ d.build = e.build
      BY <1>12, <2>1 DEF Connection
    <2>4. QED
      BY <1>10, <1>11, <2>2, <2>3 DEF Answered
  <1>14. InLine(d)
    <2>1. Due(d, After(c.script, c.in[size]))
      BY <1>7, <1>8, <1>11, <1>13 DEF Due, Torn, LastLost
    <2>2. QED
      BY <1>1, <1>6, <1>13, <2>1, Taking DEF len
  <1>15. Owned(d)
    <2>1. \A u \in 1..Len(c.handled) : u \in 1..Len(d.handled)
      BY <1>2, <1>3, <1>11, <1>13
    <2>2. QED
      BY <1>3, <1>13, <2>1 DEF Owned
  <1>16. Numbered(d) /\ Uploading(d) /\ FramesOnly(d)
    BY <1>11, <1>13 DEF Numbered, BehindUpload, Uploading, FramesOnly, LastLost
  <1>17. QED
    BY <1>3, <1>9, <1>13, <1>14, <1>15, <1>16 DEF Good, Idle

\* Every branch of mg_http_handler on MG_EV_RECV.
LEMMA OnRecvGood ==
  ASSUME NEW c, Idle(c)
  PROVE  Idle(OnRecv(c))
  <1> DEFINE n == First(c)
             len == ParseHead(c)
  <1>1. Good(c) /\ c.st = "open" /\ c.net = << >> /\ c \in Connection
    BY DEF Idle, Good
  <1>2. CASE c.ws
    BY <1>1, <1>2, WsHandlerGood DEF OnRecv
  <1>3. CASE ~c.ws /\ c.upload # 0
    BY <1>1, <1>3, ContinueGood DEF OnRecv
  <1>4. CASE ~c.ws /\ c.upload = 0 /\ len < 0
    <2>1. OnRecv(c) = Flag(c, "close_immediately")
      BY <1>4 DEF OnRecv
    <2>2. Answered(c, Flag(c, "close_immediately"))
      BY <1>1, FlagAnswers
    <2>3. QED
      BY <1>1, <2>1, <2>2, AnsweredGood DEF Idle, Answered
  <1>5. CASE ~c.ws /\ c.upload = 0 /\ ~(len < 0)
    <2>1. OnRecv(c) =
            IF len = 0 THEN c
            ELSE IF c.build.streaming /\ c.script[n] = "upload"
            THEN mg_http_multipart_continue(mg_http_multipart_begin(c))
            ELSE IF c.script[n] = "upgrade" THEN Upgrade(c)
            ELSE IF Buffered(c) THEN HandleMessage(c)
            ELSE c
      BY <1>5 DEF OnRecv
    <2>2. len # 0 => c.in # << >> /\ c.in[1][2] = 1
      BY <1>5 DEF ParseHead, HeadLen
    <2> HIDE DEF n, len
    <2>3. CASE len = 0
      BY <2>1, <2>3
    <2>4. CASE len # 0 /\ c.build.streaming /\ c.script[n] = "upload"
      <3> DEFINE d == mg_http_multipart_begin(c)
      <3>1. Idle(d) /\ d.upload # 0
        BY <1>1, <1>5, <2>2, <2>4, BeginGood DEF n
      <3> HIDE DEF d
      <3>2. Idle(mg_http_multipart_continue(d))
        BY <3>1, ContinueGood DEF Idle
      <3>3. QED
        BY <2>1, <2>4, <3>2 DEF d
    <2>5. CASE len # 0 /\ c.script[n] = "upgrade"
      BY <1>1, <1>5, <2>1, <2>2, <2>5, UpgradeGood DEF n
    <2>6. CASE len # 0 /\ Buffered(c)
               /\ ~(c.build.streaming /\ c.script[n] = "upload") /\ c.script[n] # "upgrade"
      BY <1>1, <1>5, <2>1, <2>2, <2>6, HandleMessageGood
    <2>7. QED
      BY <2>1, <2>3, <2>4, <2>5, <2>6
  <1>6. QED
    BY <1>2, <1>3, <1>4, <1>5

-----------------------------------------------------------------------------
(* The end of a connection *)

\* What the close leaves behind, but for the buffers.
Left(c) ==
  /\ c \in Connection /\ c.st = "closed" /\ FramesAfterUpgrade(c.script)
  /\ Numbered(c)
  /\ c.dead \subseteq 1..Len(c.handled) /\ c.dead \subseteq c.made
  /\ \A u \in c.made : u \in c.dead \/ u = WsData
  /\ c.ud = Listener \/ (c.ud = WsData /\ WsData \in c.made)

LEMMA AnsweredLeft ==
  ASSUME NEW c, NEW d, Left(c), Answered(c, d)
  PROVE  Left(d)
  BY DEF Left, Answered, Numbered, BehindUpload

\* A request found at the close is the one after those handled.
LEMMA HeardLeft ==
  ASSUME NEW c, Left(c), NEW how \in Hows, how # "lost",
         NEW n, n = Len(c.handled) + 1
  PROVE  Left(Heard(c, n, how))
  <1> DEFINE d == Heard(c, n, how)
  <1>1. c \in Connection /\ Numbered(c)
    BY DEF Left
  <1>2. /\ d \in Connection /\ Numbered(d)
        /\ Len(d.handled) = Len(c.handled) + 1 /\ Len(c.handled) \in Nat
        /\ d.st = c.st /\ d.script = c.script
        /\ d.ud = c.ud /\ d.made = c.made /\ d.dead = c.dead /\ d.build = c.build
    BY <1>1, HeardNumbered
  <1> HIDE DEF d
  <1>3. \A u \in 1..Len(c.handled) : u \in 1..Len(d.handled)
    BY <1>2
  <1>4. Left(d)
    BY <1>2, <1>3 DEF Left
  <1>5. QED
    BY <1>4 DEF d

\* Whatever the connection was doing, OnClose ends it.
LEMMA CloseLeaves ==
  ASSUME NEW c, Idle(c), NEW k, k = [c EXCEPT !.st = "closed"]
  PROVE  Left(OnClose(k))
  <1>1. /\ c \in Connection /\ Good(c) /\ c.st = "open" /\ c.net = << >>
        /\ FramesAfterUpgrade(c.script) /\ Numbered(c) /\ Uploading(c) /\ Owned(c)
    BY DEF Idle, Good
  <1>2. /\ k \in Connection /\ k.st = "closed"
        /\ k.script = c.script /\ k.in = c.in /\ k.ws = c.ws
        /\ k.upload = c.upload /\ k.handled = c.handled /\ k.ud = c.ud
        /\ k.made = c.made /\ k.dead = c.dead /\ k.build = c.build
    BY <1>1 DEF Connection
  <1>3. Numbered(k)
    BY <1>1, <1>2 DEF Numbered, BehindUpload
  <1>4. c.upload = 0 => Left(k)
    BY <1>1, <1>2, <1>3 DEF Owned, Left
  <1>5. CASE c.ws
    <2>1. c.upload = 0
      BY <1>1, <1>5 DEF Uploading
    <2>2. OnClose(k) = k
      BY <1>2, <1>5 DEF OnClose
    <2>3. QED
      BY <1>4, <2>1, <2>2
  <1>6. CASE ~c.ws
    <2> DEFINE how == IF k.script[First(k)] = "stream" \/ Buffered(k)
                      THEN "late" ELSE "cut"
               e == IF k.upload # 0 THEN onMultipartRequestEnd(k, k.upload, "late")
                    ELSE IF ParseHead(k) > 0 THEN onHttpRequest(k, First(k), how)
                    ELSE k
    <2>1. OnClose(k) = mg_http_transfer_file_data(e)
      BY <1>2, <1>6 DEF OnClose
    <2>2. CASE c.upload # 0
      <3>1. e = onMultipartRequestEnd(k, c.upload, "late")
        BY <1>2, <2>2
      <3> HIDE DEF e
      <3>2. k.upload \in {c.upload, 0} /\ "late" \in Hows /\ "late" # "lost"
        BY <1>2 DEF Hows
      <3>3. Ended(c, k, e)
        BY <1>1, <1>2, <2>2, <3>1, <3>2, UploadEnds
      <3>4. Left(e)
        BY <1>1, <1>2, <3>3 DEF Ended, Left
      <3>5. Left(mg_http_transfer_file_data(e))
        BY <3>4, TransferAnswers, AnsweredLeft DEF Left
      <3>6. QED
        BY <2>1, <3>5
    <2>3. CASE c.upload = 0 /\ ParseHead(k) > 0
      <3> DEFINE n == First(k)
                 h == Heard(k, n, how)
      <3>1. c.in # << >> /\ c.in[1][2] = 1
        BY <1>2, <2>3, ParsedIs
      <3>2. First(k) = First(c)
        BY <1>2 DEF First
      <3>3. n = Len(k.handled) + 1 /\ n \in 1..Len(k.script)
        BY <1>1, <1>2, <2>3, <3>1, <3>2, FirstIs
      <3>4. how \in Hows /\ how # "lost"
        BY DEF Hows
      <3>5. e = onHttpRequest(k, n, how)
        BY <1>2, <2>3
      <3> HIDE DEF e, how, n, h
      <3>6. Answered(h, e)
        BY <1>2, <3>3, <3>4, <3>5, HttpRequestAnswers DEF h
      <3>7. Left(k)
        BY <1>4, <2>3
      <3>8. Left(h)
        BY <3>3, <3>4, <3>7, HeardLeft DEF h
      <3>9. Left(e)
        BY <3>6, <3>8, AnsweredLeft
      <3>10. Left(mg_http_transfer_file_data(e))
        BY <3>9, TransferAnswers, AnsweredLeft DEF Left
      <3>11. QED
        BY <2>1, <3>10
    <2>4. CASE c.upload = 0 /\ ~(ParseHead(k) > 0)
      <3>1. e = k
        BY <1>2, <2>4
      <3> HIDE DEF e
      <3>2. Left(mg_http_transfer_file_data(e))
        BY <1>4, <2>4, <3>1, TransferAnswers, AnsweredLeft DEF Left
      <3>3. QED
        BY <2>1, <3>2
    <2>5. QED
      BY <2>2, <2>3, <2>4
  <1>7. QED
    BY <1>5, <1>6

\* mg_close_conn leaves no upload and no user data of one.
LEMMA CloseGood ==
  ASSUME NEW c, Idle(c)
  PROVE  Good(mg_close_conn(c))
  <1> DEFINE k == [c EXCEPT !.st = "closed"]
             f == OnClose(k)
             e == [f EXCEPT !.in = << >>, !.out = << >>, !.file = NoFile,
                            !.upload = 0]
  <1>1. mg_close_conn(c) = e
    BY DEF mg_close_conn
  <1>2. Left(f)
    BY CloseLeaves
  <1> HIDE DEF k, f
  <1>3. << >> \in Seq(Tokens) /\ << >> \in Seq(Nat \X Nat) /\ NoFile \in Files
    BY DEF NoFile, Files
  <1>4. f \in Connection
    BY <1>2 DEF Left
  <1>5. /\ e \in Connection /\ e.upload = 0
        /\ e.st = f.st /\ e.script = f.script /\ e.handled = f.handled
        /\ e.ud = f.ud /\ e.made = f.made /\ e.dead = f.dead /\ e.build = f.build
    BY <1>3, <1>4 DEF Connection
  <1> HIDE DEF e
  <1>6. Numbered(e) /\ Uploading(e) /\ Owned(e)
    BY <1>2, <1>5 DEF Left, Numbered, BehindUpload, Uploading, Owned
  <1>7. QED
    BY <1>1, <1>2, <1>5, <1>6 DEF Left, Good

-----------------------------------------------------------------------------
(* The server's turn *)

LEMMA AnsweredIdle ==
  ASSUME NEW c, NEW d, Idle(c), Answered(c, d)
  PROVE  Idle(d)
  BY AnsweredGood DEF Idle, Answered

\* What recv gives moves from the socket to recv_mbuf.
LEMMA ReceiveIdle ==
  ASSUME NEW c, Good(c), c.st = "open"
  PROVE  Idle(Receive(c))
  <1>1. /\ c \in Connection /\ c.in \in Seq(Tokens) /\ c.net \in Seq(Tokens)
        /\ InLine(c)
    BY DEF Good, Connection
  <1>2. CASE c.net # << >>
    <2> DEFINE s == c.in \o c.net
               d == [c EXCEPT !.in = @ \o c.net, !.net = << >>]
    <2>1. Receive(c) = OnEvent(d)
      BY <1>2 DEF Receive
    <2>2. s \in Seq(Tokens) /\ << >> \in Seq(Tokens)
      BY <1>1
    <2>3. d = [c EXCEPT !.in = s, !.net = << >>]
      BY <1>1 DEF Connection
    <2> HIDE DEF s, d
    <2>4. d \in Connection /\ d.in = s /\ d.net = << >>
      BY <1>1, <2>2, <2>3 DEF Connection
    <2>5. /\ d.st = c.st /\ d.script = c.script /\ d.client = c.client
          /\ d.next = c.next /\ d.ws = c.ws
          /\ d.upload = c.upload /\ d.handled = c.handled /\ d.ud = c.ud
          /\ d.made = c.made /\ d.dead = c.dead /\ d.build = c.build
      BY <1>1, <2>3 DEF Connection
    <2>6. Rest(d) = Rest(c)
      BY <2>2, <2>4 DEF Rest, s
    <2>7. InLine(d)
      BY <1>1, <2>5, <2>6 DEF InLine, Due, Torn, LastLost
    <2>8. Numbered(d) /\ Uploading(d) /\ Owned(d) /\ FramesOnly(d)
      BY <2>5 DEF Good, Numbered, BehindUpload, Uploading, Owned, FramesOnly, LastLost
    <2>9. Idle(d)
      BY <2>4, <2>5, <2>7, <2>8 DEF Good, Idle
    <2>10. QED
      BY <2>1, <2>4, <2>9, EventAnswers, AnsweredIdle
  <1>3. CASE c.net = << >>
    <2>1. Idle(c)
      BY <1>3 DEF Idle
    <2>2. \A f \in {"send_and_close", "close_immediately"} : Idle(Flag(c, f))
      BY <1>1, <2>1, FlagAnswers, AnsweredIdle
    <2>3. QED
      BY <1>3, <2>1, <2>2 DEF Receive
  <1>4. QED
    BY <1>2, <1>3

\* What is written to the socket was only an answer.
LEMMA WriteIdle ==
  ASSUME NEW c, Idle(c), NEW k \in Nat
  PROVE  Idle(mg_write_to_socket(c, k))
  <1> DEFINE S == Nat \X Nat
             m == AtMost(k, Len(c.out))
             sent == SubSeq(c.out, 1, m)
             got == c.got \o sent
             left == SubSeq(c.out, m + 1, Len(c.out))
             d == [c EXCEPT !.got = got, !.out = left]
  <1>1. c \in Connection /\ c.out \in Seq(S) /\ Len(c.out) \in Nat /\ c.got \in Seq(S)
    BY DEF Idle, Good, Connection
  <1>2. m \in 0..Len(c.out)
    BY <1>1 DEF AtMost
  <1>3. mg_write_to_socket(c, k) =
          IF c.client = "gone" THEN Flag(c, "close_immediately") ELSE OnEvent(d)
    BY <1>1 DEF mg_write_to_socket, Connection
  <1> HIDE DEF m, S
  <1>4. sent \in Seq(S) /\ left \in Seq(S)
    <2>1. \A i \in 1..m : c.out[i] \in S
      BY <1>1, <1>2
    <2>2. \A i \in m + 1..Len(c.out) : c.out[i] \in S
      BY <1>1, <1>2
    <2>3. QED
      BY <1>1, <1>2, <2>1, <2>2, SubSeqProperties
  <1>5. got \in Seq(S)
    <2> HIDE DEF sent
    <2>1. QED
      BY <1>1, <1>4
  <1> HIDE DEF got, left, sent
  <1>6. Answered(c, d)
    BY <1>1, <1>4, <1>5 DEF Answered, Connection, S
  <1>7. Idle(OnEvent(d))
    <2>1. Idle(d) /\ d \in Connection
      BY <1>6, AnsweredIdle DEF Answered
    <2> HIDE DEF d
    <2>2. QED
      BY <2>1, EventAnswers, AnsweredIdle
  <1>8. Idle(Flag(c, "close_immediately"))
    BY <1>1, FlagAnswers, AnsweredIdle
  <1>9. QED
    BY <1>3, <1>7, <1>8

LEMMA ClosePassGood ==
  ASSUME NEW c, Idle(c)
  PROVE  Good(ClosePass(c))
  BY CloseGood DEF ClosePass, Idle

-----------------------------------------------------------------------------
(* The client *)

\* An abort leaves what recv_mbuf has.
LEMMA StretchFirst ==
  ASSUME NEW script, NEW s \in Seq(Tokens), NEW t \in Seq(Tokens),
         Stretch(script, s \o t)
  PROVE  Stretch(script, s) /\ (s # << >> => s \o t # << >> /\ (s \o t)[1] = s[1])
  <1> DEFINE r == s \o t
             n == Len(s)
             m == Len(t)
  <1>1. n \in Nat /\ m \in Nat
    OBVIOUS
  <1>2. Len(r) = n + m /\ \A i \in 1..n + m : r[i] = IF i <= n THEN s[i] ELSE t[i - n]
    BY Concatenated
  <1>3. s # << >> => n # 0
    OBVIOUS
  <1>4. /\ \A i \in 1..Len(r) : IsToken(script, r[i])
        /\ \A i \in 1..Len(r) : i < Len(r) => r[i + 1] = After(script, r[i])
        /\ \A i, j \in 1..Len(r) : i <= j => r[i][1] <= r[j][1]
        /\ \A i, j \in 1..Len(r) :
             i <= j /\ script[r[i][1]] \in {"upgrade", "frame"} =>
               r[j] = << r[i][1] + (j - i), 1 >>
    BY DEF Stretch
  <1> HIDE DEF r, n, m
  <1>5. \A i \in 1..n : i \in 1..Len(r) /\ r[i] = s[i]
    BY <1>1, <1>2
  <1>6. \A i \in 1..n : IsToken(script, s[i])
    BY <1>4, <1>5
  <1>7. ASSUME NEW i \in 1..n, i < n PROVE s[i + 1] = After(script, s[i])
    <2>1. i + 1 \in 1..n /\ i < Len(r)
      BY <1>1, <1>2, <1>7
    <2>2. QED
      BY <1>4, <1>5, <2>1
  <1>8. ASSUME NEW i \in 1..n, NEW j \in 1..n, i <= j
        PROVE  /\ s[i][1] <= s[j][1]
               /\ script[s[i][1]] \in {"upgrade", "frame"} =>
                    s[j] = << s[i][1] + (j - i), 1 >>
    BY <1>4, <1>5, <1>8
  <1>9. Stretch(script, s)
    BY <1>6, <1>7, <1>8 DEF Stretch, n
  <1>10. s # << >> => r # << >> /\ r[1] = s[1]
    <2>1. ASSUME n # 0 PROVE r # << >> /\ r[1] = s[1]
      <3>1. 1 \in 1..n /\ Len(r) # 0
        BY <1>1, <1>2, <2>1
      <3>2. QED
        BY <1>5, <3>1
    <2>2. QED
      BY <1>3, <2>1
  <1>11. QED
    BY <1>9, <1>10 DEF r

LEMMA SentConnection ==
  ASSUME NEW c \in Connection, NEW t \in Tokens, NEW s \in Seq(Tokens)
  PROVE  [c EXCEPT !.next = t, !.net = s] \in Connection
  BY DEF Connection

\* The client sends the next token of its stream.
LEMMA SendTokenGood ==
  ASSUME NEW c, Good(c), c.st \in {"backlog", "open"}, c.client = "sending",
         c.next[1] <= Len(c.script),
         NEW d, d = [c EXCEPT !.next = After(c.script, c.next),
                              !.net = Append(@, c.next)]
  PROVE  Good(d)
  <1> DEFINE t == c.next
             s == Rest(c)
             a == After(c.script, t)
             net == Append(c.net, t)
  <1>1. /\ c \in Connection /\ c.in \in Seq(Tokens) /\ c.net \in Seq(Tokens)
        /\ c.script \in Seq(Kinds) /\ FramesAfterUpgrade(c.script) /\ InLine(c)
        /\ t \in Tokens /\ s \in Seq(Tokens)
    BY DEF Good, Connection, Rest
  <1>2. IsToken(c.script, t)
    BY <1>1 DEF InLine, IsNext
  <1>3. IsNext(c.script, a)
    BY <1>1, <1>2, AfterIs
  <1>4. a \in Tokens /\ net \in Seq(Tokens)
    BY <1>1, <1>3 DEF IsNext
  <1>5. d = [c EXCEPT !.next = a, !.net = net]
    BY <1>1 DEF Connection
  <1>6. c.in \o net = Append(s, t)
    <2> DEFINE u == c.in
               v == c.net
    <2>1. u \in Seq(Tokens) /\ v \in Seq(Tokens) /\ t \in Tokens
      BY <1>1
    <2>2. net = Append(v, t) /\ s = u \o v
      BY DEF Rest
    <2> HIDE DEF u, v, t, net, s
    <2>3. u \o Append(v, t) = Append(u \o v, t)
      BY <2>1
    <2>4. QED
      BY <2>2, <2>3 DEF u
  <1> HIDE DEF net, a
  <1>7. d \in Connection /\ d.next = a /\ d.net = net
    <2> HIDE DEF t, s
    <2>1. d \in Connection
      <3>1. c \in Connection /\ a \in Tokens /\ net \in Seq(Tokens)
        BY <1>1, <1>4
      <3>2. [c EXCEPT !.next = a, !.net = net] \in Connection
        BY <3>1, SentConnection
      <3>3. QED
        BY <1>5, <3>2
    <2>2. d.next = a /\ d.net = net
      BY <1>1, <1>5 DEF Connection
    <2>3. QED
      BY <2>1, <2>2
  <1>8. /\ d.st = c.st /\ d.script = c.script /\ d.client = c.client
        /\ d.in = c.in /\ d.ws = c.ws
        /\ d.upload = c.upload /\ d.handled = c.handled /\ d.ud = c.ud
        /\ d.made = c.made /\ d.dead = c.dead /\ d.build = c.build
    BY <1>1, <1>5 DEF Connection
  <1>9. Rest(d) = Append(s, t)
    BY <1>6, <1>7, <1>8 DEF Rest
  <1>10. /\ Stretch(c.script, s)
         /\ s # << >> => t = After(c.script, s[Len(s)]) /\ Due(c, s[1])
         /\ s = << >> => Due(c, t)
    BY <1>1 DEF InLine
  <1> HIDE DEF s, t
  <1>11. Stretch(c.script, Append(s, t))
    BY <1>1, <1>2, <1>10, StretchAppend
  <1>12. /\ Append(s, t) # << >> /\ Len(Append(s, t)) = Len(s) + 1
         /\ Append(s, t)[Len(s) + 1] = t
         /\ Append(s, t)[1] = IF s = << >> THEN t ELSE s[1]
    <2>1. /\ Len(Append(s, t)) = Len(s) + 1 /\ Append(s, t)[Len(s) + 1] = t
          /\ \A i \in 1..Len(s) : Append(s, t)[i] = s[i]
          /\ Append(s, t) # << >> /\ Len(s) \in Nat
      <3>1. s \in Seq(Tokens) /\ t \in Tokens
        BY <1>1
      <3>2. QED
        BY <3>1, AppendProperties
    <2>2. CASE s = << >>
      <3>1. Len(s) = 0
        BY <2>2
      <3>2. QED
        BY <2>1, <2>2, <3>1
    <2>3. CASE s # << >>
      <3>1. 1 \in 1..Len(s)
        BY <1>1, <2>3
      <3>2. QED
        BY <2>1, <2>3, <3>1
    <2>4. QED
      BY <2>2, <2>3
  <1>13. Due(d, Append(s, t)[1])
    BY <1>8, <1>10, <1>12 DEF Due, Torn, LastLost
  <1>14. InLine(d)
    BY <1>3, <1>7, <1>8, <1>9, <1>11, <1>12, <1>13 DEF InLine, a
  <1>15. Numbered(d) /\ Uploading(d) /\ Owned(d) /\ FramesOnly(d)
    BY <1>8 DEF Good, Numbered, BehindUpload, Uploading, Owned, FramesOnly, LastLost
  <1>16. QED
    BY <1>1, <1>7, <1>8, <1>14, <1>15 DEF Good

\* The client goes away, and what it has not delivered is lost.
LEMMA AbortGood ==
  ASSUME NEW c, Good(c), c.st \in {"backlog", "open"},
         NEW d, d = [c EXCEPT !.client = "gone", !.net = << >>]
  PROVE  Good(d)
  <1>1. /\ c \in Connection /\ c.in \in Seq(Tokens) /\ c.net \in Seq(Tokens)
        /\ InLine(c)
    BY DEF Good, Connection
  <1>2. d \in Connection /\ d.client = "gone" /\ d.net = << >>
    <2>1. << >> \in Seq(Tokens)
      OBVIOUS
    <2>2. QED
      BY <1>1, <2>1 DEF Connection
  <1>3. /\ d.st = c.st /\ d.script = c.script
        /\ d.in = c.in /\ d.ws = c.ws /\ d.next = c.next
        /\ d.upload = c.upload /\ d.handled = c.handled /\ d.ud = c.ud
        /\ d.made = c.made /\ d.dead = c.dead /\ d.build = c.build
    BY <1>1 DEF Connection
  <1>4. Rest(d) = c.in
    BY <1>1, <1>2, <1>3 DEF Rest
  <1>5. /\ Stretch(c.script, c.in)
        /\ c.in # << >> => Rest(c) # << >> /\ Rest(c)[1] = c.in[1]
    <2>1. Rest(c) = c.in \o c.net /\ Stretch(c.script, Rest(c))
      BY <1>1 DEF InLine, Rest
    <2>2. Stretch(c.script, c.in \o c.net)
      BY <2>1
    <2>3. /\ Stretch(c.script, c.in)
          /\ c.in # << >> =>
               c.in \o c.net # << >> /\ (c.in \o c.net)[1] = c.in[1]
      <3> DEFINE s == c.in
                 t == c.net
      <3>1. s \in Seq(Tokens) /\ t \in Seq(Tokens) /\ Stretch(c.script, s \o t)
        BY <1>1, <2>2
      <3> HIDE DEF s, t
      <3>2. Stretch(c.script, s) /\ (s # << >> => s \o t # << >> /\ (s \o t)[1] = s[1])
        BY <3>1, StretchFirst
      <3>3. QED
        BY <3>2 DEF s, t
    <2>4. QED
      BY <2>1, <2>3
  <1>6. InLine(d)
    BY <1>1, <1>2, <1>3, <1>4, <1>5 DEF InLine, Due, Torn, LastLost
  <1>7. Numbered(d) /\ Uploading(d) /\ Owned(d) /\ FramesOnly(d)
    BY <1>3 DEF Good, Numbered, BehindUpload, Uploading, Owned, FramesOnly, LastLost
  <1>8. QED
    BY <1>2, <1>3, <1>6, <1>7 DEF Good

\* What the client, or the accept, only marks.
LEMMA MarkGood ==
  ASSUME NEW c, Good(c),
         NEW d \in Connection,
         \/ d.st = c.st
         \/ c.st = "none" /\ d.st = "backlog"
         \/ c.st = "backlog" /\ d.st = "open",
         d.script = c.script, d.client = c.client \/ c.client # "gone",
         d.in = c.in, d.net = c.net, d.ws = c.ws, d.next = c.next,
         d.upload = c.upload, d.handled = c.handled, d.ud = c.ud,
         d.made = c.made, d.dead = c.dead /\ d.build = c.build
  PROVE  Good(d)
  <1>1. Rest(d) = Rest(c)
    BY DEF Rest
  <1>2. InLine(c) => InLine(d)
    BY <1>1 DEF InLine, Due, Torn, LastLost
  <1>3. Numbered(d) /\ Uploading(d) /\ Owned(d) /\ (FramesOnly(c) => FramesOnly(d))
    BY DEF Good, Numbered, BehindUpload, Uploading, Owned, FramesOnly, LastLost
  <1>4. QED
    BY <1>2, <1>3 DEF Good

-----------------------------------------------------------------------------
(* The steps *)

\* Every connection is good: an invariant a step cannot leave.
IInv ==
  /\ conn = [c \in Conns |-> conn[c]]
  /\ \A c \in Conns : Good(conn[c])

\* A step changes one connection.
LEMMA OneChanges ==
  ASSUME IInv, NEW c \in Conns, NEW d, Good(d), conn' = [conn EXCEPT ![c] = d]
  PROVE  IInv'
  <1>1. conn' = [e \in Conns |-> IF e = c THEN d ELSE conn[e]]
    BY DEF IInv
  <1>2. \A e \in Conns : Good(conn'[e])
    BY <1>1 DEF IInv
  <1>3. QED
    BY <1>1, <1>2 DEF IInv

LEMMA InitGood ==
  ASSUME Registered, Init
  PROVE  IInv
  <1>1. PICK w \in Workloads : \E build \in Builds :
          conn = [c \in Conns |-> Unused(w[c], build)]
    BY DEF Init
  <1>2. PICK build \in Builds :
          conn = [c \in Conns |-> Unused(w[c], build)]
    BY <1>1
  <1>3. ASSUME NEW c \in Conns
        PROVE  Good(conn[c])
    <2> DEFINE u == conn[c]
               script == w[c]
    <2>1. script \in Seq(Kinds) /\ FramesAfterUpgrade(script)
      BY WorkloadsAssumption
    <2>2. u = Unused(script, build)
      BY <1>2
    <2>3. << 1, 1 >> \in Tokens /\ << >> \in Seq(Tokens) /\ << >> \in Seq(Nat \X Nat)
          /\ << >> \in Seq(Nat \X Hows)
      BY DEF Tokens
    <2>4. NoFile \in Files /\ Listener \in Int /\ build \in WithFactory
      BY DEF NoFile, Files, Listener, Registered
    <2> HIDE DEF u, script
    <2>5. /\ u.st = "none" /\ u.script = script /\ u.client = "sending"
          /\ u.next = << 1, 1 >> /\ u.net = << >> /\ u.in = << >> /\ ~u.ws
          /\ u.upload = 0 /\ u.handled = << >> /\ u.ud = Listener
          /\ u.made = {} /\ u.dead = {}
      BY <2>2 DEF Unused
    <2>6. u \in Connection
      BY <2>1, <2>2, <2>3, <2>4 DEF Unused, Connection
    <2>7. Numbered(u) /\ Uploading(u) /\ Owned(u) /\ FramesOnly(u)
      BY <2>5 DEF Numbered, BehindUpload, Uploading, Owned, FramesOnly, LastLost
    <2>8. Rest(u) = << >>
      BY <2>5 DEF Rest
    <2>9. Stretch(script, << >>)
      BY <2>3 DEF Stretch
    <2>10. Due(u, << 1, 1 >>)
      BY <2>5 DEF Due, Torn, LastLost
    <2>11. IsNext(script, << 1, 1 >>)
      <3>1. ASSUME 1 <= Len(script)
            PROVE  1 \in 1..Len(script) /\ 1 \in 1..Size(script[1])
        <4>1. 1 \in 1..Len(script) /\ script[1] \in Kinds
          BY <2>1, <3>1
        <4>2. QED
          BY <4>1, SizeIs
      <3>2. QED
        BY <2>3, <3>1 DEF IsNext, IsToken
    <2>12. InLine(u)
      BY <2>5, <2>8, <2>9, <2>10, <2>11 DEF InLine
    <2>13. Good(u)
      BY <2>1, <2>5, <2>6, <2>7, <2>12 DEF Good
    <2>14. QED
      BY <2>13 DEF u
  <1>4. conn = [c \in Conns |-> conn[c]]
    BY <1>2
  <1>5. QED
    BY <1>3, <1>4 DEF IInv

\* One turn of the poll loop: receive, handle, write, close.
LEMMA PollGood ==
  ASSUME IInv, NEW c \in Conns, NEW k \in Nat, PollWrites(c, k)
  PROVE  IInv'
  <1> DEFINE b == conn[c]
             r == Receive(b)
             d == IF b.net = << >> THEN r ELSE OnRecv(r)
             w == IF b.out = << >> \/ d.out = << >> \/ k = 0 THEN d
                  ELSE mg_write_to_socket(d, k)
             e == IF "close_immediately" \in d.flags THEN d ELSE OnEvent(w)
  <1>1. Good(b) /\ b.st = "open" /\ conn' = [conn EXCEPT ![c] = ClosePass(e)]
    BY DEF IInv, PollWrites
  <1> HIDE DEF b
  <1>2. Idle(r)
    BY <1>1, ReceiveIdle
  <1> HIDE DEF r
  <1>3. Idle(d)
    BY <1>2, OnRecvGood
  <1> HIDE DEF d
  <1>4. Idle(w)
    BY <1>3, WriteIdle
  <1> HIDE DEF w
  <1>5. Idle(OnEvent(w))
    BY <1>4, EventAnswers, AnsweredIdle DEF Idle, Good
  <1>6. Idle(e)
    BY <1>3, <1>5
  <1> HIDE DEF e
  <1>7. Good(ClosePass(e))
    BY <1>6, ClosePassGood
  <1>8. QED
    BY <1>1, <1>7, OneChanges

LEMMA NextGood ==
  ASSUME IInv, [Next]_vars
  PROVE  IInv'
  <1>1. ASSUME NEW c \in Conns, Connect(c)
        PROVE  IInv'
    <2>1. PICK polite \in BOOLEAN :
            conn' = [conn EXCEPT ![c] = [@ EXCEPT !.st = "backlog", !.polite = polite]]
      BY <1>1 DEF Connect
    <2> DEFINE b == conn[c]
               d == [b EXCEPT !.st = "backlog", !.polite = polite]
    <2>2. b.st = "none" /\ Good(b) /\ b \in Connection
      BY <1>1 DEF Connect, IInv, Good
    <2>3. conn' = [conn EXCEPT ![c] = d]
      BY <2>1 DEF IInv
    <2> HIDE DEF b
    <2>4. d \in Connection
      BY <2>2, ZenonT(40) DEF Connection
    <2>5. Good(d)
      BY <2>2, <2>4, MarkGood, ZenonT(40) DEF Connection
    <2> HIDE DEF d
    <2>6. QED
      BY <2>3, <2>5, OneChanges
  <1>2. ASSUME NEW c \in Conns, SendToken(c)
        PROVE  IInv'
    <2> DEFINE b == conn[c]
               d == [b EXCEPT !.next = After(b.script, b.next),
                              !.net = Append(@, b.next)]
    <2>1. /\ b.st \in {"backlog", "open"} /\ b.client = "sending" /\ Good(b)
          /\ b.next[1] <= Len(b.script)
          /\ conn' = [conn EXCEPT ![c].next = After(b.script, b.next),
                                  ![c].net = Append(@, b.next)]
      BY <1>2 DEF SendToken, Alive, IInv
    <2>2. conn' = [conn EXCEPT ![c] = d]
      BY <2>1 DEF IInv
    <2> HIDE DEF b
    <2>3. Good(d)
      BY <2>1, SendTokenGood
    <2> HIDE DEF d
    <2>4. QED
      BY <2>2, <2>3, OneChanges
  <1>3. ASSUME NEW c \in Conns, Finish(c)
        PROVE  IInv'
    <2> DEFINE b == conn[c]
               d == [b EXCEPT !.client = "finished"]
    <2>1. b.client = "sending" /\ Good(b) /\ b \in Connection
      BY <1>3 DEF Finish, Alive, IInv, Good
    <2>2. conn' = [conn EXCEPT ![c] = d]
      BY <1>3 DEF Finish, IInv
    <2> HIDE DEF b
    <2>3. d \in Connection
      BY <2>1 DEF Connection
    <2>4. Good(d)
      BY <2>1, <2>3, MarkGood DEF Connection
    <2> HIDE DEF d
    <2>5. QED
      BY <2>2, <2>4, OneChanges
  <1>4. ASSUME NEW c \in Conns, Abort(c)
        PROVE  IInv'
    <2> DEFINE b == conn[c]
               d == [b EXCEPT !.client = "gone", !.net = << >>]
    <2>1. b.st \in {"backlog", "open"} /\ Good(b)
      BY <1>4 DEF Abort, IInv
    <2>2. conn' = [conn EXCEPT ![c] = d]
      BY <1>4 DEF Abort, IInv
    <2> HIDE DEF b
    <2>3. Good(d)
      BY <2>1, AbortGood
    <2> HIDE DEF d
    <2>4. QED
      BY <2>2, <2>3, OneChanges
  <1>5. ASSUME NEW c \in Conns, mg_accept_conn(c)
        PROVE  IInv'
    <2> DEFINE b == conn[c]
               d == [b EXCEPT !.st = "open", !.ud = Listener]
    <2>1. b.st = "backlog" /\ Good(b) /\ b \in Connection /\ b.ud = Listener
      BY <1>5 DEF mg_accept_conn, IInv, Good
    <2>2. conn' = [conn EXCEPT ![c] = d]
      BY <1>5 DEF mg_accept_conn, IInv
    <2> HIDE DEF b
    <2>3. d \in Connection
      BY <2>1, ZenonT(40) DEF Connection
    <2>4. Good(d)
      BY <2>1, <2>3, MarkGood, ZenonT(40) DEF Connection
    <2> HIDE DEF d
    <2>5. QED
      BY <2>2, <2>4, OneChanges
  <1>6. ASSUME NEW c \in Conns, Poll(c)
        PROVE  IInv'
    <2>1. PICK k \in {0, 1, SendMax + 1} : PollWrites(c, k)
      BY <1>6 DEF Poll
    <2>2. k \in Nat
      OBVIOUS
    <2>3. QED
      BY <2>1, <2>2, PollGood
  <1>7. CASE UNCHANGED vars
    BY <1>7 DEF IInv, vars
  <1>8. QED
    BY <1>1, <1>2, <1>3, <1>4, <1>5, <1>6, <1>7 DEF Next

LEMMA Invariant ==
  ASSUME Registered
  PROVE  Spec => []IInv
  <1>1. Init => IInv
    BY InitGood
  <1>2. IInv /\ [Next]_vars => IInv'
    BY NextGood
  <1>3. QED
    BY <1>1, <1>2, PTL DEF Spec

-----------------------------------------------------------------------------
(* Induction, and what the server answers *)

HIDE SizesAssumption

\* Induction, about a set: the library's theorems take an operator, which the
\* provers cannot instantiate.
LEMMA Induction ==
  ASSUME NEW S, 0 \in S, \A n \in Nat : n \in S => n + 1 \in S
  PROVE  Nat \subseteq S
  <1> SUFFICES ASSUME NEW n \in Nat, n \notin S PROVE FALSE
    OBVIOUS
  <1> DEFINE R == StrictSubsetOrdering(Nat)
             T == { 0..m : m \in Nat \ S }
  <1>1. IsWellFoundedOn(R, FiniteSubsetsOf(Nat))
    BY FS_StrictSubsetOrderingWellFounded
  <1>2. T \subseteq FiniteSubsetsOf(Nat) /\ T # {}
    <2>1. \A m \in Nat : IsFiniteSet(0..m) /\ 0..m \subseteq Nat
      BY FS_Interval
    <2>2. 0..n \in T
      OBVIOUS
    <2>3. QED
      BY <2>1, <2>2 DEF FiniteSubsetsOf
  <1> HIDE DEF R, T
  <1>3. PICK x \in T : \A y \in T : ~(<< y, x >> \in R)
    BY <1>1, <1>2, WFMin, Zenon
  <1>4. PICK m \in Nat \ S : x = 0..m
    BY <1>3 DEF T
  <1>5. m # 0 /\ m - 1 \in Nat /\ m - 1 \in Nat \ S
    <2>1. m # 0
      BY <1>4
    <2>2. m - 1 \in Nat /\ (m - 1) + 1 = m
      BY <2>1
    <2>3. QED
      BY <2>1, <2>2
  <1>6. 0..(m - 1) \in T
    BY <1>5 DEF T
  <1>7. << 0..(m - 1), x >> \in R
    <2>1. 0..(m - 1) \subseteq Nat /\ 0..m \subseteq Nat
      OBVIOUS
    <2>2. 0..(m - 1) \subseteq 0..m /\ m \in 0..m /\ m \notin 0..(m - 1)
      BY <1>5
    <2>3. QED
      BY <1>4, <2>1, <2>2 DEF R, StrictSubsetOrdering
  <1>8. QED
    BY <1>3, <1>6, <1>7

Grown(g, s, n) ==
  g = [i \in 1..n |-> IF i = 1 THEN s[i] ELSE g[i - 1] \o s[i]]

Chain(s, n) == CHOOSE g : Grown(g, s, n)

\* FlattenSeq of a sequence, by the recursive function it is made of.
LEMMA FlattenIs ==
  ASSUME NEW s, Len(s) # 0
  PROVE  Seqs!FlattenSeq(s) = Chain(s, Len(s))[Len(s)]
  BY Zenon DEF Seqs!FlattenSeq, Chain, Grown

\* Nothing is made of no sequences.
LEMMA FlattenEmpty ==
  ASSUME NEW s, Len(s) = 0
  PROVE  Seqs!FlattenSeq(s) = s
  BY Zenon DEF Seqs!FlattenSeq

\* The recursive function of FlattenSeq exists, for every length.
LEMMA GrownExists ==
  ASSUME NEW s
  PROVE  \A n \in Nat : \E g : Grown(g, s, n)
  <1> DEFINE S == { n \in Nat : \E g : Grown(g, s, n) }
  <1>1. 0 \in S
    <2>1. Grown([i \in 1..0 |-> 0], s, 0)
      BY DEF Grown
    <2>2. QED
      BY <2>1
  <1>2. ASSUME NEW n \in Nat, n \in S PROVE n + 1 \in S
    <2>1. PICK g : Grown(g, s, n)
      BY <1>2
    <2> DEFINE h == [i \in 1..(n + 1) |-> IF i = 1 THEN s[i] ELSE g[i - 1] \o s[i]]
    <2>2. \A i \in 1..n : h[i] = g[i]
      <3>1. TAKE i \in 1..n
      <3>2. i \in 1..(n + 1)
        OBVIOUS
      <3>3. h[i] = IF i = 1 THEN s[i] ELSE g[i - 1] \o s[i]
        BY <3>2, Zenon
      <3>4. g[i] = IF i = 1 THEN s[i] ELSE g[i - 1] \o s[i]
        BY <2>1, <3>1, Zenon DEF Grown
      <3>5. QED
        BY <3>3, <3>4
    <2>3. ASSUME NEW i \in 1..(n + 1), i # 1
          PROVE  h[i - 1] = g[i - 1]
      <3>1. i - 1 \in 1..n
        BY <2>3
      <3>2. QED
        BY <2>2, <3>1
    <2>4. h = [i \in 1..(n + 1) |-> IF i = 1 THEN s[i] ELSE h[i - 1] \o s[i]]
      <3>1. \A i \in 1..(n + 1) : (IF i = 1 THEN s[i] ELSE g[i - 1] \o s[i])
                                 = (IF i = 1 THEN s[i] ELSE h[i - 1] \o s[i])
        BY <2>3, Zenon
      <3>2. QED
        BY <3>1, Zenon
    <2>5. Grown(h, s, n + 1)
      BY <2>4, Zenon DEF Grown
    <2>6. QED
      BY <2>5
  <1>3. Nat \subseteq S
    <2> HIDE DEF S
    <2>1. QED
      BY <1>1, <1>2, Induction
  <1>4. QED
    BY <1>3

Alike(s, t, n) == \A i \in 1..n : s[i] = t[i]

\* What is joined of the first n sequences does not depend on those after them.
LEMMA GrownUnique ==
  ASSUME NEW s, NEW t, NEW N \in Nat, NEW M \in Nat, NEW f, NEW g,
         Grown(f, s, N), Grown(g, t, M), N <= M, Alike(s, t, N)
  PROVE  Alike(f, g, N)
  <1> DEFINE S == { n \in Nat : n + 1 \in 1..N => f[n + 1] = g[n + 1] }
  <1>1. \A i \in 1..N : f[i] = IF i = 1 THEN s[i] ELSE f[i - 1] \o s[i]
    BY Zenon DEF Grown
  <1>2. \A i \in 1..M : g[i] = IF i = 1 THEN t[i] ELSE g[i - 1] \o t[i]
    BY Zenon DEF Grown
  <1>3. 0 \in S
    <2>1. ASSUME 1 \in 1..N PROVE f[1] = g[1]
      <3>1. 1 \in 1..M
        BY <2>1
      <3>2. f[1] = s[1] /\ g[1] = t[1]
        BY <1>1, <1>2, <2>1, <3>1, Zenon
      <3>3. QED
        BY <2>1, <3>2 DEF Alike
    <2>2. QED
      BY <2>1
  <1>4. ASSUME NEW n \in Nat, n \in S PROVE n + 1 \in S
    <2>1. ASSUME n + 2 \in 1..N PROVE f[n + 2] = g[n + 2]
      <3>1. n + 1 \in 1..N /\ n + 2 \in 1..M /\ n + 2 # 1 /\ (n + 2) - 1 = n + 1
        BY <2>1
      <3>2. f[n + 1] = g[n + 1]
        BY <1>4, <3>1
      <3>3. f[n + 2] = f[n + 1] \o s[n + 2] /\ g[n + 2] = g[n + 1] \o t[n + 2]
        BY <1>1, <1>2, <2>1, <3>1
      <3>4. QED
        BY <2>1, <3>2, <3>3 DEF Alike
    <2>2. (n + 1) + 1 = n + 2
      OBVIOUS
    <2>3. QED
      BY <2>1, <2>2
  <1>5. Nat \subseteq S
    <2> HIDE DEF S
    <2>1. QED
      BY <1>3, <1>4, Induction
  <1>6. SUFFICES ASSUME NEW i \in 1..N PROVE f[i] = g[i]
    BY DEF Alike
  <1>7. i - 1 \in S /\ (i - 1) + 1 = i
    <2>1. i - 1 \in Nat
      OBVIOUS
    <2>2. QED
      BY <1>5, <2>1
  <1>8. QED
    BY <1>6, <1>7

\* One sequence more is joined at the end.
LEMMA FlattenAppend ==
  ASSUME NEW n \in Nat, NEW s, NEW t, Len(s) = n, Len(t) = n + 1,
         Alike(s, t, n), n = 0 => s = << >>,
         NEW V, t[n + 1] \in Seq(V)
  PROVE  Seqs!FlattenSeq(t) = Seqs!FlattenSeq(s) \o t[n + 1]
  <1>1. Grown(Chain(s, n), s, n) /\ Grown(Chain(t, n + 1), t, n + 1)
    <2>1. \A u : \A m \in Nat : Grown(Chain(u, m), u, m)
      BY GrownExists, Zenon DEF Chain
    <2>2. n + 1 \in Nat
      OBVIOUS
    <2>3. QED
      BY <2>1, <2>2
  <1>2. Alike(Chain(s, n), Chain(t, n + 1), n)
    <2>1. n + 1 \in Nat /\ n <= n + 1
      OBVIOUS
    <2>2. QED
      BY <1>1, <2>1, GrownUnique
  <1>3. Seqs!FlattenSeq(t) = Chain(t, n + 1)[n + 1]
    BY FlattenIs
  <1>4. Chain(t, n + 1)[n + 1] =
          IF n + 1 = 1 THEN t[n + 1] ELSE Chain(t, n + 1)[(n + 1) - 1] \o t[n + 1]
    <2>1. n + 1 \in 1..(n + 1)
      OBVIOUS
    <2>2. QED
      BY <1>1, <2>1, Zenon DEF Grown
  <1>5. CASE n = 0
    <2>1. Seqs!FlattenSeq(s) = << >>
      BY <1>5, FlattenEmpty
    <2>2. Seqs!FlattenSeq(t) = t[n + 1]
      BY <1>3, <1>4, <1>5
    <2>3. << >> \o t[n + 1] = t[n + 1]
      OBVIOUS
    <2>4. QED
      BY <2>1, <2>2, <2>3
  <1>6. CASE n # 0
    <2>1. Seqs!FlattenSeq(s) = Chain(s, n)[n]
      BY <1>6, FlattenIs
    <2>2. n \in 1..n /\ (n + 1) - 1 = n /\ n + 1 # 1
      BY <1>6
    <2>3. Chain(t, n + 1)[n + 1] = Chain(t, n + 1)[n] \o t[n + 1]
      BY <1>4, <2>2
    <2>4. QED
      BY <1>2, <1>3, <2>1, <2>2, <2>3 DEF Alike
  <1>7. QED
    BY <1>5, <1>6

Units == Nat \X Nat

\* No request, no answer.
LEMMA AnswersNone ==
  ASSUME NEW script
  PROVE  Answers(script, 0) = << >>
  <1> DEFINE s == [m \in 1..0 |-> Answer(m, script[m])]
  <1>1. s = << >>
    OBVIOUS
  <1> HIDE DEF s
  <1>2. Len(s) = 0
    BY <1>1
  <1>3. QED
    BY <1>1, <1>2, FlattenEmpty DEF Answers, s

\* What one request is answered with is a sequence of units.
LEMMA AnswerIs ==
  ASSUME NEW n \in Nat, NEW kind \in Kinds
  PROVE  Answer(n, kind) \in Seq(Units)
  <1>1. << n, 0 >> \in Units /\ << n, 1 >> \in Units
    BY DEF Units
  <1>2. << >> \in Seq(Units) /\ << << n, 0 >> >> \in Seq(Units)
        /\ << << n, 0 >>, << n, 1 >> >> \in Seq(Units)
    BY <1>1
  <1>3. [i \in 1..(FileLen + 1) |-> << n, i - 1 >>] \in Seq(Units)
    <2>1. FileLen + 1 \in Nat /\ \A i \in 1..(FileLen + 1) : << n, i - 1 >> \in Units
      BY SizesAssumption DEF Units
    <2>2. QED
      BY <2>1
  <1>4. QED
    BY <1>2, <1>3 DEF Answer

\* One more request handled is one more answer.
LEMMA AnswersNext ==
  ASSUME NEW script \in Seq(Kinds), NEW n \in Nat, n + 1 \in 1..Len(script)
  PROVE  Answers(script, n + 1) = Answers(script, n) \o Answer(n + 1, script[n + 1])
  <1> DEFINE s == [m \in 1..n |-> Answer(m, script[m])]
             t == [m \in 1..(n + 1) |-> Answer(m, script[m])]
  <1>1. Len(s) = n /\ Len(t) = n + 1 /\ (n = 0 => s = << >>)
    OBVIOUS
  <1>2. t[n + 1] = Answer(n + 1, script[n + 1])
    OBVIOUS
  <1>3. Alike(s, t, n)
    BY DEF Alike
  <1>4. script[n + 1] \in Kinds /\ n + 1 \in Nat
    OBVIOUS
  <1>5. t[n + 1] \in Seq(Units)
    BY <1>2, <1>4, AnswerIs
  <1>6. Seqs!FlattenSeq(s) = Answers(script, n) /\ Seqs!FlattenSeq(t) = Answers(script, n + 1)
    BY DEF Answers
  <1> HIDE DEF s, t
  <1>7. Seqs!FlattenSeq(t) = Seqs!FlattenSeq(s) \o t[n + 1]
    BY <1>1, <1>3, <1>5, FlattenAppend
  <1>8. QED
    BY <1>2, <1>6, <1>7

\* So is what the requests of a script are answered with.
LEMMA AnswersAre ==
  ASSUME NEW script \in Seq(Kinds)
  PROVE  \A n \in 0..Len(script) : Answers(script, n) \in Seq(Units)
  <1> DEFINE S == { n \in Nat : n \in 0..Len(script) => Answers(script, n) \in Seq(Units) }
  <1>1. 0 \in S
    <2>1. << >> \in Seq(Units)
      OBVIOUS
    <2>2. Answers(script, 0) \in Seq(Units)
      BY <2>1, AnswersNone
    <2>3. QED
      BY <2>2
  <1>2. ASSUME NEW n \in Nat, n \in S PROVE n + 1 \in S
    <2>1. ASSUME n + 1 \in 0..Len(script)
          PROVE  Answers(script, n + 1) \in Seq(Units)
      <3>1. n + 1 \in 1..Len(script) /\ n \in 0..Len(script)
        BY <2>1
      <3>2. Answers(script, n) \in Seq(Units)
        BY <1>2, <3>1
      <3>3. script[n + 1] \in Kinds /\ n + 1 \in Nat
        BY <3>1
      <3>4. Answer(n + 1, script[n + 1]) \in Seq(Units)
        BY <3>3, AnswerIs
      <3>5. Answers(script, n + 1) = Answers(script, n) \o Answer(n + 1, script[n + 1])
        BY <3>1, AnswersNext
      <3>6. QED
        BY <3>2, <3>4, <3>5, ConcatProperties
    <2>2. QED
      BY <2>1
  <1>3. Nat \subseteq S
    <2> HIDE DEF S
    <2>1. QED
      BY <1>1, <1>2, Induction
  <1>4. QED
    BY <1>3

\* What is told of a script is told of its beginning.
LEMMA AnswersBefore ==
  ASSUME NEW script \in Seq(Kinds), NEW n \in 0..Len(script)
  PROVE  Answers(SubSeq(script, 1, n), n) = Answers(script, n)
  <1> DEFINE b == SubSeq(script, 1, n)
  <1>1. \A m \in 1..n : b[m] = script[m]
    BY SubSeqProperties
  <1> HIDE DEF b
  <1>2. [m \in 1..n |-> Answer(m, b[m])] = [m \in 1..n |-> Answer(m, script[m])]
    BY <1>1, Zenon
  <1>3. QED
    BY <1>2, Zenon DEF Answers, b

-----------------------------------------------------------------------------
(* What no handler touches *)

\* d is c as its client sees it, but for the socket.
SameClient(c, d) ==
  /\ DOMAIN d = DOMAIN c
  /\ d.polite = c.polite /\ d.client = c.client /\ d.script = c.script
  /\ d.next = c.next /\ d.got = c.got

IsConnection(c) ==
  DOMAIN c = { "st", "script", "polite", "client", "next", "net", "got", "in",
               "out", "flags", "file", "ws", "upload", "handled", "ud", "made",
               "dead", "build" }

\* The fields of a connection.
LEMMA ConnectionIs ==
  ASSUME NEW c \in Connection
  PROVE  IsConnection(c)
  BY ZenonT(40) DEF Connection, IsConnection

\* What neither of two handlers touches, both together do not.
LEMMA SameAgain ==
  ASSUME NEW c, NEW d, NEW e, SameClient(c, d), SameClient(d, e)
  PROVE  SameClient(c, e)
  BY DEF SameClient

\* What no handler touches.
LEMMA Untouched ==
  ASSUME NEW c, IsConnection(c), NEW v
  PROVE  /\ SameClient(c, c)
         /\ SameClient(c, [c EXCEPT !.in = v]) /\ SameClient(c, [c EXCEPT !.out = v])
         /\ SameClient(c, [c EXCEPT !.flags = v]) /\ SameClient(c, [c EXCEPT !.file = v])
         /\ SameClient(c, [c EXCEPT !.ws = v]) /\ SameClient(c, [c EXCEPT !.upload = v])
         /\ SameClient(c, [c EXCEPT !.handled = v]) /\ SameClient(c, [c EXCEPT !.ud = v])
         /\ SameClient(c, [c EXCEPT !.made = v]) /\ SameClient(c, [c EXCEPT !.dead = v])
         /\ SameClient(c, [c EXCEPT !.st = v]) /\ SameClient(c, [c EXCEPT !.net = v])
  BY DEF SameClient, IsConnection

\* The handlers, one by one: none touches what belongs to the client.
LEMMA SendSame ==
  ASSUME NEW c, IsConnection(c), NEW units
  PROVE  SameClient(c, Send(c, units))
  BY ZenonT(40) DEF SameClient, IsConnection, Send

LEMMA FlagSame ==
  ASSUME NEW c, IsConnection(c), NEW f
  PROVE  SameClient(c, Flag(c, f))
  BY ZenonT(40) DEF SameClient, IsConnection, Flag

LEMMA TransferSame ==
  ASSUME NEW c, IsConnection(c)
  PROVE  SameClient(c, mg_http_transfer_file_data(c))
  BY ZenonT(40) DEF SameClient, IsConnection, mg_http_transfer_file_data, Send

LEMMA SendDataSame ==
  ASSUME NEW c, IsConnection(c), NEW n
  PROVE  SameClient(c, sendData(c, n))
  BY ZenonT(40) DEF SameClient, IsConnection, sendData, Send, Flag

LEMMA ServeFileSame ==
  ASSUME NEW c, IsConnection(c), NEW n, NEW kind
  PROVE  SameClient(c, mg_http_serve_file(c, n, kind))
  <1> DEFINE closed == [c EXCEPT !.file.open = FALSE]
             d == Send(closed, Answer(n, kind))
             s == Send(c, << << n, 0 >> >>)
             opened == [s EXCEPT !.file.open = TRUE, !.file.of = n,
                                 !.file.keepalive = (kind = "file")]
  <1>1. SameClient(c, closed)
    BY Untouched
  <1>2. SameClient(closed, d) /\ SameClient(d, Flag(d, "send_and_close"))
    <2> HIDE DEF closed
    <2>1. SameClient(closed, d)
      BY <1>1, SendSame DEF SameClient, IsConnection
    <2> HIDE DEF d
    <2>2. QED
      BY <1>1, <2>1, FlagSame DEF SameClient, IsConnection
  <1>3. SameClient(c, s)
    BY SendSame
  <1>4. mg_http_serve_file(c, n, kind) =
          IF kind = "missing" THEN Flag(d, "send_and_close")
          ELSE mg_http_transfer_file_data(opened)
    BY DEF mg_http_serve_file
  <1> HIDE DEF closed, d, s
  <1>5. SameClient(s, opened)
    BY <1>3, ZenonT(40) DEF SameClient, IsConnection
  <1> HIDE DEF opened
  <1>6. SameClient(opened, mg_http_transfer_file_data(opened))
    BY <1>3, <1>5, TransferSame DEF SameClient, IsConnection
  <1>7. QED
    BY <1>1, <1>2, <1>3, <1>4, <1>5, <1>6, SameAgain

LEMMA HttpRequestSame ==
  ASSUME NEW c, IsConnection(c), NEW n, NEW how
  PROVE  SameClient(c, onHttpRequest(c, n, how))
  <1> DEFINE kind == c.script[n]
             d == [c EXCEPT !.handled = Append(@, << n, how >>)]
             e == mg_http_serve_file(d, n, IF IsFile(kind) THEN kind ELSE "missing")
  <1>1. SameClient(c, d) /\ IsConnection(d)
    BY Untouched DEF SameClient, IsConnection
  <1>2. onHttpRequest(c, n, how) =
          IF kind \in {"hello", "post", "stream"} THEN sendData(d, n)
          ELSE IF kind = "system" THEN d ELSE e
    BY DEF onHttpRequest
  <1> HIDE DEF d
  <1>3. SameClient(d, sendData(d, n)) /\ SameClient(d, e)
    BY <1>1, SendDataSame, ServeFileSame
  <1>4. QED
    BY <1>1, <1>2, <1>3, SameAgain

LEMMA MultipartEndSame ==
  ASSUME NEW c, IsConnection(c), NEW n, NEW how
  PROVE  SameClient(c, onMultipartRequestEnd(c, n, how))
  <1> DEFINE d == [c EXCEPT !.dead = @ \cup {c.ud}, !.ud = Original(@),
                            !.handled = Append(@, << n, how >>)]
  <1>1. SameClient(c, d) /\ IsConnection(d)
    BY ZenonT(40) DEF SameClient, IsConnection
  <1>2. onMultipartRequestEnd(c, n, how) = sendData(d, n)
    BY DEF onMultipartRequestEnd
  <1> HIDE DEF d
  <1>3. QED
    BY <1>1, <1>2, SendDataSame, SameAgain

LEMMA RemoveAllSame ==
  ASSUME NEW c, IsConnection(c)
  PROVE  SameClient(c, RemoveAll(c))
  BY ZenonT(40) DEF SameClient, IsConnection, RemoveAll

LEMMA ContinueSame ==
  ASSUME NEW c, IsConnection(c)
  PROVE  SameClient(c, mg_http_multipart_continue(c))
  <1> DEFINE k == Received(c, c.upload)
             d == Drop(c, k)
             e == [d EXCEPT !.upload = 0]
             f == onMultipartRequestEnd(e, c.upload, "whole")
  <1>1. SameClient(c, d) /\ IsConnection(d)
    BY Untouched DEF SameClient, IsConnection, Drop
  <1>2. mg_http_multipart_continue(c) =
          IF k > 0 /\ c.in[k] = << c.upload, Size("upload") >>
          THEN RemoveAll(f) ELSE d
    BY DEF mg_http_multipart_continue
  <1> HIDE DEF d
  <1>3. SameClient(d, e) /\ IsConnection(e)
    BY <1>1, Untouched DEF SameClient, IsConnection
  <1> HIDE DEF e
  <1>4. SameClient(e, f) /\ IsConnection(f)
    BY <1>3, MultipartEndSame DEF SameClient, IsConnection
  <1> HIDE DEF f
  <1>5. SameClient(f, RemoveAll(f))
    BY <1>4, RemoveAllSame
  <1>6. QED
    BY <1>1, <1>2, <1>3, <1>4, <1>5, SameAgain

LEMMA BeginSame ==
  ASSUME NEW c, IsConnection(c)
  PROVE  SameClient(c, mg_http_multipart_begin(c))
  BY ZenonT(40) DEF SameClient, IsConnection, mg_http_multipart_begin,
     onMultipartRequest, Drop

LEMMA WsHandlerSame ==
  ASSUME NEW c, IsConnection(c)
  PROVE  SameClient(c, mg_ws_handler(c))
  BY ZenonT(40) DEF SameClient, IsConnection, mg_ws_handler

LEMMA UpgradeSame ==
  ASSUME NEW c, IsConnection(c)
  PROVE  SameClient(c, Upgrade(c))
  <1> DEFINE n == First(c)
             b == [Drop(c, 1) EXCEPT !.ws = TRUE,
                     !.handled = Append(@, << n, "whole" >>)]
             d == onHandshakeRequest(b)
             e == IF d.out = << >> THEN Send(d, << << n, 0 >> >>) ELSE d
  <1>1. SameClient(c, b) /\ IsConnection(b)
    BY ZenonT(40) DEF SameClient, IsConnection, Drop
  <1>2. Upgrade(c) = IF d.flags = {} THEN mg_ws_handler(e) ELSE d
    BY DEF Upgrade
  <1> HIDE DEF b
  <1>3. SameClient(b, d) /\ IsConnection(d)
    BY <1>1, ZenonT(40) DEF SameClient, IsConnection, onHandshakeRequest
  <1> HIDE DEF d
  <1>4. SameClient(d, e) /\ IsConnection(e)
    BY <1>3, SendSame DEF SameClient, IsConnection
  <1> HIDE DEF e
  <1>5. SameClient(e, mg_ws_handler(e))
    BY <1>4, WsHandlerSame
  <1>6. QED
    BY <1>1, <1>2, <1>3, <1>4, <1>5, SameAgain

LEMMA OnRecvSame ==
  ASSUME NEW c, IsConnection(c)
  PROVE  SameClient(c, OnRecv(c))
  <1> DEFINE n == First(c)
             e == onHttpRequest(c, n, "whole")
             b == mg_http_multipart_begin(c)
  <1>1. SameClient(c, c)
    BY Untouched
  <1>2. SameClient(c, HandleMessage(c))
    <2>1. SameClient(c, e) /\ IsConnection(e)
      BY HttpRequestSame DEF SameClient, IsConnection
    <2>2. HandleMessage(c) = Drop(e, Size(c.script[n]))
      BY DEF HandleMessage
    <2> HIDE DEF e
    <2>3. SameClient(e, Drop(e, Size(c.script[n])))
      BY <2>1, Untouched DEF Drop
    <2>4. QED
      BY <2>1, <2>2, <2>3, SameAgain
  <1>3. SameClient(c, mg_http_multipart_continue(b))
    <2>1. SameClient(c, b) /\ IsConnection(b)
      BY BeginSame DEF SameClient, IsConnection
    <2> HIDE DEF b
    <2>2. SameClient(b, mg_http_multipart_continue(b))
      BY <2>1, ContinueSame
    <2>3. QED
      BY <2>1, <2>2, SameAgain
  <1>4. SameClient(c, mg_ws_handler(c)) /\ SameClient(c, Upgrade(c))
        /\ SameClient(c, mg_http_multipart_continue(c))
        /\ SameClient(c, Flag(c, "close_immediately"))
    BY WsHandlerSame, UpgradeSame, ContinueSame, FlagSame
  <1>5. OnRecv(c) \in { c, HandleMessage(c), mg_http_multipart_continue(b),
                        mg_ws_handler(c), Upgrade(c), mg_http_multipart_continue(c),
                        Flag(c, "close_immediately") }
    BY DEF OnRecv
  <1>6. QED
    BY <1>1, <1>2, <1>3, <1>4, <1>5

LEMMA CloseSame ==
  ASSUME NEW c, IsConnection(c)
  PROVE  SameClient(c, mg_close_conn(c))
  <1> DEFINE k == [c EXCEPT !.st = "closed"]
             how == IF k.script[First(k)] = "stream" \/ Buffered(k)
                    THEN "late" ELSE "cut"
             e == IF k.upload # 0 THEN onMultipartRequestEnd(k, k.upload, "late")
                  ELSE IF ParseHead(k) > 0 THEN onHttpRequest(k, First(k), how)
                  ELSE k
             f == IF k.ws THEN k ELSE mg_http_transfer_file_data(e)
  <1>1. SameClient(c, k) /\ IsConnection(k)
    BY Untouched DEF SameClient, IsConnection
  <1>2. mg_close_conn(c) = [f EXCEPT !.in = << >>, !.out = << >>, !.file = NoFile,
                                     !.upload = 0]
    BY DEF mg_close_conn, OnClose
  <1> HIDE DEF k, how
  <1>3. SameClient(k, e) /\ IsConnection(e)
    BY <1>1, Untouched, MultipartEndSame, HttpRequestSame DEF SameClient, IsConnection
  <1> HIDE DEF e
  <1>4. SameClient(k, f) /\ IsConnection(f)
    BY <1>1, <1>3, Untouched, TransferSame, SameAgain DEF SameClient, IsConnection
  <1> HIDE DEF f
  <1>5. SameClient(f, mg_close_conn(c))
    BY <1>2, <1>4, ZenonT(40) DEF SameClient, IsConnection
  <1>6. QED
    BY <1>1, <1>4, <1>5, SameAgain

-----------------------------------------------------------------------------
(* What a client is told *)

\* k units of answer a, after the first b.
Run(a, b, k) == [i \in 1..k |-> << a, b + i >>]

\* What is still in the file.
Remaining(c) ==
  IF c.file.open THEN Run(c.file.of, c.file.sent, FileLen - c.file.sent) ELSE << >>

Quiet(c) == c.out = << >> /\ ~c.file.open

\* The last request the client has begun to send.
Begun(c) == IF c.next[2] = 1 THEN c.next[1] - 1 ELSE c.next[1]

\* What has arrived, waits and is in the file is what was asked for.
Kept(c) ==
  /\ ~c.file.open => c.file.sent = 0
  /\ c.ws => ~c.file.open
  /\ c.got \o (c.out \o Remaining(c)) = Answers(c.script, Len(c.handled))

\* The client had the answers to all requests before it began another.
Waiting(c) ==
  /\ Len(c.handled) < Begun(c) => Quiet(c)
  /\ \A m \in Len(c.handled)..(Begun(c) - 1) : c.got = Answers(c.script, m)

Whole(c) == \A i \in DOMAIN c.handled : c.handled[i][2] = "whole"

Telling(c) == Kept(c) /\ Waiting(c) /\ Whole(c)

Attended(c) == c.polite /\ c.client # "gone"

\* Between the turns of the poll loop, nothing to send is nothing to do.
Rested(c) ==
  /\ c.out = << >> => ~c.file.open /\ c.flags = {}
  /\ "close_immediately" \notin c.flags

Told(c) ==
  Attended(c) \/ c.st = "none" =>
    IF c.st = "closed"
    THEN c.got = Answers(c.script, Cardinality({ i \in DOMAIN c.handled :
                                                   c.handled[i][2] = "whole" }))
    ELSE Telling(c) /\ Rested(c)

\* A run of units is a sequence of them.
LEMMA RunIs ==
  ASSUME NEW a \in Nat, NEW b \in Nat, NEW k \in Nat
  PROVE  /\ Run(a, b, k) \in Seq(Units) /\ Len(Run(a, b, k)) = k
         /\ \A i \in 1..k : Run(a, b, k)[i] = << a, b + i >>
  <1>1. \A i \in 1..k : << a, b + i >> \in Units
    BY DEF Units
  <1>2. QED
    BY <1>1 DEF Run

\* A run is cut in two anywhere: what goes to send_mbuf and what stays in the file.
LEMMA RunSplit ==
  ASSUME NEW a \in Nat, NEW b \in Nat, NEW m \in Nat, NEW k \in Nat, m - k \in Nat
  PROVE  /\ Run(a, b, m) = Run(a, b, k) \o Run(a, b + k, m - k)
         /\ Run(a, b + k, m - k) \in Seq(Units)
  <1> DEFINE e == b + k
             j == m - k
  <1>0. e \in Nat /\ j \in Nat /\ e = b + k /\ m = k + j
    OBVIOUS
  <1> HIDE DEF e, j
  <1> DEFINE s == Run(a, b, k)
             t == Run(a, e, j)
             r == Run(a, b, m)
  <1>1. /\ s \in Seq(Units) /\ Len(s) = k /\ \A i \in 1..k : s[i] = << a, b + i >>
        /\ t \in Seq(Units) /\ Len(t) = j /\ \A i \in 1..j : t[i] = << a, b + k + i >>
        /\ r \in Seq(Units) /\ Len(r) = k + j /\ \A i \in 1..(k + j) : r[i] = << a, b + i >>
    <2>2. s \in Seq(Units) /\ Len(s) = k /\ \A i \in 1..k : s[i] = << a, b + i >>
      BY RunIs DEF s
    <2>3. t \in Seq(Units) /\ Len(t) = j /\ \A i \in 1..j : t[i] = << a, e + i >>
      <3>1. e \in Nat /\ j \in Nat
        BY <1>0
      <3>2. QED
        BY <3>1, RunIs DEF t
    <2>4. r \in Seq(Units) /\ Len(r) = m /\ \A i \in 1..m : r[i] = << a, b + i >>
      BY RunIs DEF r
    <2>5. QED
      BY <1>0, <2>2, <2>3, <2>4
  <1> HIDE DEF s, t, r
  <1>2. /\ s \o t \in Seq(Units) /\ Len(s \o t) = Len(s) + Len(t)
        /\ \A i \in 1..Len(s) + Len(t) :
             (s \o t)[i] = IF i <= Len(s) THEN s[i] ELSE t[i - Len(s)]
    BY <1>1, Concatenated
  <1>3. ASSUME NEW i \in 1..(k + j)
        PROVE  r[i] = (s \o t)[i]
    <2>1. (s \o t)[i] = IF i <= k THEN s[i] ELSE t[i - k]
      BY <1>1, <1>2
    <2>2. CASE i <= k
      <3>1. i \in 1..k
        BY <2>2
      <3>2. QED
        BY <1>1, <2>1, <2>2, <3>1
    <2>3. CASE ~(i <= k)
      <3>1. i - k \in 1..j /\ b + k + (i - k) = b + i
        BY <1>0, <2>3
      <3>2. QED
        BY <1>1, <2>1, <2>3, <3>1
    <2>4. QED
      BY <2>2, <2>3
  <1>4. r = s \o t
    BY <1>1, <1>2, <1>3, SeqEqual
  <1>5. QED
    BY <1>1, <1>4 DEF r, s, t, e, j

\* What waits and what is in the file are units of answers.
LEMMA RemainingIs ==
  ASSUME NEW c \in Connection
  PROVE  /\ Remaining(c) \in Seq(Units) /\ c.out \in Seq(Units) /\ c.got \in Seq(Units)
         /\ c.out \o Remaining(c) \in Seq(Units)
         /\ c.file.sent \in 0..FileLen /\ c.file.of \in Nat
  <1>1. c.file \in Files /\ c.out \in Seq(Units) /\ c.got \in Seq(Units)
    BY DEF Connection, Units
  <1>2. c.file.sent \in 0..FileLen /\ c.file.of \in Nat
    BY <1>1 DEF Files
  <1>3. c.file.sent \in Nat /\ FileLen - c.file.sent \in Nat
    BY <1>2, SizesAssumption
  <1>4. Run(c.file.of, c.file.sent, FileLen - c.file.sent) \in Seq(Units)
    BY <1>2, <1>3, RunIs
  <1>5. << >> \in Seq(Units)
    OBVIOUS
  <1>6. Remaining(c) \in Seq(Units)
    BY <1>4, <1>5 DEF Remaining
  <1>7. c.out \o Remaining(c) \in Seq(Units)
    BY <1>1, <1>6, Concatenated
  <1>8. QED
    BY <1>1, <1>2, <1>6, <1>7

\* A part of a file that goes to send_mbuf is no longer in the file.
LEMMA TransferTells ==
  ASSUME NEW c \in Connection, NEW d, d = mg_http_transfer_file_data(c)
  PROVE  /\ d.out \o Remaining(d) = c.out \o Remaining(c)
         /\ ~c.file.open => d = c
         /\ (~c.file.open => c.file.sent = 0) => (~d.file.open => d.file.sent = 0)
         /\ d.out = << >> => ~d.file.open
         /\ "close_immediately" \in d.flags => "close_immediately" \in c.flags
  <1> DEFINE room == SendMax - Len(c.out)
             left == FileLen - c.file.sent
             k == AtMost(room, left)
             units == [i \in 1..k |-> << c.file.of, c.file.sent + i >>]
             sent == [Send(c, units) EXCEPT !.file.sent = @ + k]
             ended == [c EXCEPT !.file = NoFile,
                                !.flags = IF c.file.keepalive THEN @
                                          ELSE @ \cup {"send_and_close"}]
  <1>1. d = IF ~c.file.open \/ room <= 0 THEN c ELSE IF k > 0 THEN sent ELSE ended
    BY DEF mg_http_transfer_file_data
  <1>2. c.file \in Files /\ c.out \in Seq(Units) /\ IsConnection(c) /\ Len(c.out) \in Nat
    <2>1. c.out \in Seq(Units) /\ c.file \in Files
      BY DEF Connection, Units
    <2>2. Len(c.out) \in Nat
      BY <2>1
    <2>3. QED
      BY <2>1, <2>2, ConnectionIs
  <1>3. /\ c.file.sent \in 0..FileLen /\ c.file.of \in Nat /\ c.file.sent \in Nat
        /\ FileLen \in Nat /\ SendMax \in Nat \ {0}
        /\ room \in Int /\ left \in Nat
    BY <1>2, RemainingIs, SizesAssumption
  <1>4. /\ k \in Int /\ k <= left
        /\ room > 0 /\ ~(k > 0) => left = 0
    <2> HIDE DEF room, left
    <2>1. QED
      BY <1>3 DEF AtMost
  <1>5. CASE ~c.file.open \/ room <= 0
    <2>1. d = c
      BY <1>1, <1>5
    <2>2. c.file.open => c.out # << >>
      BY <1>2, <1>3, <1>5
    <2>3. QED
      BY <2>1, <2>2
  <1>6. CASE c.file.open /\ ~(room <= 0) /\ k > 0
    <2>1. k \in Nat
      BY <1>4, <1>6
    <2>2. d = sent
      BY <1>1, <1>6
    <2>3. left = k + (left - k) /\ left - k \in Nat
      <3> HIDE DEF k, left
      <3>1. QED
        BY <1>3, <1>4, <2>1
    <2>4. /\ units = Run(c.file.of, c.file.sent, k)
          /\ units \in Seq(Units) /\ Len(units) = k
      <3>1. units = Run(c.file.of, c.file.sent, k)
        BY DEF Run
      <3> HIDE DEF units, k
      <3>2. QED
        BY <1>3, <2>1, <3>1, RunIs
    <2> HIDE DEF k, room, units
    <2>5. /\ d.out = c.out \o units /\ d.file = [c.file EXCEPT !.sent = @ + k]
          /\ d.flags = c.flags
      BY <1>2, <2>2, ZenonT(40) DEF IsConnection, Send
    <2>6. d.file.open /\ d.file.sent = c.file.sent + k /\ d.file.of = c.file.of
      <3> DEFINE f == c.file
                 g == d.file
      <3>1. f \in Files /\ g = [f EXCEPT !.sent = @ + k] /\ f.open
        BY <1>2, <1>6, <2>5
      <3> HIDE DEF f, g
      <3>2. g.open /\ g.sent = f.sent + k /\ g.of = f.of
        BY <3>1 DEF Files
      <3>3. QED
        BY <3>2 DEF f, g
    <2>7. Remaining(d) = Run(c.file.of, c.file.sent + k, left - k)
      <3>1. FileLen - (c.file.sent + k) = left - k
        BY <1>3, <2>1
      <3>2. QED
        BY <2>6, <3>1 DEF Remaining
    <2>8. Remaining(c) = Run(c.file.of, c.file.sent, left)
      BY <1>6 DEF Remaining
    <2>9. /\ Remaining(c) = units \o Remaining(d) /\ Remaining(d) \in Seq(Units)
      <3>1. k \in Nat /\ left - k \in Nat /\ left \in Nat
        BY <1>3, <2>1, <2>3
      <3>2. c.file.of \in Nat /\ c.file.sent \in Nat
        BY <1>3
      <3> HIDE DEF left, sent, ended
      <3>3. /\ Run(c.file.of, c.file.sent, left) =
                 Run(c.file.of, c.file.sent, k) \o Run(c.file.of, c.file.sent + k, left - k)
            /\ Run(c.file.of, c.file.sent + k, left - k) \in Seq(Units)
        BY <3>1, <3>2, RunSplit, Zenon
      <3>4. QED
        BY <2>4, <2>7, <2>8, <3>3
    <2>10. d.out \o Remaining(d) = c.out \o Remaining(c)
      <3> DEFINE o == c.out
                 r == Remaining(d)
      <3>1. o \in Seq(Units) /\ units \in Seq(Units) /\ r \in Seq(Units)
        BY <1>2, <2>4, <2>9
      <3>2. d.out = o \o units /\ Remaining(c) = units \o r
        BY <2>5, <2>9
      <3> HIDE DEF o, r
      <3>3. (o \o units) \o r = o \o (units \o r)
        BY <3>1, ConcatAssociative
      <3>4. QED
        BY <3>2, <3>3 DEF o, r
    <2>11. d.out # << >>
      <3>1. Len(c.out \o units) = Len(c.out) + Len(units)
        BY <1>2, <2>4, Concatenated
      <3>2. Len(c.out \o units) # 0
        BY <1>2, <1>6, <2>1, <2>4, <3>1
      <3>3. QED
        BY <2>5, <3>2
    <2>12. QED
      BY <1>6, <2>5, <2>6, <2>10, <2>11
  <1>7. CASE c.file.open /\ ~(room <= 0) /\ ~(k > 0)
    <2>1. d = ended
      BY <1>1, <1>7
    <2>2. /\ d.out = c.out /\ d.file = NoFile
          /\ d.flags \subseteq c.flags \cup {"send_and_close"}
      BY <1>2, <2>1 DEF IsConnection
    <2>3. room > 0
      BY <1>3, <1>7
    <2>4. left = 0
      BY <1>4, <1>7, <2>3
    <2>5. Remaining(c) = << >>
      BY <1>7, <2>4 DEF Remaining, Run
    <2>6. ~d.file.open /\ d.file.sent = 0 /\ Remaining(d) = << >>
      BY <2>2 DEF NoFile, Remaining
    <2>7. QED
      BY <1>7, <2>2, <2>5, <2>6
  <1>8. QED
    BY <1>5, <1>6, <1>7

\* No request of a client that waits is lost.
LEMMA WholeIs ==
  ASSUME NEW c \in Connection, Whole(c)
  PROVE  ~LastLost(c)
  <1>1. c.handled \in Seq(Nat \X Hows)
    BY DEF Connection
  <1>2. c.handled # << >> => Len(c.handled) \in DOMAIN c.handled
    BY <1>1
  <1>3. QED
    BY <1>2 DEF Whole, LastLost

\* What the server has of the stream was begun, and is of no request handled.
LEMMA BegunIs ==
  ASSUME NEW c, Good(c), c.st # "closed", c.client # "gone", Whole(c)
  PROVE  /\ Begun(c) \in Nat /\ Len(c.handled) \in Nat /\ Len(c.handled) <= Begun(c)
         /\ Rest(c) # << >> \/ c.upload # 0 => Len(c.handled) < Begun(c)
         /\ Rest(c) \in Seq(Tokens)
         /\ \A i \in 1..Len(Rest(c)) : Rest(c)[i][1] <= Begun(c)
  <1> DEFINE s == Rest(c)
             n == Len(s)
             h == Len(c.handled)
             t == c.next
  <1>1. /\ InLine(c) /\ Uploading(c) /\ c \in Connection /\ c.script \in Seq(Kinds)
        /\ h \in Nat /\ t \in Tokens /\ c.upload \in Nat /\ Stretch(c.script, s)
        /\ s \in Seq(Tokens)
    <2>1. InLine(c) /\ Uploading(c) /\ c \in Connection
      BY DEF Good
    <2>2. Stretch(c.script, s) /\ s \in Seq(Tokens)
      BY <2>1 DEF InLine, Stretch
    <2>3. QED
      BY <2>1, <2>2 DEF Connection
  <1>2. /\ t[1] \in Nat \ {0} /\ t[2] \in Nat \ {0} /\ n \in Nat
    BY <1>1 DEF Tokens
  <1>3. Begun(c) = IF t[2] = 1 THEN t[1] - 1 ELSE t[1]
    BY DEF Begun
  <1>4. CASE s = << >>
    <2>1. Due(c, t)
      BY <1>1, <1>4 DEF InLine
    <2>2. CASE c.upload = 0
      <3>1. t = << h + 1, 1 >>
        BY <1>1, <2>1, <2>2, WholeIs DEF Due, Torn
      <3> HIDE DEF h
      <3>2. Begun(c) = h
        BY <1>1, <1>3, <3>1
      <3>3. QED
        BY <1>1, <1>4, <2>2, <3>2 DEF h
    <2>3. CASE c.upload # 0
      <3>1. t[1] = h + 1 /\ t[2] \in {2, 3}
        BY <1>1, <2>1, <2>3 DEF Due, Uploading
      <3> HIDE DEF h
      <3>2. Begun(c) = h + 1
        BY <1>3, <3>1
      <3>3. QED
        BY <1>1, <1>4, <3>2 DEF h
    <2>4. QED
      BY <2>2, <2>3
  <1>5. CASE s # << >>
    <2> DEFINE l == s[n]
    <2>1. n # 0 /\ n \in 1..n /\ 1 \in 1..n
      BY <1>1, <1>5
    <2>2. Due(c, s[1]) /\ t = After(c.script, l)
      BY <1>1, <1>5 DEF InLine
    <2>3. /\ IsToken(c.script, l) /\ s[1][1] <= l[1] /\ IsToken(c.script, s[1])
          /\ \A i \in 1..n : s[i][1] <= l[1]
      BY <1>1, <1>2, <2>1 DEF Stretch
    <2>4. /\ l[2] < Size(c.script[l[1]]) => t = << l[1], l[2] + 1 >>
          /\ l[2] = Size(c.script[l[1]]) => t = << l[1] + 1, 1 >>
      BY <1>1, <2>2, <2>3, AfterIs
    <2>5. /\ l[1] \in Nat /\ l[2] \in Nat \ {0}
          /\ l[2] < Size(c.script[l[1]]) \/ l[2] = Size(c.script[l[1]])
      <3>1. l \in Tokens /\ l[1] \in 1..Len(c.script) /\ l[2] \in 1..Size(c.script[l[1]])
        BY <2>3 DEF IsToken
      <3>2. c.script[l[1]] \in Kinds
        BY <1>1, <3>1
      <3>3. Size(c.script[l[1]]) \in 1..3
        BY <3>2, SizeIs
      <3>4. QED
        BY <3>1, <3>3 DEF Tokens
    <2> HIDE DEF l
    <2>6. Begun(c) = l[1]
      BY <1>3, <2>4, <2>5
    <2>7. s[1][1] = h + 1
      BY <1>1, <2>2, WholeIs DEF Due, Torn, Uploading
    <2> HIDE DEF h, s, n
    <2>8. h + 1 <= Begun(c)
      BY <2>3, <2>6, <2>7
    <2>9. QED
      BY <1>1, <2>3, <2>5, <2>6, <2>8 DEF h, s, n
  <1>6. QED
    BY <1>4, <1>5

\* What a request is answered with, as its handler leaves it to be sent.
ToSend(d, n) ==
  /\ d.out \o Remaining(d) = Answer(n, d.script[n])
  /\ ~d.file.open => d.file.sent = 0
  /\ Answer(n, d.script[n]) = << >> => Quiet(d)

\* An open connection in which a request was begun, and the client waits.
Ready(c) ==
  /\ Idle(c) /\ Attended(c) /\ Telling(c) /\ Quiet(c) /\ c.flags = {}
  /\ Len(c.handled) < Begun(c)

\* The next request is handled and answered.
LEMMA RequestTold ==
  ASSUME NEW c, Ready(c), NEW n, n = Len(c.handled) + 1, n \in 1..Len(c.script),
         NEW d \in Connection, SameClient(c, d), d.handled = Append(c.handled, << n, "whole" >>),
         ToSend(d, n), d.ws => ~d.file.open
  PROVE  Telling(d) /\ Attended(d)
  <1> DEFINE h == Len(c.handled)
             a == Answer(n, c.script[n])
  <1>1. /\ c \in Connection /\ c.script \in Seq(Kinds) /\ h \in Nat /\ Begun(c) \in Nat
        /\ n <= Begun(c) /\ n = h + 1 /\ n \in Nat
        /\ c.handled \in Seq(Nat \X Hows)
        /\ Kept(c) /\ Waiting(c) /\ Whole(c) /\ Quiet(c)
    <2>1. c \in Connection /\ c.script \in Seq(Kinds) /\ Good(c) /\ c.st = "open"
          /\ c.client # "gone" /\ c.handled \in Seq(Nat \X Hows)
      BY DEF Ready, Idle, Good, Connection, Attended
    <2>2. h \in Nat /\ Begun(c) \in Nat
      BY <2>1, BegunIs DEF Ready, Telling
    <2>3. QED
      BY <2>1, <2>2 DEF Ready, Telling
  <1>2. d.script = c.script /\ d.got = c.got /\ Begun(d) = Begun(c) /\ Attended(d)
    BY DEF SameClient, Begun, Attended, Ready
  <1>3. Len(d.handled) = n
    BY <1>1
  <1>4. c.got = Answers(c.script, h)
    <2>1. c.out \o Remaining(c) = << >>
      BY <1>1 DEF Quiet, Remaining
    <2>2. c.got \in Seq(Units)
      BY <1>1, RemainingIs
    <2>3. c.got \o << >> = c.got
      BY <2>2
    <2>4. QED
      BY <1>1, <2>1, <2>3 DEF Kept
  <1>5. a \in Seq(Units)
    <2>1. c.script[n] \in Kinds
      BY <1>1
    <2>2. QED
      BY <1>1, <2>1, AnswerIs
  <1>6. Answers(c.script, n) = Answers(c.script, h) \o a
    <2> HIDE DEF h
    <2>1. h + 1 \in 1..Len(c.script)
      BY <1>1
    <2>2. Answers(c.script, h + 1) = Answers(c.script, h) \o Answer(h + 1, c.script[h + 1])
      BY <1>1, <2>1, AnswersNext
    <2>3. QED
      BY <1>1, <2>2
  <1> HIDE DEF a, h
  <1>7. Kept(d)
    <2>1. d.got \o (d.out \o Remaining(d)) = Answers(d.script, n)
      BY <1>2, <1>4, <1>6 DEF ToSend, a
    <2>2. QED
      BY <1>3, <2>1 DEF Kept, ToSend
  <1>8. \A m \in n..(Begun(c) - 1) : d.got = Answers(d.script, m)
    <2>1. \A m \in n..(Begun(c) - 1) : m \in h..(Begun(c) - 1)
      BY <1>1
    <2>2. QED
      BY <1>1, <1>2, <2>1 DEF Waiting, h
  <1>9. ASSUME n < Begun(c)
        PROVE  Quiet(d)
    <2>1. n \in n..(Begun(c) - 1)
      BY <1>1, <1>9
    <2>2. c.got = Answers(c.script, n)
      BY <1>2, <1>8, <2>1
    <2>3. c.got = c.got \o a
      BY <1>4, <1>6, <2>2
    <2>4. c.got \in Seq(Units)
      BY <1>1, RemainingIs
    <2>5. a = << >>
      <3> DEFINE g == c.got
      <3>1. g \in Seq(Units) /\ g = g \o a
        BY <2>3, <2>4
      <3> HIDE DEF g
      <3>2. Len(g \o a) = Len(g) + Len(a)
        BY <1>5, <3>1, Concatenated
      <3>3. Len(g) \in Nat /\ Len(a) \in Nat
        BY <1>5, <3>1
      <3>4. Len(a) = 0
        BY <3>1, <3>2, <3>3
      <3>5. QED
        BY <1>5, <3>4
    <2>6. QED
      BY <1>2, <2>5 DEF ToSend, a
  <1>10. Waiting(d)
    BY <1>2, <1>3, <1>8, <1>9 DEF Waiting
  <1>11. Whole(d)
    <2>1. \A i \in DOMAIN d.handled : d.handled[i] = IF i = n THEN << n, "whole" >> ELSE c.handled[i]
      BY <1>1 DEF h
    <2>2. \A i \in DOMAIN d.handled : i # n => i \in DOMAIN c.handled
      BY <1>1 DEF h
    <2>3. QED
      BY <1>1, <2>1, <2>2 DEF Whole
  <1>12. QED
    BY <1>2, <1>7, <1>10, <1>11 DEF Telling

-----------------------------------------------------------------------------
(* The requests are answered whole *)

\* A connection with nothing to send.
Empty(c) == c \in Connection /\ Quiet(c) /\ c.file.sent = 0

\* A connection is given up at once only with nothing to send.
Spared(c) == "close_immediately" \in c.flags => Quiet(c)

\* sendData answers whole, with the flag that closes the connection after it.
LEMMA SendDataTold ==
  ASSUME NEW c, Empty(c), NEW n \in Nat,
         c.script[n] \in {"hello", "post", "stream", "upload", "missing"}
  PROVE  /\ ToSend(sendData(c, n), n) /\ ~sendData(c, n).file.open
         /\ sendData(c, n).flags = c.flags \cup {"send_and_close"}
  <1> DEFINE units == << << n, 0 >>, << n, 1 >> >>
             d == sendData(c, n)
  <1>1. Answer(n, c.script[n]) = units
    BY DEF Answer, Silent, IsFile
  <1>2. IsConnection(c) /\ c.out = << >> /\ ~c.file.open /\ c.file.sent = 0
    BY ConnectionIs DEF Empty, Quiet
  <1>3. << >> \o units = units
    <2>1. << n, 0 >> \in Units /\ << n, 1 >> \in Units
      BY DEF Units
    <2>2. units \in Seq(Units)
      BY <2>1
    <2> HIDE DEF units
    <2>3. QED
      BY <2>2
  <1>4. units # << >>
    OBVIOUS
  <1> HIDE DEF units
  <1>5. /\ d.out = << >> \o units /\ d.file = c.file /\ d.script = c.script
        /\ d.flags = c.flags \cup {"send_and_close"}
    BY <1>2, ZenonT(40) DEF sendData, Send, Flag, IsConnection, units
  <1> HIDE DEF d
  <1>6. Remaining(d) = << >>
    BY <1>2, <1>5 DEF Remaining
  <1>7. units \o << >> = units
    BY DEF units
  <1>8. QED
    BY <1>1, <1>2, <1>3, <1>4, <1>5, <1>6, <1>7 DEF ToSend, d

\* So does the file server: the header waits, the rest is in the file.
LEMMA ServeFileTold ==
  ASSUME NEW c, Empty(c), c.flags = {}, NEW n \in Nat,
         NEW kind \in {"file", "fileclose", "missing"},
         IF kind = "missing" THEN c.script[n] \in {"missing", "upload"}
         ELSE c.script[n] = kind,
         NEW d, d = mg_http_serve_file(c, n, kind)
  PROVE  ToSend(d, n) /\ "close_immediately" \notin d.flags
  <1>1. /\ IsConnection(c) /\ c \in Connection /\ c.out = << >> /\ ~c.file.open
        /\ c.file.sent = 0 /\ c.file \in Files
    BY ConnectionIs DEF Empty, Quiet, Connection
  <1>2. CASE kind = "missing"
    <2> DEFINE units == Answer(n, kind)
               closed == [c EXCEPT !.file.open = FALSE]
    <2>1. /\ units = << << n, 0 >>, << n, 1 >> >> /\ Answer(n, c.script[n]) = units
      BY <1>2 DEF Answer, Silent, IsFile
    <2>2. units \in Seq(Units) /\ units # << >>
      <3>1. << n, 0 >> \in Units /\ << n, 1 >> \in Units
        BY DEF Units
      <3>2. QED
        BY <2>1, <3>1
    <2>3. d = Flag(Send(closed, units), "send_and_close")
      BY <1>2 DEF mg_http_serve_file
    <2> HIDE DEF units
    <2>4. /\ d.out = c.out \o units /\ d.file = [c.file EXCEPT !.open = FALSE]
          /\ d.script = c.script /\ d.flags = c.flags \cup {"send_and_close"}
      BY <1>1, <2>3, ZenonT(40) DEF Send, Flag, IsConnection
    <2>5. d.file.open = FALSE /\ d.file.sent = 0
      BY <1>1, <2>4 DEF Files
    <2>6. d.out = units /\ Remaining(d) = << >>
      BY <1>1, <2>2, <2>4, <2>5 DEF Remaining
    <2>7. units \o << >> = units
      BY <2>2
    <2>8. QED
      BY <2>1, <2>2, <2>4, <2>5, <2>6, <2>7 DEF ToSend
  <1>3. CASE kind # "missing"
    <2> DEFINE s == Send(c, << << n, 0 >> >>)
               o == [s EXCEPT !.file.open = TRUE, !.file.of = n,
                              !.file.keepalive = (kind = "file")]
    <2>1. d = mg_http_transfer_file_data(o)
      BY <1>3 DEF mg_http_serve_file
    <2>2. << n, 0 >> \in Units
      BY DEF Units
    <2>3. << << n, 0 >> >> \in Seq(Units)
      BY <2>2
    <2>4. Answered(c, s) /\ s.file = c.file
      BY <1>1, <2>3, SendAnswers DEF Units
    <2>5. s.out = << << n, 0 >> >> /\ s.flags = {}
      <3>1. s.out = c.out \o << << n, 0 >> >> /\ s.flags = c.flags
        BY <1>1, ZenonT(40) DEF Send, IsConnection
      <3> HIDE DEF s
      <3>2. QED
        BY <1>1, <2>3, <3>1
    <2> HIDE DEF s
    <2>6. s \in Connection /\ s.script = c.script
      BY <2>4 DEF Answered
    <2>7. IsConnection(s)
      BY <2>6, ConnectionIs
    <2>8. [s.file EXCEPT !.open = TRUE, !.of = n, !.keepalive = (kind = "file")] \in Files
      BY <1>1, <2>4 DEF Files
    <2>9. o \in Connection
      BY <2>6, <2>8, ZenonT(40) DEF Connection
    <2>10. o.file = [s.file EXCEPT !.open = TRUE, !.of = n, !.keepalive = (kind = "file")]
           /\ o.out = s.out /\ o.flags = s.flags
      BY <2>7, ZenonT(40) DEF IsConnection
    <2> HIDE DEF o
    <2>11. o.file.open /\ o.file.of = n /\ o.file.sent = 0
      BY <1>1, <2>4, <2>10 DEF Files
    <2>12. Remaining(o) = Run(n, 0, FileLen)
      BY <2>11, SizesAssumption DEF Remaining
    <2>13. /\ d.out \o Remaining(d) = o.out \o Remaining(o)
           /\ ~d.file.open => d.file.sent = 0
           /\ "close_immediately" \notin d.flags
      <3>1. o.flags = {}
        BY <2>5, <2>10
      <3>2. /\ d.out \o Remaining(d) = o.out \o Remaining(o)
            /\ (~o.file.open => o.file.sent = 0) => (~d.file.open => d.file.sent = 0)
            /\ "close_immediately" \in d.flags => "close_immediately" \in o.flags
        BY <2>1, <2>9, TransferTells, Zenon
      <3>3. QED
        BY <2>11, <3>1, <3>2
    <2>14. d.script = c.script
      BY <1>1, ServeFileSame DEF SameClient
    <2>15. Answer(n, c.script[n]) = [i \in 1..(FileLen + 1) |-> << n, i - 1 >>]
      BY <1>3 DEF Answer, Silent, IsFile
    <2>16. << << n, 0 >> >> \o Run(n, 0, FileLen) = [i \in 1..(FileLen + 1) |-> << n, i - 1 >>]
      <3> DEFINE a == << << n, 0 >> >>
                 r == Run(n, 0, FileLen)
                 w == [i \in 1..(FileLen + 1) |-> << n, i - 1 >>]
      <3>1. FileLen \in Nat
        BY SizesAssumption
      <3>2. r \in Seq(Units) /\ Len(r) = FileLen /\ \A i \in 1..FileLen : r[i] = << n, 0 + i >>
        BY <3>1, RunIs
      <3>3. a \in Seq(Units) /\ Len(a) = 1 /\ a[1] = << n, 0 >>
        BY <2>3
      <3>4. \A i \in 1..(FileLen + 1) : << n, i - 1 >> \in Units
        BY <3>1 DEF Units
      <3>5. w \in Seq(Units) /\ Len(w) = FileLen + 1
            /\ \A i \in 1..(FileLen + 1) : w[i] = << n, i - 1 >>
        BY <3>1, <3>4
      <3> HIDE DEF a, r, w
      <3>6. /\ a \o r \in Seq(Units) /\ Len(a \o r) = Len(a) + Len(r)
            /\ \A i \in 1..Len(a) + Len(r) :
                 (a \o r)[i] = IF i <= Len(a) THEN a[i] ELSE r[i - Len(a)]
        BY <3>2, <3>3, Concatenated
      <3>7. Len(a \o r) = FileLen + 1
        BY <3>1, <3>2, <3>3, <3>6
      <3>8. ASSUME NEW i \in 1..(FileLen + 1)
            PROVE  w[i] = (a \o r)[i]
        <4>1. w[i] = << n, i - 1 >>
          BY <3>5
        <4>2. (a \o r)[i] = IF i <= 1 THEN a[i] ELSE r[i - 1]
          <5>1. i \in 1..Len(a) + Len(r)
            BY <3>1, <3>2, <3>3
          <5>2. (a \o r)[i] = IF i <= Len(a) THEN a[i] ELSE r[i - Len(a)]
            BY <3>6, <5>1
          <5>3. QED
            BY <3>3, <5>2
        <4>3. CASE i = 1
          BY <3>3, <4>1, <4>2, <4>3
        <4>4. CASE i # 1
          <5>1. i - 1 \in 1..FileLen /\ 0 + (i - 1) = i - 1 /\ ~(i <= 1)
            BY <3>1, <4>4
          <5>2. r[i - 1] = << n, 0 + (i - 1) >>
            BY <3>2, <5>1
          <5>3. QED
            BY <4>1, <4>2, <5>1, <5>2
        <4>5. QED
          BY <4>3, <4>4
      <3>81. a \o r = w
        <4>1. w \in Seq(Units) /\ Len(w) = FileLen + 1
          BY <3>5
        <4>2. a \o r \in Seq(Units)
          BY <3>6
        <4>3. \A i \in 1..Len(w) : w[i] = (a \o r)[i]
          BY <3>8, <4>1
        <4>4. QED
          BY <3>7, <4>1, <4>2, <4>3, SeqEqual
      <3>9. QED
        BY <3>81 DEF a, r, w
    <2>17. Answer(n, c.script[n]) # << >>
      <3>1. 1 \in 1..(FileLen + 1)
        BY SizesAssumption
      <3>2. QED
        BY <2>15, <3>1
    <2>18. QED
      <3>1. d.out \o Remaining(d) = << << n, 0 >> >> \o Run(n, 0, FileLen)
        BY <2>5, <2>10, <2>12, <2>13, Zenon
      <3>2. d.out \o Remaining(d) = Answer(n, d.script[n])
        BY <2>14, <2>15, <2>16, <3>1, Zenon
      <3>3. QED
        BY <2>13, <2>14, <2>17, <3>2, Zenon DEF ToSend
  <1>4. QED
    BY <1>2, <1>3

\* onHttpRequest, for any request it is given.
LEMMA HttpRequestTold ==
  ASSUME NEW c, Empty(c), c.flags = {}, NEW n \in Nat,
         c.script[n] \in Kinds \ {"upgrade", "frame", "bad"},
         NEW d, d = onHttpRequest(c, n, "whole")
  PROVE  ToSend(d, n) /\ "close_immediately" \notin d.flags
  <1> DEFINE kind == c.script[n]
             b == Heard(c, n, "whole")
             e == mg_http_serve_file(b, n, IF IsFile(kind) THEN kind ELSE "missing")
  <1>1. c \in Connection /\ IsConnection(c)
    BY ConnectionIs DEF Empty
  <1>2. /\ b.out = c.out /\ b.file = c.file /\ b.flags = c.flags /\ b.script = c.script
    BY <1>1, ZenonT(40) DEF IsConnection, Heard
  <1>3. b \in Connection
    BY <1>1, HeardConnection
  <1>4. d = IF kind \in {"hello", "post", "stream"} THEN sendData(b, n)
            ELSE IF kind = "system" THEN b ELSE e
    BY DEF onHttpRequest, Heard
  <1> HIDE DEF b
  <1>5. Empty(b)
    BY <1>2, <1>3 DEF Empty, Quiet
  <1>6. CASE kind \in {"hello", "post", "stream"}
    BY <1>2, <1>4, <1>5, <1>6, SendDataTold
  <1>7. CASE kind = "system"
    <2>1. Answer(n, b.script[n]) = << >>
      BY <1>2, <1>7 DEF Answer, Silent
    <2>2. b.out = << >> /\ Remaining(b) = << >> /\ Quiet(b) /\ b.file.sent = 0
      BY <1>5 DEF Empty, Quiet, Remaining
    <2>3. << >> \o << >> = << >>
      OBVIOUS
    <2>4. ToSend(b, n)
      BY <2>1, <2>2, <2>3, Zenon DEF ToSend
    <2>5. d = b /\ b.flags = {}
      BY <1>2, <1>4, <1>7
    <2>6. QED
      BY <2>4, <2>5
  <1>8. CASE kind \in {"file", "fileclose", "missing", "upload"}
    <2> DEFINE as == IF IsFile(kind) THEN kind ELSE "missing"
    <2>1. /\ as \in {"file", "fileclose", "missing"}
          /\ IF as = "missing" THEN b.script[n] \in {"missing", "upload"}
             ELSE b.script[n] = as
      BY <1>2, <1>8 DEF IsFile
    <2>2. d = mg_http_serve_file(b, n, as)
      BY <1>4, <1>8
    <2> HIDE DEF as
    <2>3. QED
      BY <1>2, <1>5, <2>1, <2>2, ServeFileTold
  <1>9. QED
    BY <1>6, <1>7, <1>8 DEF Kinds

\* What is told of c is told of d.
SameTold(c, d) ==
  /\ SameClient(c, d) /\ d.handled = c.handled /\ d.out = c.out
  /\ d.file = c.file /\ d.ws = c.ws

\* A step that changes nothing of this keeps what the client is told.
LEMMA ToldSame ==
  ASSUME NEW c, NEW d, SameTold(c, d)
  PROVE  /\ Begun(d) = Begun(c)
         /\ Attended(c) => Attended(d)
         /\ Telling(c) => Telling(d)
         /\ Quiet(c) => Quiet(d)
  <1>1. /\ d.polite = c.polite /\ d.client = c.client /\ d.script = c.script
        /\ d.next = c.next /\ d.got = c.got /\ d.handled = c.handled
        /\ d.out = c.out /\ d.file = c.file /\ d.ws = c.ws
    BY DEF SameTold, SameClient
  <1>2. Begun(d) = Begun(c) /\ (Attended(c) => Attended(d)) /\ (Quiet(c) => Quiet(d))
    BY <1>1 DEF Begun, Attended, Quiet
  <1>3. Kept(c) => Kept(d)
    BY <1>1 DEF Kept, Remaining
  <1>4. Waiting(c) => Waiting(d)
    BY <1>1, <1>2 DEF Waiting
  <1>5. Whole(c) => Whole(d)
    BY <1>1 DEF Whole
  <1>6. QED
    BY <1>2, <1>3, <1>4, <1>5 DEF Telling

\* What is known of a connection that may handle its next request.
LEMMA ReadyIs ==
  ASSUME NEW c, Ready(c)
  PROVE  /\ Good(c) /\ c.st = "open" /\ c.net = << >> /\ c \in Connection /\ IsConnection(c)
         /\ Empty(c) /\ Telling(c) /\ Attended(c) /\ c.flags = {} /\ Quiet(c)
         /\ c.client # "gone" /\ Len(c.handled) \in Nat /\ Begun(c) \in Nat
         /\ c.handled \in Seq(Nat \X Hows)
  <1>1. /\ Good(c) /\ c.st = "open" /\ c.net = << >> /\ c \in Connection
        /\ Telling(c) /\ Attended(c) /\ c.flags = {} /\ Quiet(c)
    BY DEF Ready, Idle, Good
  <1>2. Empty(c) /\ c.client # "gone"
    BY <1>1 DEF Empty, Telling, Kept, Quiet, Attended
  <1>3. Len(c.handled) \in Nat /\ Begun(c) \in Nat
    BY <1>1, <1>2, BegunIs DEF Telling
  <1>4. c.handled \in Seq(Nat \X Hows)
    BY <1>1 DEF Connection
  <1>5. QED
    BY <1>1, <1>2, <1>3, <1>4, ConnectionIs

\* What has a handler left.
HandledWell(d) == Telling(d) /\ Attended(d) /\ Spared(d)

\* A request found whole in recv_mbuf is answered whole.
LEMMA HandleMessageTold ==
  ASSUME NEW c, Ready(c), c.upload = 0, ~c.ws, c.in # << >>, c.in[1][2] = 1, Buffered(c),
         c.script[First(c)] \notin {"bad", "frame", "upgrade"}
  PROVE  HandledWell(HandleMessage(c))
  <1> DEFINE n == First(c)
             b == Heard(c, n, "whole")
             e == onHttpRequest(c, n, "whole")
             d == HandleMessage(c)
  <1>1. /\ Good(c) /\ c.st = "open" /\ c.net = << >> /\ c \in Connection /\ IsConnection(c)
        /\ Empty(c) /\ c.flags = {}
    BY ReadyIs
  <1>2. /\ n = Len(c.handled) + 1 /\ n \in Nat /\ n \in 1..Len(c.script)
        /\ c.script[n] \in Kinds
    BY <1>1, FirstIs
  <1>3. c.script[n] \in Kinds \ {"upgrade", "frame", "bad"}
    BY <1>2
  <1>4. d = Drop(e, Size(c.script[n])) /\ d \in Connection
    BY <1>1, HandleMessageGood DEF HandleMessage, Idle, Good
  <1>5. Answered(b, e) /\ SameClient(c, e)
    BY <1>1, <1>2, HttpRequestAnswers, HttpRequestSame
  <1>6. b.handled = Append(c.handled, << n, "whole" >>) /\ b.ws = c.ws
    BY <1>1 DEF IsConnection, Heard
  <1> HIDE DEF n
  <1>7. ToSend(e, n) /\ "close_immediately" \notin e.flags
    BY <1>1, <1>2, <1>3, HttpRequestTold
  <1> HIDE DEF b, e, d
  <1>8. e \in Connection /\ IsConnection(e) /\ e.handled = b.handled /\ e.ws = b.ws
    BY <1>5, ConnectionIs DEF Answered
  <1>9. SameTold(e, d) /\ d.flags = e.flags
    BY <1>4, <1>8, ZenonT(40) DEF SameTold, SameClient, IsConnection, Drop
  <1>10. ToSend(d, n)
    BY <1>7, <1>9 DEF ToSend, Remaining, Quiet, SameTold, SameClient
  <1>11. SameClient(c, d) /\ d.handled = Append(c.handled, << n, "whole" >>) /\ ~d.ws
         /\ "close_immediately" \notin d.flags
    BY <1>5, <1>6, <1>7, <1>8, <1>9, SameAgain DEF SameTold
  <1>12. Telling(d) /\ Attended(d)
    BY <1>2, <1>4, <1>10, <1>11, RequestTold
  <1>13. QED
    BY <1>11, <1>12 DEF HandledWell, Spared, d

\* A client that waits has begun no request behind one that is answered.
LEMMA NoneBegunBehind ==
  ASSUME NEW c, Ready(c), NEW n, n = Len(c.handled) + 1, n \in 1..Len(c.script),
         Answer(n, c.script[n]) # << >>
  PROVE  Begun(c) = n
  <1> DEFINE h == Len(c.handled)
             g == c.got
             units == Answer(n, c.script[n])
  <1>1. /\ Telling(c) /\ Begun(c) \in Nat /\ h \in Nat /\ c.script \in Seq(Kinds)
        /\ g \in Seq(Units) /\ n \in Nat /\ n = h + 1 /\ h < Begun(c)
    <2>1. c \in Connection /\ Telling(c) /\ Begun(c) \in Nat /\ h \in Nat
      BY ReadyIs
    <2>2. g \in Seq(Units) /\ c.script \in Seq(Kinds)
      BY <2>1 DEF Connection, Units
    <2>3. QED
      BY <2>1, <2>2 DEF Ready
  <1>2. units \in Seq(Units)
    <2>1. c.script[n] \in Kinds
      BY <1>1
    <2>2. QED
      BY <1>1, <2>1, AnswerIs
  <1>3. units # << >>
    OBVIOUS
  <1>4. Answers(c.script, n) = Answers(c.script, h) \o units
    BY <1>1, AnswersNext
  <1>5. \A m \in h..(Begun(c) - 1) : g = Answers(c.script, m)
    BY <1>1 DEF Telling, Waiting
  <1> HIDE DEF h, g, units
  <1>6. ASSUME n < Begun(c) PROVE FALSE
    <2>1. h \in h..(Begun(c) - 1) /\ n \in h..(Begun(c) - 1)
      BY <1>1, <1>6
    <2>2. g = g \o units
      BY <1>4, <1>5, <2>1
    <2>3. Len(g \o units) = Len(g) + Len(units) /\ Len(g) \in Nat
      BY <1>1, <1>2, Concatenated
    <2>4. Len(g) = Len(g) + Len(units)
      BY <2>2, <2>3
    <2>5. Len(units) \in Nat /\ Len(units) # 0
      BY <1>2, <1>3
    <2>6. QED
      BY <2>3, <2>4, <2>5
  <1>7. QED
    BY <1>1, <1>6

\* So nothing is behind the end of its upload.
LEMMA NoneBehindUpload ==
  ASSUME NEW c, Ready(c), c.upload # 0, NEW k, k = Received(c, c.upload),
         k > 0, c.in[k] = << c.upload, Size("upload") >>
  PROVE  SubSeq(c.in, k + 1, Len(c.in)) = << >>
  <1> DEFINE n == c.upload
             len == Len(c.in)
  <1>1. Good(c) /\ c.st = "open" /\ c.net = << >> /\ c.client # "gone" /\ c \in Connection
        /\ Telling(c)
    BY ReadyIs
  <1>2. /\ n = Len(c.handled) + 1 /\ n \in 1..Len(c.script) /\ n \in Nat
        /\ c.script[n] = "upload"
    BY <1>1 DEF Good, Uploading, Connection
  <1>3. /\ c.in \in Seq(Tokens) /\ len \in Nat /\ Stretch(c.script, c.in) /\ Rest(c) = c.in
    BY <1>1, Buffer DEF Rest
  <1>4. Answer(n, c.script[n]) # << >>
    BY <1>2 DEF Answer, Silent, IsFile
  <1>5. \A i \in 1..len : c.in[i][1] <= n
    <2>1. Begun(c) = n
      BY <1>2, <1>4, NoneBegunBehind
    <2>2. QED
      BY <1>1, <1>3, <2>1, BegunIs DEF Telling
  <1>6. k \in 1..len
    BY <1>1, <1>3, ReceivedAtMost
  <1>7. After(c.script, << n, Size("upload") >>) = << n + 1, 1 >>
    BY <1>2, SizeIs DEF After, Kinds
  <1> HIDE DEF n, len
  <1>8. ASSUME k < len PROVE FALSE
    <2>1. k + 1 \in 1..len
      BY <1>3, <1>6, <1>8
    <2>2. c.in[k + 1] = << n + 1, 1 >>
      BY <1>3, <1>6, <1>7, <1>8 DEF Stretch, n, len
    <2>3. QED
      BY <1>2, <1>5, <2>1, <2>2
  <1>9. k = len
    BY <1>3, <1>6, <1>8
  <1>10. QED
    BY <1>3, <1>9, SubSeqEmpty DEF len

\* An upload is answered when its last part has come.
LEMMA ContinueTold ==
  ASSUME NEW c, Ready(c), c.upload # 0
  PROVE  HandledWell(mg_http_multipart_continue(c))
  <1> DEFINE n == c.upload
             k == Received(c, n)
             b == Drop(c, k)
             u == [b EXCEPT !.upload = 0]
             e == onMultipartRequestEnd(u, n, "whole")
             v == [u EXCEPT !.dead = @ \cup {u.ud}, !.ud = Original(@),
                            !.handled = Append(@, << n, "whole" >>)]
             d == mg_http_multipart_continue(c)
  <1>1. /\ Good(c) /\ c.st = "open" /\ c.net = << >> /\ c \in Connection /\ IsConnection(c)
        /\ Empty(c) /\ c.flags = {} /\ Telling(c) /\ Attended(c)
    BY ReadyIs
  <1>2. d \in Connection
    BY <1>1, ContinueGood DEF Idle, Good
  <1>3. \/ d = b
        \/ d = RemoveAll(e) /\ k > 0 /\ c.in[k] = << n, Size("upload") >>
    BY DEF mg_http_multipart_continue
  <1>4. SameTold(c, b) /\ IsConnection(b) /\ b.flags = c.flags
    BY <1>1, ZenonT(40) DEF SameTold, SameClient, IsConnection, Drop
  <1>5. CASE d = b
    <2>1. SameTold(c, d) /\ d.flags = {}
      BY <1>1, <1>4, <1>5
    <2> HIDE DEF d, b
    <2>2. Telling(d) /\ Attended(d)
      BY <1>1, <2>1, ToldSame
    <2>3. QED
      BY <2>1, <2>2 DEF HandledWell, Spared, d
  <1>6. CASE d = RemoveAll(e) /\ k > 0 /\ c.in[k] = << n, Size("upload") >>
    <2>1. n = Len(c.handled) + 1 /\ n \in DOMAIN c.script /\ c.script[n] = "upload" /\ ~c.ws
          /\ c.script \in Seq(Kinds) /\ n \in Nat
      BY <1>1 DEF Good, Uploading, Connection
    <2>2. n \in 1..Len(c.script)
      BY <2>1
    <2>3. b.in = << >>
      <3>1. b.in = SubSeq(c.in, k + 1, Len(c.in))
        BY <1>1, ZenonT(40) DEF IsConnection, Drop
      <3> HIDE DEF b
      <3>2. SubSeq(c.in, k + 1, Len(c.in)) = << >>
        BY <1>6, NoneBehindUpload
      <3>3. QED
        BY <3>1, <3>2
    <2> HIDE DEF b, n
    <2>4. SameTold(b, u) /\ IsConnection(u) /\ u.flags = b.flags /\ u.in = << >>
      BY <1>4, <2>3, ZenonT(40) DEF SameTold, SameClient, IsConnection
    <2>5. e = sendData(v, n)
      BY DEF onMultipartRequestEnd
    <2> HIDE DEF u
    <2>6. /\ v.handled = Append(c.handled, << n, "whole" >>) /\ v.out = c.out /\ v.file = c.file
          /\ v.ws = c.ws /\ v.flags = c.flags /\ IsConnection(v) /\ v.script = c.script
          /\ SameClient(c, u) /\ SameClient(u, v) /\ v.in = << >>
      <3>1. /\ v.handled = Append(u.handled, << n, "whole" >>) /\ v.out = u.out
            /\ v.file = u.file /\ v.ws = u.ws /\ v.flags = u.flags /\ v.script = u.script
            /\ v.in = u.in /\ IsConnection(v)
        BY <2>4, ZenonT(40) DEF IsConnection
      <3>2. SameClient(u, v)
        BY <2>4, ZenonT(40) DEF IsConnection, SameClient
      <3>3. QED
        BY <1>4, <2>4, <3>1, <3>2, SameAgain DEF SameTold, SameClient
    <2> HIDE DEF v, d
    <2>7. /\ e.handled = v.handled /\ e.ws = v.ws /\ e.file = v.file /\ SameClient(v, e)
          /\ e.out = v.out \o << << n, 0 >>, << n, 1 >> >> /\ e.in = << >>
          /\ e.flags = v.flags \cup {"send_and_close"} /\ IsConnection(e)
      <3> HIDE DEF e
      <3>1. /\ e.handled = v.handled /\ e.ws = v.ws /\ e.file = v.file
            /\ e.out = v.out \o << << n, 0 >>, << n, 1 >> >> /\ e.in = v.in
            /\ e.flags = v.flags \cup {"send_and_close"} /\ IsConnection(e)
        BY <2>5, <2>6, ZenonT(40) DEF IsConnection, sendData, Send, Flag
      <3>2. SameClient(v, e)
        BY <2>5, <2>6, SendDataSame
      <3>3. QED
        BY <2>6, <3>1, <3>2
    <2> HIDE DEF e
    <2>8. SameTold(e, d) /\ d.flags = e.flags
      <3>1. e.handled \o << >> = e.handled
        <4>1. Append(c.handled, << n, "whole" >>) \in Seq(Nat \X Hows)
          BY <2>1, ReadyIs
        <4>2. QED
          BY <2>6, <2>7, <4>1
      <3>2. [i \in 1..(Len(e.handled) - Len(e.handled)) |-> << Len(e.handled) + i, "lost" >>]
              = << >>
        BY <2>1, <2>6, <2>7, ReadyIs
      <3>3. d = [e EXCEPT !.in = << >>, !.handled = @ \o << >>]
        BY <1>6, <2>7, <3>2 DEF RemoveAll
      <3>4. QED
        BY <2>7, <3>1, <3>3, ZenonT(40) DEF SameTold, SameClient, IsConnection
    <2>9. SameClient(c, d) /\ d.script = c.script
      <3>1. SameClient(c, e)
        BY <2>6, <2>7, SameAgain
      <3>2. SameClient(c, d)
        BY <2>8, <3>1, SameAgain DEF SameTold
      <3>3. QED
        BY <3>2 DEF SameClient
    <2>10. ToSend(d, n)
      <3> DEFINE a == << << n, 0 >>, << n, 1 >> >>
      <3>1. Answer(n, d.script[n]) = a
        BY <2>1, <2>9 DEF Answer, Silent, IsFile
      <3>2. ~d.file.open /\ d.file.sent = 0 /\ v.out = << >>
        BY <1>1, <2>6, <2>7, <2>8 DEF Empty, Quiet, SameTold
      <3>3. << >> \o a = a /\ a \o << >> = a /\ a # << >>
        OBVIOUS
      <3> HIDE DEF a
      <3>4. d.out = << >> \o a /\ Remaining(d) = << >>
        BY <2>7, <2>8, <3>2 DEF a, Remaining, SameTold
      <3>5. QED
        BY <3>1, <3>2, <3>3, <3>4, Zenon DEF ToSend
    <2>11. Telling(d) /\ Attended(d)
      <3>1. d.handled = Append(c.handled, << n, "whole" >>) /\ d.ws = c.ws
        BY <2>6, <2>7, <2>8 DEF SameTold
      <3>2. QED
        BY <1>2, <2>1, <2>2, <2>9, <2>10, <3>1, RequestTold
    <2>12. "close_immediately" \notin d.flags
      BY <1>1, <2>6, <2>7, <2>8
    <2>13. QED
      BY <2>11, <2>12 DEF HandledWell, Spared, d
  <1>7. QED
    BY <1>3, <1>5, <1>6

\* An upload that begins is answered with nothing yet.
LEMMA BeginReady ==
  ASSUME NEW c, Ready(c), c.upload = 0, ~c.ws, c.in # << >>, c.in[1][2] = 1,
         c.build.streaming, c.script[First(c)] = "upload", NEW d, d = mg_http_multipart_begin(c)
  PROVE  Ready(d) /\ d.upload # 0
  <1>1. /\ Good(c) /\ c.st = "open" /\ c.net = << >> /\ IsConnection(c)
    BY ReadyIs
  <1>2. Idle(d) /\ d.upload # 0
    BY <1>1, BeginGood
  <1>3. SameTold(c, d) /\ d.flags = c.flags
    BY <1>1, ZenonT(40) DEF SameTold, SameClient, IsConnection, mg_http_multipart_begin,
       onMultipartRequest, Drop
  <1>4. Begun(d) = Begun(c) /\ Attended(d) /\ Telling(d) /\ Quiet(d)
    BY <1>3, ToldSame DEF Ready
  <1>5. Len(d.handled) < Begun(d)
    BY <1>3, <1>4 DEF Ready, SameTold
  <1>6. QED
    BY <1>2, <1>3, <1>4, <1>5 DEF Ready

\* The answers to n frames are a sequence of n answers.
LEMMA AnswersToFrames ==
  ASSUME NEW S, NEW n \in Nat, NEW s, \A i \in 1..n : << s[i][1], "whole" >> \in S
  PROVE  /\ [i \in 1..n |-> << s[i][1], "whole" >>] \in Seq(S)
         /\ Len([i \in 1..n |-> << s[i][1], "whole" >>]) = n
  <1> DEFINE new == [i \in 1..n |-> << s[i][1], "whole" >>]
  <1>1. new \in [1..n -> S] /\ DOMAIN new = 1..n
    BY Zenon
  <1> HIDE DEF new
  <1>2. new \in Seq(S)
    BY <1>1
  <1>3. Len(new) = n
    BY <1>1, <1>2, LenProperties
  <1>4. QED
    BY <1>2, <1>3 DEF new

\* Frames are answered with nothing.
LEMMA WsHandlerTold ==
  ASSUME NEW c, Ready(c), c.ws
  PROVE  HandledWell(mg_ws_handler(c))
  <1> DEFINE n == Len(c.in)
             h == Len(c.handled)
             d == mg_ws_handler(c)
             new == [i \in 1..n |-> << c.in[i][1], "whole" >>]
  <1>1. /\ Good(c) /\ c.st = "open" /\ c.net = << >> /\ c \in Connection /\ IsConnection(c)
        /\ c.flags = {} /\ Telling(c) /\ Attended(c) /\ Quiet(c) /\ h \in Nat
        /\ Begun(c) \in Nat /\ c.client # "gone"
        /\ c.handled \in Seq(Nat \X Hows)
    BY ReadyIs
  <1>2. c.in \in Seq(Tokens) /\ n \in Nat /\ c.script \in Seq(Kinds)
    BY <1>1 DEF Connection
  <1>3. ASSUME NEW i \in 1..n
        PROVE  c.in[i] = << h + i, 1 >> /\ c.script[h + i] = "frame" /\ h + i \in 1..Len(c.script)
               /\ h + i <= Begun(c)
    <2>1. c.in[i] = << h + i, 1 >> /\ c.script[h + i] = "frame" /\ h + i \in DOMAIN c.script
      BY <1>1, FramesAre
    <2>2. Rest(c) = c.in
      BY <1>1, <1>2 DEF Rest
    <2>3. c.in[i][1] <= Begun(c)
      BY <1>1, <2>2, BegunIs DEF Telling
    <2>4. QED
      BY <1>2, <2>1, <2>3
  <1>4. /\ d.handled = c.handled \o new /\ SameClient(c, d) /\ d.out = c.out
        /\ d.file = c.file /\ d.flags = c.flags
    BY <1>1, WsHandlerSame, ZenonT(40) DEF mg_ws_handler, IsConnection
  <1>5. /\ Len(d.handled) = h + n
        /\ \A i \in 1..h + n : d.handled[i][2] = "whole"
        /\ DOMAIN d.handled = 1..h + n
    <2> DEFINE S == Nat \X Hows
               old == c.handled
    <2>1. \A i \in 1..n : new[i] \in S
      <3>1. SUFFICES ASSUME NEW i \in 1..n PROVE new[i] \in S
        OBVIOUS
      <3>2. c.in[i][1] = h + i
        BY <1>3
      <3>3. new[i] = << c.in[i][1], "whole" >>
        OBVIOUS
      <3>4. h + i \in Nat
        BY <1>1, <1>2
      <3> HIDE DEF new, h
      <3>5. QED
        BY <3>2, <3>3, <3>4
    <2>2. new \in Seq(S) /\ Len(new) = n /\ \A i \in 1..n : new[i][2] = "whole"
      <3>1. \A i \in 1..n : << c.in[i][1], "whole" >> \in S
        BY <2>1
      <3>2. n \in Nat
        BY <1>2
      <3>3. \A i \in 1..n : new[i][2] = "whole"
        OBVIOUS
      <3> HIDE DEF S, n
      <3>4. new \in Seq(S) /\ Len(new) = n
        BY <3>1, <3>2, AnswersToFrames
      <3>5. QED
        BY <3>3, <3>4
    <2>3. \A i \in 1..h : old[i][2] = "whole"
      BY <1>1 DEF Telling, Whole
    <2>4. old \in Seq(S) /\ Len(old) = h
      BY <1>1
    <2> HIDE DEF S, old, new, h, n
    <2>5. /\ old \o new \in Seq(S) /\ Len(old \o new) = Len(old) + Len(new)
          /\ \A i \in 1..Len(old) + Len(new) :
               (old \o new)[i] = IF i <= Len(old) THEN old[i] ELSE new[i - Len(old)]
      BY <2>2, <2>4, Concatenated
    <2>6. ASSUME NEW i \in 1..h + n PROVE (old \o new)[i][2] = "whole"
      <3>1. CASE i <= h
        <4>1. i \in 1..h
          BY <1>1, <3>1
        <4>2. QED
          BY <2>2, <2>3, <2>4, <2>5, <3>1, <4>1
      <3>2. CASE ~(i <= h)
        <4>1. i - h \in 1..n
          BY <1>1, <1>2, <3>2
        <4>2. QED
          BY <2>2, <2>4, <2>5, <3>2, <4>1
      <3>3. QED
        BY <3>1, <3>2
    <2>7. d.handled = old \o new
      BY <1>4 DEF old
    <2>8. QED
      BY <2>2, <2>4, <2>5, <2>6, <2>7
  <1>6. CASE n = 0
    <2>1. d.handled = c.handled
      <3>1. new = << >>
        BY <1>6
      <3>2. c.handled \o << >> = c.handled
        BY <1>1
      <3>3. QED
        BY <1>4, <3>1, <3>2
    <2>2. d.ws = c.ws
      BY <1>1 DEF mg_ws_handler, IsConnection
    <2> HIDE DEF d
    <2>3. Telling(d) /\ Attended(d)
      BY <1>1, <1>4, <2>1, <2>2, ToldSame DEF SameTold
    <2>4. QED
      BY <1>1, <1>4, <2>3 DEF HandledWell, Spared, d
  <1>7. CASE n # 0
    <2>1. n \in 1..n
      BY <1>2, <1>7
    <2>2. h + n <= Begun(c) /\ h + n \in 1..Len(c.script) /\ c.script[h + n] = "frame"
      BY <1>3, <2>1
    <2> HIDE DEF d, n, h, new
    <2>3. /\ d.got = c.got /\ d.script = c.script /\ Begun(d) = Begun(c) /\ Quiet(d)
          /\ Attended(d)
      BY <1>1, <1>4 DEF SameClient, Begun, Quiet, Attended
    <2>4. \A m \in h..(Begun(c) - 1) : c.got = Answers(c.script, m)
      BY <1>1 DEF Telling, Waiting, h
    <2>5. c.got = Answers(c.script, h + n)
      <3>1. CASE h + n < Begun(c)
        <4>1. h + n \in h..(Begun(c) - 1)
          BY <1>1, <1>2, <3>1
        <4>2. QED
          BY <2>4, <4>1
      <3>2. CASE h + n = Begun(c)
        <4> DEFINE m == h + n - 1
        <4>1. m \in h..(Begun(c) - 1) /\ m \in Nat /\ m + 1 = h + n
          BY <1>1, <1>2, <1>7, <3>2
        <4>2. c.got = Answers(c.script, m)
          BY <2>4, <4>1
        <4>3. Answer(h + n, "frame") = << >>
          BY DEF Answer, Silent
        <4> HIDE DEF m
        <4>4. m + 1 \in 1..Len(c.script) /\ c.script[m + 1] = "frame"
          BY <2>2, <4>1
        <4>5. Answers(c.script, m + 1) = Answers(c.script, m) \o Answer(m + 1, c.script[m + 1])
          BY <1>2, <4>1, <4>4, AnswersNext
        <4>6. Answers(c.script, h + n) = c.got \o << >>
          BY <4>1, <4>2, <4>3, <4>4, <4>5
        <4>7. c.got \o << >> = c.got
          BY <1>1 DEF Connection
        <4>8. QED
          BY <4>6, <4>7
      <3>3. QED
        BY <1>1, <1>2, <2>2, <3>1, <3>2
    <2>6. Kept(d)
      <3>1. d.out = << >> /\ Remaining(d) = << >> /\ ~d.file.open
        BY <2>3 DEF Quiet, Remaining
      <3>2. c.got \o (<< >> \o << >>) = c.got
        BY <1>1 DEF Connection
      <3>3. ~d.file.open => d.file.sent = 0
        BY <1>1, <1>4 DEF Telling, Kept
      <3>4. d.got \o (d.out \o Remaining(d)) = Answers(d.script, Len(d.handled))
        BY <1>5, <2>3, <2>5, <3>1, <3>2
      <3>5. QED
        BY <3>1, <3>3, <3>4 DEF Kept
    <2>7. Waiting(d)
      <3>1. \A m \in (h + n)..(Begun(c) - 1) : m \in h..(Begun(c) - 1)
        BY <1>1, <1>2
      <3>2. QED
        BY <1>5, <2>3, <2>4, <3>1 DEF Waiting
    <2>8. Whole(d)
      BY <1>5 DEF Whole
    <2>9. QED
      BY <1>1, <1>4, <2>3, <2>6, <2>7, <2>8 DEF HandledWell, Spared, Telling, d
  <1>8. QED
    BY <1>6, <1>7

\* The request last begun is the first one in recv_mbuf: it is alone there.
LEMMA AloneIs ==
  ASSUME NEW c, Ready(c), c.upload = 0, c.in # << >>, c.in[1][2] = 1,
         c.script[First(c)] = "upgrade", Begun(c) = First(c)
  PROVE  SubSeq(c.in, 2, Len(c.in)) = << >>
  <1> DEFINE n == First(c)
             len == Len(c.in)
  <1>1. Good(c) /\ c.st = "open" /\ c.net = << >> /\ c.client # "gone"
    BY ReadyIs
  <1>2. c.in[1] = << n, 1 >> /\ n \in Nat
    BY <1>1, FirstIs
  <1>3. /\ c.in \in Seq(Tokens) /\ len \in Nat /\ 1 \in 1..len
        /\ Stretch(c.script, c.in)
    BY <1>1, Buffer
  <1>4. Rest(c) = c.in
    BY <1>1, <1>3 DEF Rest
  <1>5. \A i \in 1..len : c.in[i][1] <= n
    BY <1>1, <1>4, BegunIs DEF Ready, Telling
  <1>6. ASSUME len # 1 PROVE FALSE
    <2>1. 1 \in 1..len /\ 2 \in 1..len /\ 1 <= 2
      <3>1. len \in Nat /\ 1 \in 1..len
        BY <1>3
      <3> HIDE DEF len
      <3>2. QED
        BY <1>6, <3>1
    <2>2. \A i, j \in 1..len :
            i <= j /\ c.script[c.in[i][1]] \in {"upgrade", "frame"} =>
              c.in[j] = << c.in[i][1] + (j - i), 1 >>
      BY <1>3 DEF Stretch
    <2>3. c.script[c.in[1][1]] = "upgrade"
      BY <1>2
    <2>4. c.in[2] = << c.in[1][1] + (2 - 1), 1 >>
      BY <2>1, <2>2, <2>3
    <2>5. c.in[2][1] = n + 1
      BY <1>2, <2>4
    <2>6. QED
      BY <1>2, <1>5, <2>1, <2>5
  <1>7. QED
    <2>1. len = 1
      BY <1>6
    <2>2. SubSeq(c.in, 1 + 1, 1) = << >>
      BY <1>3, SubSeqEmpty
    <2>3. QED
      BY <2>1, <2>2

\* The handshake is answered, and what follows it are frames.
LEMMA UpgradeTold ==
  ASSUME NEW c, Ready(c), c.upload = 0, c.in # << >>, c.in[1][2] = 1,
         c.script[First(c)] = "upgrade"
  PROVE  HandledWell(Upgrade(c))
  <1> DEFINE n == First(c)
             units == << << n, 0 >> >>
             b == [Drop(c, 1) EXCEPT !.ws = TRUE,
                     !.handled = Append(@, << n, "whole" >>)]
             d == onHandshakeRequest(b)
             e == IF d.out = << >> THEN Send(d, << << n, 0 >> >>) ELSE d
             f == Upgrade(c)
  <1>1. /\ Good(c) /\ c.st = "open" /\ c.net = << >> /\ c \in Connection /\ IsConnection(c)
        /\ c.flags = {} /\ Telling(c) /\ Attended(c) /\ Quiet(c) /\ Empty(c)
        /\ Begun(c) \in Nat /\ Len(c.handled) \in Nat
        /\ c.handled \in Seq(Nat \X Hows)
    BY ReadyIs
  <1>2. /\ n = Len(c.handled) + 1 /\ n \in Nat /\ n \in 1..Len(c.script)
        /\ c.script \in Seq(Kinds)
    BY <1>1, FirstIs DEF Connection
  <1>3. f \in Connection
    BY <1>1, UpgradeGood DEF Idle, Good
  <1>4. SameClient(c, f)
    BY <1>1, UpgradeSame
  <1>5. Answer(n, c.script[n]) = units
    BY DEF Answer, Silent, IsFile
  <1>6. Begun(c) = n
    <2>1. units # << >>
      OBVIOUS
    <2> HIDE DEF n, units
    <2>2. QED
      BY <1>2, <1>5, <2>1, NoneBegunBehind
  <1>7. SubSeq(c.in, 2, Len(c.in)) = << >>
    BY <1>6, AloneIs
  <1>8. /\ b.in = << >> /\ b.handled = Append(c.handled, << n, "whole" >>)
        /\ b.out = << >> /\ b.flags = {} /\ b.file = c.file /\ IsConnection(b)
    <2>1. /\ b.in = SubSeq(c.in, 1 + 1, Len(c.in))
          /\ b.handled = Append(c.handled, << n, "whole" >>)
          /\ b.out = c.out /\ b.flags = c.flags /\ b.file = c.file /\ IsConnection(b)
      BY <1>1, ZenonT(40) DEF IsConnection, Drop
    <2> HIDE DEF b
    <2>2. QED
      BY <1>1, <1>7, <2>1 DEF Quiet
  <1>9. Upgrade(c) = IF d.flags = {} THEN mg_ws_handler(e) ELSE d
    BY DEF Upgrade
  <1> HIDE DEF b
  <1>10. /\ d.in = << >> /\ d.handled = Append(c.handled, << n, "whole" >>)
         /\ d.out = << >> /\ d.flags = {} /\ d.file = c.file /\ IsConnection(d)
    BY <1>8, ZenonT(40) DEF IsConnection, onHandshakeRequest
  <1> HIDE DEF d, n
  <1>11. e = Send(d, units)
    BY <1>10
  <1> HIDE DEF e
  <1>12. /\ e.in = << >> /\ e.handled = d.handled /\ e.out = << >> \o units
         /\ e.flags = {} /\ e.file = c.file /\ IsConnection(e)
    BY <1>10, <1>11, ZenonT(40) DEF IsConnection, Send
  <1>13. f = mg_ws_handler(e)
    BY <1>9, <1>10
  <1> HIDE DEF f
  <1>14. /\ f.handled = Append(c.handled, << n, "whole" >>) /\ f.out = << >> \o units
         /\ f.flags = {} /\ f.file = c.file
    <2>1. [i \in 1..Len(e.in) |-> << e.in[i][1], "whole" >>] = << >>
      BY <1>12
    <2>2. f.handled = e.handled \o << >> /\ f.out = e.out /\ f.flags = e.flags /\ f.file = e.file
      BY <1>12, <1>13, <2>1 DEF mg_ws_handler, IsConnection
    <2>3. Append(c.handled, << n, "whole" >>) \o << >> = Append(c.handled, << n, "whole" >>)
      <3>1. Append(c.handled, << n, "whole" >>) \in Seq(Nat \X Hows)
        BY <1>1, <1>2
      <3>2. QED
        BY <3>1
    <2>4. QED
      BY <1>10, <1>12, <2>2, <2>3
  <1>15. ToSend(f, n) /\ ~f.file.open
    <2>1. units # << >> /\ << >> \o units = units /\ units \o << >> = units
      OBVIOUS
    <2>2. ~f.file.open /\ f.file.sent = 0
      BY <1>1, <1>14 DEF Empty, Quiet
    <2>3. Remaining(f) = << >>
      BY <2>2 DEF Remaining
    <2>4. Answer(n, f.script[n]) = units
      BY <1>4, <1>5 DEF SameClient
    <2> HIDE DEF units
    <2>5. QED
      BY <1>14, <2>1, <2>2, <2>3, <2>4, Zenon DEF ToSend
  <1>16. Telling(f) /\ Attended(f)
    BY <1>2, <1>3, <1>4, <1>14, <1>15, RequestTold
  <1>17. QED
    BY <1>14, <1>16 DEF HandledWell, Spared, f

\* Every branch of mg_http_handler on MG_EV_RECV.
LEMMA OnRecvTold ==
  ASSUME NEW c, Ready(c)
  PROVE  HandledWell(OnRecv(c))
  <1> DEFINE n == First(c)
             len == ParseHead(c)
  <1>1. /\ Good(c) /\ c.st = "open" /\ c.net = << >> /\ c \in Connection /\ IsConnection(c)
        /\ c.flags = {} /\ Telling(c) /\ Attended(c) /\ Quiet(c)
    BY ReadyIs
  <1>2. HandledWell(c)
    BY <1>1 DEF HandledWell, Spared
  <1>3. CASE c.ws
    BY <1>3, WsHandlerTold DEF OnRecv
  <1>4. CASE ~c.ws /\ c.upload # 0
    BY <1>4, ContinueTold DEF OnRecv
  <1>5. CASE ~c.ws /\ c.upload = 0 /\ len < 0
    <2> DEFINE d == Flag(c, "close_immediately")
    <2>1. OnRecv(c) = d
      BY <1>5 DEF OnRecv
    <2>2. SameTold(c, d)
      BY <1>1, ZenonT(40) DEF SameTold, SameClient, IsConnection, Flag
    <2> HIDE DEF d
    <2>3. Telling(d) /\ Attended(d) /\ Quiet(d)
      BY <1>1, <2>2, ToldSame
    <2>4. QED
      BY <2>1, <2>3 DEF HandledWell, Spared
  <1>6. CASE ~c.ws /\ c.upload = 0 /\ ~(len < 0)
    <2>1. OnRecv(c) =
            IF len = 0 THEN c
            ELSE IF c.build.streaming /\ c.script[n] = "upload"
            THEN mg_http_multipart_continue(mg_http_multipart_begin(c))
            ELSE IF c.script[n] = "upgrade" THEN Upgrade(c)
            ELSE IF Buffered(c) THEN HandleMessage(c)
            ELSE c
      BY <1>6 DEF OnRecv
    <2>2. len # 0 => /\ c.in # << >> /\ c.in[1][2] = 1
                     /\ c.script[n] \notin {"bad", "frame"}
      BY <1>6 DEF ParseHead
    <2> HIDE DEF n, len
    <2>3. CASE len = 0
      BY <1>2, <2>1, <2>3
    <2>4. CASE len # 0 /\ c.build.streaming /\ c.script[n] = "upload"
      <3> DEFINE d == mg_http_multipart_begin(c)
      <3>1. Ready(d) /\ d.upload # 0
        BY <1>6, <2>2, <2>4, BeginReady DEF n
      <3> HIDE DEF d
      <3>2. HandledWell(mg_http_multipart_continue(d))
        BY <3>1, ContinueTold
      <3>3. QED
        BY <2>1, <2>4, <3>2 DEF d
    <2>5. CASE len # 0 /\ c.script[n] = "upgrade"
      BY <1>6, <2>1, <2>2, <2>5, UpgradeTold DEF n
    <2>6. CASE len # 0 /\ Buffered(c)
               /\ ~(c.build.streaming /\ c.script[n] = "upload") /\ c.script[n] # "upgrade"
      <3>1. c.script[First(c)] \notin {"bad", "frame", "upgrade"}
        BY <2>2, <2>6 DEF n
      <3>2. QED
        BY <1>6, <2>1, <2>2, <2>6, <3>1, HandleMessageTold
    <2>7. QED
      BY <1>2, <2>1, <2>3, <2>4, <2>5, <2>6
  <1>7. QED
    BY <1>3, <1>4, <1>5, <1>6

-----------------------------------------------------------------------------
(* The connection closes *)

\* g is h, and what the close may have found.
More(h, g) ==
  g = h \/ \E n : g = Append(h, << n, "late" >>) \/ g = Append(h, << n, "cut" >>)

\* The close adds at most one request to those handled, late or cut.
LEMMA CloseHandles ==
  ASSUME NEW c, Idle(c)
  PROVE  mg_close_conn(c).st = "closed" /\ More(c.handled, mg_close_conn(c).handled)
  <1> DEFINE k == [c EXCEPT !.st = "closed"]
             f == OnClose(k)
             how == IF k.script[First(k)] = "stream" \/ Buffered(k) THEN "late" ELSE "cut"
             e == IF k.upload # 0 THEN onMultipartRequestEnd(k, k.upload, "late")
                  ELSE IF ParseHead(k) > 0 THEN onHttpRequest(k, First(k), how)
                  ELSE k
  <1>1. c \in Connection /\ Good(c) /\ c.st = "open" /\ c.net = << >> /\ IsConnection(c)
    BY ConnectionIs DEF Idle, Good
  <1>2. /\ k \in Connection /\ k.st = "closed" /\ k.script = c.script /\ k.in = c.in
        /\ k.upload = c.upload /\ k.handled = c.handled
    BY <1>1 DEF Connection
  <1>3. mg_close_conn(c) = [f EXCEPT !.in = << >>, !.out = << >>, !.file = NoFile, !.upload = 0]
    BY DEF mg_close_conn
  <1>4. f = IF k.ws THEN k ELSE mg_http_transfer_file_data(e)
    BY DEF OnClose
  <1> HIDE DEF k, f, how
  <1>5. how \in {"late", "cut"}
    BY DEF how
  <1>6. \A n : IsConnection(k) /\ Heard(k, n, "late").handled = Append(c.handled, << n, "late" >>)
               /\ Heard(k, n, how).handled = Append(c.handled, << n, how >>)
    BY <1>2, ConnectionIs DEF IsConnection, Heard
  <1>7. e \in Connection /\ e.st = "closed" /\ More(c.handled, e.handled)
    <2>1. CASE k.upload # 0
      <3> DEFINE n == k.upload
                 h == Heard(k, n, "late")
      <3>1. n \in Nat
        BY <1>2 DEF Connection
      <3>2. e = onMultipartRequestEnd(k, n, "late")
        BY <2>1
      <3>3. h \in Connection
        BY <1>2, <3>1, HeardConnection
      <3>4. Answered(Released(h), e)
        BY <1>2, <3>1, <3>2, MultipartEndAnswers
      <3>5. h.handled = Append(c.handled, << n, "late" >>) /\ h.st = "closed"
        BY <1>2, <1>6 DEF Heard, IsConnection
      <3> HIDE DEF e, h, n
      <3>6. Released(h).handled = h.handled /\ Released(h).st = h.st
        BY <3>3 DEF Connection, Released
      <3>7. QED
        BY <3>4, <3>5, <3>6 DEF Answered, More
    <2>2. CASE k.upload = 0 /\ ParseHead(k) > 0
      <3> DEFINE n == First(k)
                 h == Heard(k, n, how)
      <3>1. c.in # << >> /\ c.in[1][2] = 1
        BY <1>2, <2>2, ParsedIs
      <3>2. n = First(c)
        BY <1>2 DEF First
      <3>3. n \in 1..Len(k.script)
        BY <1>1, <1>2, <2>2, <3>1, <3>2, FirstIs
      <3>4. e = onHttpRequest(k, n, how) /\ how \in Hows
        BY <1>5, <2>2 DEF Hows
      <3>5. Answered(h, e)
        BY <1>2, <3>3, <3>4, HttpRequestAnswers
      <3>6. h.handled = Append(c.handled, << n, how >>) /\ h.st = "closed"
        BY <1>2, <1>6 DEF Heard, IsConnection
      <3> HIDE DEF e, h, n
      <3>7. QED
        BY <1>5, <3>5, <3>6 DEF Answered, More
    <2>3. CASE k.upload = 0 /\ ~(ParseHead(k) > 0)
      BY <1>2, <2>3 DEF More
    <2>4. QED
      BY <2>1, <2>2, <2>3
  <1> HIDE DEF e
  <1>8. Answered(e, mg_http_transfer_file_data(e))
    BY <1>7, TransferAnswers
  <1>9. f \in Connection /\ f.st = "closed" /\ More(c.handled, f.handled)
    BY <1>2, <1>4, <1>7, <1>8 DEF Answered, More
  <1>10. QED
    BY <1>3, <1>9 DEF Connection

\* A connection that closes with nothing to send has sent everything.
LEMMA CloseTold ==
  ASSUME NEW c, Idle(c), Telling(c), Attended(c), Quiet(c)
  PROVE  Told(mg_close_conn(c))
  <1> DEFINE e == mg_close_conn(c)
             h == Len(c.handled)
             whole == { i \in DOMAIN e.handled : e.handled[i][2] = "whole" }
  <1>1. /\ c \in Connection /\ IsConnection(c) /\ c.handled \in Seq(Nat \X Hows)
        /\ h \in Nat /\ Kept(c) /\ Whole(c) /\ c.got \in Seq(Units)
    BY ConnectionIs DEF Idle, Good, Telling, Connection, Units
  <1>2. SameClient(c, e)
    BY <1>1, CloseSame
  <1>3. e.st = "closed" /\ More(c.handled, e.handled)
    BY CloseHandles
  <1> HIDE DEF e
  <1>4. whole = 1..h
    <2>1. \A i \in 1..h : c.handled[i][2] = "whole"
      BY <1>1 DEF Whole
    <2>2. CASE e.handled = c.handled
      BY <1>1, <2>1, <2>2
    <2>3. ASSUME NEW n, NEW how \in {"late", "cut"}, e.handled = Append(c.handled, << n, how >>)
          PROVE  whole = 1..h
      <3>1. /\ DOMAIN e.handled = 1..(h + 1) /\ e.handled[h + 1] = << n, how >>
            /\ \A i \in 1..h : e.handled[i] = c.handled[i]
        BY <1>1, <2>3
      <3>2. e.handled[h + 1][2] # "whole"
        BY <3>1
      <3> HIDE DEF h
      <3>3. \A i \in 1..(h + 1) : i \in 1..h \/ i = h + 1
        BY <1>1
      <3>4. \A i \in 1..h : i \in 1..(h + 1)
        BY <1>1
      <3>5. QED
        BY <2>1, <3>1, <3>2, <3>3, <3>4
    <2>4. QED
      BY <1>3, <2>2, <2>3 DEF More
  <1>5. Cardinality(whole) = h
    <2> HIDE DEF h, whole
    <2>1. 1 \in Int /\ h \in Int
      BY <1>1
    <2>2. Cardinality(1..h) = IF 1 > h THEN 0 ELSE h - 1 + 1
      BY <2>1, FS_Interval, Zenon
    <2>3. Cardinality(1..h) = h
      BY <1>1, <2>2
    <2>4. QED
      BY <1>4, <2>3
  <1>6. c.got = Answers(c.script, h)
    <2>1. c.out \o Remaining(c) = << >>
      BY DEF Quiet, Remaining
    <2>2. c.got \o << >> = c.got
      BY <1>1
    <2>3. QED
      BY <1>1, <2>1, <2>2 DEF Kept
  <1>7. e.got = Answers(e.script, Cardinality(whole))
    BY <1>2, <1>5, <1>6 DEF SameClient
  <1>8. QED
    BY <1>3, <1>7 DEF Told, e

-----------------------------------------------------------------------------
(* A turn of the loop *)

\* The first thing every event does takes nothing from what there is to send.
LEMMA EventTold ==
  ASSUME NEW c \in Connection, Telling(c), Attended(c), NEW d, d = OnEvent(c)
  PROVE  /\ Telling(d) /\ Attended(d)
         /\ d.out = << >> => ~d.file.open
         /\ "close_immediately" \in d.flags => "close_immediately" \in c.flags
  <1>1. Kept(c) /\ Waiting(c) /\ Whole(c)
    BY DEF Telling
  <1>2. CASE c.ws
    BY <1>1, <1>2 DEF OnEvent, Kept
  <1>3. CASE ~c.ws
    <2>1. d = mg_http_transfer_file_data(c)
      BY <1>3 DEF OnEvent
    <2>2. Answered(c, d) /\ SameClient(c, d)
      BY <2>1, TransferAnswers, TransferSame, ConnectionIs
    <2>3. /\ d.out \o Remaining(d) = c.out \o Remaining(c)
          /\ ~c.file.open => d = c
          /\ (~c.file.open => c.file.sent = 0) => (~d.file.open => d.file.sent = 0)
          /\ d.out = << >> => ~d.file.open
          /\ "close_immediately" \in d.flags => "close_immediately" \in c.flags
      BY <2>1, TransferTells, Zenon
    <2>4. /\ d.handled = c.handled /\ ~d.ws /\ d.script = c.script /\ d.got = c.got
          /\ Begun(d) = Begun(c) /\ Attended(d)
      BY <1>3, <2>2 DEF Answered, SameClient, Begun, Attended
    <2>5. Kept(d)
      BY <1>1, <2>3, <2>4 DEF Kept
    <2>6. Waiting(d)
      <3>1. Quiet(c) => Quiet(d)
        BY <2>3 DEF Quiet
      <3>2. QED
        BY <1>1, <2>4, <3>1 DEF Waiting
    <2>7. Whole(d)
      BY <1>1, <2>4 DEF Whole
    <2>8. QED
      BY <2>3, <2>4, <2>5, <2>6, <2>7 DEF Telling
  <1>4. QED
    BY <1>2, <1>3

\* When something is received, the client was waiting.
LEMMA ReceiveTold ==
  ASSUME NEW c, Good(c), c.st = "open", Told(c), Attended(c), NEW r, r = Receive(c)
  PROVE  /\ Telling(r) /\ Attended(r)
         /\ c.net # << >> => Ready(r) /\ c.out = << >>
         /\ c.net = << >> => "close_immediately" \notin r.flags
  <1>1. /\ c \in Connection /\ IsConnection(c) /\ Telling(c) /\ Rested(c) /\ Idle(r)
        /\ c.client # "gone"
    BY ReceiveIdle, ConnectionIs DEF Good, Told, Attended
  <1>2. CASE c.net # << >>
    <2> DEFINE b == [c EXCEPT !.in = @ \o c.net, !.net = << >>]
    <2>1. c.in \in Seq(Tokens) /\ c.net \in Seq(Tokens)
      BY <1>1 DEF Connection
    <2>2. Rest(c) # << >>
      <3>1. Len(c.in \o c.net) = Len(c.in) + Len(c.net) /\ Len(c.net) # 0
            /\ Len(c.in) \in Nat /\ Len(c.net) \in Nat
        BY <1>2, <2>1
      <3>2. QED
        BY <3>1 DEF Rest
    <2>3. Len(c.handled) < Begun(c)
      BY <1>1, <2>2, BegunIs DEF Telling
    <2>4. Quiet(c) /\ c.flags = {}
      BY <1>1, <2>3 DEF Telling, Waiting, Rested, Quiet
    <2>5. r = OnEvent(b)
      BY <1>2 DEF Receive
    <2>6. SameTold(c, b) /\ b.flags = c.flags
      BY <1>1, ZenonT(40) DEF SameTold, SameClient, IsConnection
    <2> HIDE DEF b
    <2>7. Telling(b) /\ Attended(b) /\ Begun(b) = Begun(c) /\ Quiet(b)
      BY <1>1, <2>4, <2>6, ToldSame
    <2>8. OnEvent(b) = b
      BY <2>7 DEF OnEvent, mg_http_transfer_file_data, Quiet
    <2>9. Len(b.handled) < Begun(b)
      BY <2>3, <2>6, <2>7 DEF SameTold
    <2>10. Ready(r)
      BY <1>1, <2>4, <2>5, <2>6, <2>7, <2>8, <2>9 DEF Ready
    <2>11. QED
      BY <1>2, <2>4, <2>5, <2>7, <2>8, <2>10 DEF Quiet
  <1>3. CASE c.net = << >>
    <2>1. r = c \/ r = Flag(c, "send_and_close")
      BY <1>1, <1>3 DEF Receive
    <2>2. SameTold(c, r)
      BY <1>1, <2>1, ZenonT(40) DEF SameTold, SameClient, IsConnection, Flag
    <2>3. Telling(r) /\ Attended(r)
      BY <1>1, <2>2, ToldSame
    <2>4. "close_immediately" \notin c.flags
      BY <1>1 DEF Rested
    <2>5. r.flags \subseteq c.flags \cup {"send_and_close"}
      BY <1>1, <2>1 DEF IsConnection, Flag
    <2>6. QED
      BY <1>3, <2>3, <2>4, <2>5
  <1>4. QED
    BY <1>2, <1>3

\* What is written to the socket is the beginning of what there is to send.
LEMMA WriteTold ==
  ASSUME NEW c, Idle(c), Telling(c), Attended(c), c.out # << >>, NEW k \in Nat,
         NEW d, d = mg_write_to_socket(c, k)
  PROVE  /\ Telling(d) /\ Attended(d)
         /\ "close_immediately" \in d.flags => "close_immediately" \in c.flags
  <1> DEFINE m == AtMost(k, Len(c.out))
             sent == SubSeq(c.out, 1, m)
             left == SubSeq(c.out, m + 1, Len(c.out))
             b == [c EXCEPT !.got = @ \o sent, !.out = left]
  <1>1. /\ c \in Connection /\ IsConnection(c) /\ Kept(c) /\ Waiting(c) /\ Whole(c)
        /\ c.client # "gone" /\ c.out \in Seq(Units) /\ c.got \in Seq(Units)
        /\ Len(c.out) \in Nat /\ Good(c) /\ c.st = "open" /\ Remaining(c) \in Seq(Units)
    <2>1. c \in Connection /\ Good(c) /\ c.st = "open"
      BY DEF Idle, Good
    <2>2. c.out \in Seq(Units) /\ c.got \in Seq(Units)
      BY <2>1 DEF Connection, Units
    <2>3. QED
      BY <2>1, <2>2, ConnectionIs, RemainingIs DEF Telling, Attended
  <1>2. m \in 0..Len(c.out)
    BY <1>1 DEF AtMost
  <1>3. d = OnEvent(b)
    BY <1>1 DEF mg_write_to_socket, IsConnection
  <1> HIDE DEF m
  <1>4. sent \in Seq(Units) /\ left \in Seq(Units) /\ sent \o left = c.out
    <2> DEFINE o == c.out
               n == Len(o)
    <2>1. \A i \in 1..m : o[i] \in Units
      BY <1>1, <1>2
    <2>2. \A i \in m + 1..n : o[i] \in Units
      BY <1>1, <1>2
    <2>3. /\ sent \in Seq(Units) /\ Len(sent) = m /\ \A i \in 1..m : sent[i] = o[i]
          /\ left \in Seq(Units) /\ Len(left) = n - m /\ \A i \in 1..(n - m) : left[i] = o[m + i]
      BY <1>1, <1>2, <2>1, <2>2, SubSeqProperties
    <2> HIDE DEF sent, left, o, n
    <2>4. n \in Nat /\ m \in 0..n /\ o \in Seq(Units) /\ Len(o) = n
      BY <1>1, <1>2 DEF o, n
    <2>5. /\ sent \o left \in Seq(Units) /\ Len(sent \o left) = Len(sent) + Len(left)
          /\ \A i \in 1..Len(sent) + Len(left) :
               (sent \o left)[i] = IF i <= Len(sent) THEN sent[i] ELSE left[i - Len(sent)]
      BY <2>3, Concatenated
    <2>6. ASSUME NEW i \in 1..n PROVE (sent \o left)[i] = o[i]
      <3>0. i \in 1..Len(sent) + Len(left)
        BY <2>3, <2>4
      <3>1. CASE i <= m
        <4>1. i \in 1..m
          BY <2>4, <3>1
        <4>2. QED
          BY <2>3, <2>5, <3>0, <3>1, <4>1
      <3>2. CASE ~(i <= m)
        <4>1. i - m \in 1..(n - m) /\ m + (i - m) = i
          BY <2>4, <3>2
        <4>2. left[i - m] = o[i]
          BY <2>3, <4>1
        <4>3. QED
          BY <2>3, <2>5, <3>0, <3>2, <4>2
      <3>3. QED
        BY <3>1, <3>2
    <2>7. Len(sent \o left) = n
      BY <2>3, <2>4, <2>5
    <2>8. sent \o left = o
      <3>1. \A i \in 1..Len(sent \o left) : (sent \o left)[i] = o[i]
        BY <2>6, <2>7
      <3>2. QED
        BY <2>4, <2>5, <2>7, <3>1, SeqEqual
    <2>9. QED
      BY <2>3, <2>8 DEF o
  <1> HIDE DEF sent, left
  <1>5. /\ b.got = c.got \o sent /\ b.out = left /\ b.flags = c.flags
        /\ b.file = c.file /\ b.ws = c.ws /\ b.handled = c.handled
        /\ b.script = c.script /\ b.next = c.next /\ b.polite = c.polite
        /\ b.client = c.client
    BY <1>1, ZenonT(40) DEF IsConnection
  <1>6. b \in Connection
    <2>1. c.got \o sent \in Seq(Units)
      BY <1>1, <1>4, Concatenated
    <2> DEFINE g == c.got \o sent
    <2>2. g \in Seq(Units)
      BY <2>1
    <2>3. b = [c EXCEPT !.got = g, !.out = left]
      BY <1>1, Zenon DEF IsConnection
    <2> HIDE DEF g, b
    <2>4. QED
      BY <1>1, <1>4, <2>2, <2>3, ZenonT(40) DEF Connection, Units
  <1> HIDE DEF b
  <1>7. Begun(b) = Begun(c) /\ Attended(b) /\ Whole(b)
    BY <1>1, <1>5 DEF Begun, Attended, Whole
  <1>8. Kept(b)
    <2> DEFINE g == c.got
               r == Remaining(c)
    <2>1. Remaining(b) = r
      BY <1>5 DEF Remaining
    <2>2. g \in Seq(Units) /\ r \in Seq(Units) /\ sent \in Seq(Units) /\ left \in Seq(Units)
      BY <1>1, <1>4
    <2>3. b.got = g \o sent /\ c.out = sent \o left
      BY <1>4, <1>5
    <2> HIDE DEF g, r
    <2>4. left \o r \in Seq(Units)
      BY <2>2, Concatenated
    <2>5. (g \o sent) \o (left \o r) = g \o (sent \o (left \o r))
      <3> DEFINE t == left \o r
      <3>1. t \in Seq(Units)
        BY <2>4
      <3> HIDE DEF t
      <3>2. (g \o sent) \o t = g \o (sent \o t)
        BY <2>2, <3>1, ConcatAssociative
      <3>3. QED
        BY <3>2 DEF t
    <2>6. (sent \o left) \o r = sent \o (left \o r)
      BY <2>2, ConcatAssociative
    <2>7. b.got \o (b.out \o Remaining(b)) = c.got \o (c.out \o Remaining(c))
      BY <1>5, <2>1, <2>3, <2>5, <2>6, Zenon DEF g, r
    <2>8. QED
      BY <1>1, <1>5, <2>7 DEF Kept
  <1>9. Waiting(b)
    <2>1. Begun(c) \in Nat /\ Len(c.handled) \in Nat
      BY <1>1, BegunIs DEF Telling
    <2>2. ~(Len(c.handled) < Begun(c))
      BY <1>1 DEF Waiting, Quiet
    <2>3. \A i \in Len(c.handled)..(Begun(c) - 1) : FALSE
      BY <2>1, <2>2
    <2>4. QED
      BY <1>5, <1>7, <2>2, <2>3 DEF Waiting
  <1>10. Telling(b)
    BY <1>7, <1>8, <1>9 DEF Telling
  <1>11. QED
    BY <1>3, <1>5, <1>6, <1>7, <1>10, EventTold

\* The close pass closes only what has nothing left to send.
LEMMA ClosePassTold ==
  ASSUME NEW c, Idle(c), Telling(c), Attended(c), Spared(c),
         c.out = << >> => ~c.file.open
  PROVE  Told(ClosePass(c))
  <1> DEFINE e == mg_close_conn(c)
             closes == "close_immediately" \in c.flags
                         \/ (c.out = << >> /\ "send_and_close" \in c.flags)
  <1>1. ClosePass(c) = IF closes THEN e ELSE c
    BY DEF ClosePass
  <1>2. ASSUME closes PROVE Told(e)
    <2>1. Quiet(c)
      BY <1>2 DEF Spared, Quiet
    <2>2. QED
      BY <2>1, CloseTold
  <1>3. ASSUME ~closes PROVE Told(c)
    <2>1. c.flags \subseteq {"send_and_close", "close_immediately"} /\ c.st = "open"
      BY DEF Idle, Good, Connection
    <2>2. Rested(c)
      BY <1>3, <2>1 DEF Rested
    <2>3. QED
      BY <2>1, <2>2 DEF Told
  <1>4. QED
    BY <1>1, <1>2, <1>3

\* One turn of the poll loop.
LEMMA TurnTold ==
  ASSUME NEW c, Good(c), c.st = "open", Told(c), Attended(c), NEW k \in Nat,
         NEW r, r = Receive(c),
         NEW d, d = IF c.net = << >> THEN r ELSE OnRecv(r),
         NEW w, w = IF c.out = << >> \/ d.out = << >> \/ k = 0 THEN d
                    ELSE mg_write_to_socket(d, k)
  PROVE  Told(ClosePass(IF "close_immediately" \in d.flags THEN d ELSE OnEvent(w)))
  <1>1. Idle(r)
    BY ReceiveIdle
  <1>2. /\ Telling(r) /\ Attended(r)
        /\ c.net # << >> => Ready(r) /\ c.out = << >>
        /\ c.net = << >> => "close_immediately" \notin r.flags
    BY ReceiveTold
  <1>3. Idle(d) /\ Telling(d) /\ Attended(d) /\ Spared(d)
    <2>1. CASE c.net = << >>
      BY <1>1, <1>2, <2>1 DEF Spared
    <2>2. CASE c.net # << >>
      <3>1. d = OnRecv(r) /\ Ready(r)
        BY <1>2, <2>2
      <3>2. HandledWell(d)
        BY <3>1, OnRecvTold
      <3>3. Idle(d)
        BY <1>1, <3>1, OnRecvGood
      <3>4. QED
        BY <3>2, <3>3 DEF HandledWell
    <2>3. QED
      BY <2>1, <2>2
  <1>4. CASE "close_immediately" \in d.flags
    <2>1. Quiet(d)
      BY <1>3, <1>4 DEF Spared
    <2>2. Told(ClosePass(d))
      BY <1>3, <2>1, ClosePassTold DEF Quiet
    <2>3. QED
      BY <1>4, <2>2
  <1>5. CASE "close_immediately" \notin d.flags
    <2>1. Idle(w) /\ Telling(w) /\ Attended(w) /\ "close_immediately" \notin w.flags
      <3>1. CASE c.out = << >> \/ d.out = << >> \/ k = 0
        BY <1>3, <1>5, <3>1
      <3>2. CASE ~(c.out = << >> \/ d.out = << >> \/ k = 0)
        <4>1. w = mg_write_to_socket(d, k) /\ d.out # << >>
          BY <3>2
        <4>2. Idle(w)
          BY <1>3, <4>1, WriteIdle
        <4>3. /\ Telling(w) /\ Attended(w)
              /\ "close_immediately" \in w.flags => "close_immediately" \in d.flags
          BY <1>3, <4>1, WriteTold, Zenon
        <4>4. QED
          BY <1>5, <4>2, <4>3
      <3>3. QED
        BY <3>1, <3>2
    <2> DEFINE e == OnEvent(w)
    <2>2. w \in Connection
      BY <2>1 DEF Idle, Good
    <2>3. Idle(e)
      BY <2>1, <2>2, EventAnswers, AnsweredIdle
    <2> HIDE DEF e
    <2>4. /\ Telling(e) /\ Attended(e)
          /\ e.out = << >> => ~e.file.open
          /\ "close_immediately" \notin e.flags
      <3>1. /\ Telling(e) /\ Attended(e)
            /\ e.out = << >> => ~e.file.open
            /\ "close_immediately" \in e.flags => "close_immediately" \in w.flags
        BY <2>1, <2>2, EventTold DEF e
      <3>2. QED
        BY <2>1, <3>1
    <2>5. Told(ClosePass(e))
      BY <2>3, <2>4, ClosePassTold DEF Spared
    <2>6. QED
      BY <1>5, <2>5 DEF e
  <1>6. QED
    BY <1>4, <1>5

-----------------------------------------------------------------------------
(* The client's requests *)

\* What happens to a connection that its client and its answers do not see.
LEMMA MarkTold ==
  ASSUME NEW c, Told(c), c.st # "closed",
         NEW d, SameTold(c, d), d.flags = c.flags, d.st # "closed",
         Attended(d) \/ d.st = "none" => Attended(c) \/ c.st = "none"
  PROVE  Told(d)
  <1>1. SUFFICES ASSUME Attended(d) \/ d.st = "none"
                 PROVE  Telling(d) /\ Rested(d)
    BY DEF Told
  <1>2. Telling(c) /\ Rested(c)
    BY <1>1 DEF Told
  <1>3. Telling(d)
    BY <1>2, ToldSame
  <1>4. QED
    BY <1>2, <1>3 DEF SameTold, Rested

\* The first n requests of a script are n requests.
LEMMA BeforeIs ==
  ASSUME NEW script \in Seq(Kinds), NEW n \in 0..Len(script)
  PROVE  Len(SubSeq(script, 1, n)) = n
  <1>1. \A i \in 1..n : script[i] \in Kinds
    OBVIOUS
  <1>2. n \in Nat
    OBVIOUS
  <1>3. Len(SubSeq(script, 1, n)) = IF 1 <= n THEN n - 1 + 1 ELSE 0
    BY <1>1, <1>2, SubSeqProperties
  <1>4. QED
    BY <1>2, <1>3

\* A polite client begins a request when it has all the answers.
LEMMA SendTokenTold ==
  ASSUME NEW c, Good(c), c.st \in {"backlog", "open"}, c.client = "sending", Told(c),
         c.next[1] <= Len(c.script),
         NEW b, b = SubSeq(c.script, 1, c.next[1] - 1),
         c.polite /\ c.next[2] = 1 => c.got = Answers(b, Len(b)),
         NEW s, NEW d, d = [c EXCEPT !.next = After(c.script, c.next), !.net = s]
  PROVE  Told(d)
  <1> DEFINE t == c.next
             n == t[1]
             h == Len(c.handled)
  <1>1. /\ c \in Connection /\ IsConnection(c) /\ c.script \in Seq(Kinds) /\ t \in Tokens
        /\ InLine(c) /\ IsNext(c.script, t) /\ c.client # "gone"
    BY ConnectionIs DEF Good, Connection, InLine
  <1>2. /\ t[1] \in Nat \ {0} /\ t[2] \in Nat \ {0} /\ n \in 1..Len(c.script)
        /\ IsToken(c.script, t)
    BY <1>1 DEF Tokens, IsNext, IsToken
  <1>4. /\ d.next = After(c.script, t) /\ d.st = c.st /\ d.polite = c.polite
        /\ d.client = c.client /\ d.script = c.script /\ d.got = c.got
        /\ d.handled = c.handled /\ d.out = c.out /\ d.file = c.file /\ d.ws = c.ws
        /\ d.flags = c.flags
    BY <1>1, ZenonT(40) DEF IsConnection
  <1>5. Begun(d) = n
    <2>1. /\ t[2] < Size(c.script[n]) => d.next = << n, t[2] + 1 >>
          /\ t[2] = Size(c.script[n]) => d.next = << n + 1, 1 >>
      BY <1>1, <1>2, <1>4, AfterIs
    <2>2. t[2] < Size(c.script[n]) \/ t[2] = Size(c.script[n])
      <3>1. c.script[n] \in Kinds /\ t[2] \in 1..Size(c.script[n])
        BY <1>1, <1>2 DEF IsToken
      <3>2. Size(c.script[n]) \in 1..3
        BY <3>1, SizeIs
      <3>3. QED
        BY <3>1, <3>2
    <2>3. Begun(d) = IF d.next[2] = 1 THEN d.next[1] - 1 ELSE d.next[1]
      BY DEF Begun
    <2> HIDE DEF n
    <2>4. n \in Nat /\ t[2] \in Nat \ {0}
      BY <1>2
    <2>5. CASE t[2] < Size(c.script[n])
      <3>1. d.next[1] = n /\ d.next[2] # 1
        BY <2>1, <2>4, <2>5
      <3>2. QED
        BY <2>3, <3>1
    <2>6. CASE t[2] = Size(c.script[n])
      <3>1. d.next[1] = n + 1 /\ d.next[2] = 1
        BY <2>1, <2>6
      <3>2. QED
        BY <2>3, <2>4, <3>1
    <2>7. QED
      BY <2>2, <2>5, <2>6
  <1>6. Begun(c) = IF t[2] = 1 THEN n - 1 ELSE n
    BY DEF Begun
  <1> HIDE DEF n, h
  <1>7. SUFFICES ASSUME Attended(c)
                 PROVE  Telling(d) /\ Rested(d)
    BY <1>4 DEF Told, Attended
  <1>8. Kept(c) /\ Waiting(c) /\ Whole(c) /\ Rested(c)
    BY <1>7 DEF Told, Telling
  <1>3. h \in Nat /\ Begun(c) \in Nat /\ h <= Begun(c)
    BY <1>1, <1>8, BegunIs DEF h
  <1>9. Kept(d) /\ Whole(d) /\ Rested(d)
    BY <1>4, <1>8 DEF Kept, Whole, Rested, Remaining
  <1>10. Quiet(c) => Quiet(d)
    BY <1>4 DEF Quiet
  <1>11. CASE t[2] # 1
    <2>1. Begun(d) = Begun(c)
      BY <1>5, <1>6, <1>11
    <2>2. Waiting(d)
      BY <1>4, <1>8, <1>10, <2>1 DEF Waiting
    <2>3. QED
      BY <1>9, <2>2 DEF Telling
  <1>12. CASE t[2] = 1
    <2>1. Begun(c) = n - 1 /\ n - 1 \in 0..Len(c.script) /\ n \in Nat
      BY <1>1, <1>2, <1>6, <1>12 DEF n
    <2>2. c.got = Answers(c.script, n - 1)
      <3> DEFINE m == n - 1
      <3>1. b = SubSeq(c.script, 1, m) /\ c.got = Answers(b, Len(b)) /\ m \in 0..Len(c.script)
        BY <1>7, <1>12, <2>1 DEF Attended, n
      <3> HIDE DEF m
      <3>2. Len(b) = m
        <4>1. Len(SubSeq(c.script, 1, m)) = m
          BY <1>1, <3>1, BeforeIs, Zenon
        <4>2. QED
          BY <3>1, <4>1
      <3>3. Answers(b, m) = Answers(c.script, m)
        BY <1>1, <3>1, AnswersBefore
      <3>4. QED
        BY <3>1, <3>2, <3>3 DEF m
    <2>3. Quiet(c)
      <3>1. CASE h < Begun(c)
        BY <1>8, <3>1 DEF Waiting, h
      <3>2. CASE h = Begun(c)
        <4> DEFINE g == c.got
                   o == c.out
                   r == Remaining(c)
        <4>1. g \in Seq(Units) /\ o \in Seq(Units) /\ r \in Seq(Units) /\ o \o r \in Seq(Units)
          BY <1>1, RemainingIs
        <4>2. g \o (o \o r) = g
          BY <1>8, <2>1, <2>2, <3>2 DEF Kept, h
        <4> HIDE DEF g, o, r
        <4>3. Len(o \o r) = Len(o) + Len(r) /\ Len(o) \in Nat /\ Len(r) \in Nat
          BY <4>1, Concatenated
        <4>4. Len(g \o (o \o r)) = Len(g) + Len(o \o r) /\ Len(g) \in Nat
          <5> DEFINE x == o \o r
          <5>1. x \in Seq(Units)
            BY <4>1
          <5> HIDE DEF x
          <5>2. Len(g \o x) = Len(g) + Len(x)
            BY <4>1, <5>1, Concatenated
          <5>3. QED
            BY <4>1, <5>2 DEF x
        <4>5. Len(o) = 0
          BY <4>2, <4>3, <4>4
        <4>6. o = << >>
          BY <4>1, <4>5
        <4>7. QED
          BY <1>8, <4>6 DEF Rested, Quiet, o
      <3>3. QED
        BY <1>3, <3>1, <3>2 DEF h
    <2>4. ASSUME NEW m \in h..(n - 1)
          PROVE  c.got = Answers(c.script, m)
      <3>1. CASE m = n - 1
        BY <2>2, <3>1
      <3>2. CASE m # n - 1
        <4>1. m \in h..(Begun(c) - 1)
          BY <1>3, <2>1, <2>4, <3>2 DEF h
        <4>2. QED
          BY <1>8, <4>1 DEF Waiting, h
      <3>3. QED
        BY <3>1, <3>2
    <2>5. Waiting(d)
      BY <1>4, <1>5, <1>10, <2>3, <2>4 DEF Waiting, h
    <2>6. QED
      BY <1>9, <2>5 DEF Telling
  <1>13. QED
    BY <1>11, <1>12

-----------------------------------------------------------------------------
(* The steps, for what the clients are told *)

\* Every client that waits and reads is told what it asked for.
TellInv == \A c \in Conns : Told(conn[c])

\* A step is about one connection.
LEMMA OneTold ==
  ASSUME IInv, TellInv, NEW c \in Conns, NEW d, Told(d), conn' = [conn EXCEPT ![c] = d]
  PROVE  TellInv'
  <1>1. \A e \in Conns : conn'[e] = IF e = c THEN d ELSE conn[e]
    BY DEF IInv
  <1>2. QED
    BY <1>1 DEF TellInv

\* At first nobody has asked anything.
LEMMA InitTold ==
  ASSUME Init
  PROVE  TellInv
  <1>1. PICK w \in Workloads : \E build \in Builds :
          conn = [c \in Conns |-> Unused(w[c], build)]
    BY DEF Init
  <1>2. PICK build \in Builds :
          conn = [c \in Conns |-> Unused(w[c], build)]
    BY <1>1
  <1>3. ASSUME NEW c \in Conns
        PROVE  Told(conn[c])
    <2> DEFINE u == conn[c]
    <2>1. u = Unused(w[c], build)
      BY <1>2
    <2> HIDE DEF u
    <2>2. /\ u.next = << 1, 1 >> /\ u.handled = << >> /\ u.out = << >> /\ u.got = << >>
          /\ u.file = NoFile /\ u.flags = {} /\ ~u.ws /\ u.st = "none"
      BY <2>1 DEF Unused
    <2>3. ~u.file.open /\ u.file.sent = 0
      BY <2>2 DEF NoFile
    <2>4. Begun(u) = 0 /\ Len(u.handled) = 0
      BY <2>2 DEF Begun
    <2>5. Kept(u)
      <3>1. Answers(u.script, 0) = << >>
        BY AnswersNone
      <3>2. << >> \o (<< >> \o << >>) = << >>
        OBVIOUS
      <3>3. Remaining(u) = << >>
        BY <2>3 DEF Remaining
      <3>4. QED
        BY <2>2, <2>3, <2>4, <3>1, <3>2, <3>3 DEF Kept
    <2>6. Waiting(u) /\ Whole(u) /\ Rested(u)
      BY <2>2, <2>3, <2>4 DEF Waiting, Whole, Rested
    <2>7. QED
      BY <2>2, <2>5, <2>6 DEF Told, Telling, u
  <1>4. QED
    BY <1>3 DEF TellInv

\* A turn of the poll loop does not change who the client is.
LEMMA TurnAttends ==
  ASSUME NEW c, Good(c), c.st = "open", NEW k \in Nat,
         NEW r, r = Receive(c),
         NEW d, d = IF c.net = << >> THEN r ELSE OnRecv(r),
         NEW w, w = IF c.out = << >> \/ d.out = << >> \/ k = 0 THEN d
                    ELSE mg_write_to_socket(d, k),
         NEW e, e = IF "close_immediately" \in d.flags THEN d ELSE OnEvent(w)
  PROVE  /\ Attended(ClosePass(e)) => Attended(c)
         /\ ClosePass(e).st # "none"
  <1>1. Idle(r)
    BY ReceiveIdle
  <1>2. Idle(d)
    BY <1>1, OnRecvGood
  <1>3. Idle(w)
    BY <1>2, WriteIdle
  <1>4. Idle(e)
    BY <1>2, <1>3, EventAnswers, AnsweredIdle DEF Idle, Good
  <1>5. \A x : Idle(x) => IsConnection(x) /\ x.st = "open"
    BY ConnectionIs DEF Idle, Good
  <1>6. \A x : IsConnection(x) => SameClient(x, OnEvent(x))
    BY TransferSame, Untouched DEF OnEvent
  <1>7. SameClient(c, r)
    <2> DEFINE x == [c EXCEPT !.in = @ \o c.net, !.net = << >>]
    <2>1. IsConnection(c)
      BY ConnectionIs DEF Good
    <2>2. SameClient(c, x) /\ IsConnection(x)
      BY <2>1, ZenonT(40) DEF SameClient, IsConnection
    <2>3. r \in {OnEvent(x), Flag(c, "send_and_close"), Flag(c, "close_immediately"), c}
      BY DEF Receive
    <2> HIDE DEF x
    <2>4. SameClient(c, OnEvent(x))
      BY <1>6, <2>2, SameAgain
    <2>5. QED
      <3>1. SameClient(c, Flag(c, "send_and_close")) /\ SameClient(c, c)
            /\ SameClient(c, Flag(c, "close_immediately"))
        BY <2>1, FlagSame, Untouched
      <3>2. QED
        BY <2>3, <2>4, <3>1
  <1>8. SameClient(r, d)
    BY <1>1, <1>5, OnRecvSame, Untouched
  <1>9. w.polite = d.polite /\ w.client = d.client
    <2> DEFINE m == AtMost(k, Len(d.out))
               x == [d EXCEPT !.got = @ \o SubSeq(d.out, 1, m),
                              !.out = SubSeq(@, m + 1, Len(@))]
    <2>1. w \in {d, Flag(d, "close_immediately"), OnEvent(x)}
      BY DEF mg_write_to_socket
    <2>2. IsConnection(d)
      BY <1>2, <1>5
    <2>3. IsConnection(x) /\ x.polite = d.polite /\ x.client = d.client
      BY <2>2, ZenonT(40) DEF IsConnection
    <2> HIDE DEF x
    <2>4. SameClient(d, Flag(d, "close_immediately")) /\ SameClient(x, OnEvent(x))
      BY <1>6, <2>2, <2>3, FlagSame
    <2>5. QED
      BY <2>1, <2>3, <2>4 DEF SameClient
  <1>10. Attended(e) => Attended(c)
    <2>1. e = d \/ SameClient(w, e)
      BY <1>3, <1>5, <1>6
    <2>2. QED
      BY <1>7, <1>8, <1>9, <2>1 DEF SameClient, Attended
  <1>11. SameClient(e, mg_close_conn(e)) /\ mg_close_conn(e).st = "closed" /\ e.st = "open"
    BY <1>4, <1>5, CloseSame, CloseHandles
  <1>12. ClosePass(e) = e \/ ClosePass(e) = mg_close_conn(e)
    BY DEF ClosePass
  <1>13. QED
    BY <1>10, <1>11, <1>12 DEF SameClient, Attended

\* A turn of mg_mgr_poll, whatever it writes.
LEMMA PollTold ==
  ASSUME IInv, TellInv, NEW c \in Conns, NEW k \in Nat, PollWrites(c, k)
  PROVE  TellInv'
  <1> DEFINE b == conn[c]
             r == Receive(b)
             d == IF b.net = << >> THEN r ELSE OnRecv(r)
             w == IF b.out = << >> \/ d.out = << >> \/ k = 0 THEN d
                  ELSE mg_write_to_socket(d, k)
             e == IF "close_immediately" \in d.flags THEN d ELSE OnEvent(w)
  <1>1. /\ Good(b) /\ b.st = "open" /\ Told(b) /\ IsConnection(b)
        /\ conn' = [conn EXCEPT ![c] = ClosePass(e)]
    BY ConnectionIs DEF IInv, TellInv, Good, PollWrites
  <1>2. CASE Attended(b)
    <2> HIDE DEF b, r, d, w
    <2>1. Told(ClosePass(e))
      BY <1>1, <1>2, TurnTold DEF r, d, w
    <2>2. QED
      BY <1>1, <2>1, OneTold
  <1>3. CASE ~Attended(b)
    <2> HIDE DEF b, r, d, w, e
    <2>1. ~Attended(ClosePass(e)) /\ ClosePass(e).st # "none"
      BY <1>1, <1>3, TurnAttends DEF r, d, w, e
    <2>2. Told(ClosePass(e))
      BY <2>1 DEF Told
    <2>3. QED
      BY <1>1, <2>2, OneTold
  <1>4. QED
    BY <1>2, <1>3

\* Every step keeps what the clients are told.
LEMMA NextTold ==
  ASSUME IInv, TellInv, [Next]_vars
  PROVE  TellInv'
  <1>1. ASSUME NEW c \in Conns, Connect(c)
        PROVE  TellInv'
    <2>1. PICK polite \in BOOLEAN :
            conn' = [conn EXCEPT ![c] = [@ EXCEPT !.st = "backlog", !.polite = polite]]
      BY <1>1 DEF Connect
    <2> DEFINE b == conn[c]
               d == [b EXCEPT !.st = "backlog", !.polite = polite]
    <2>2. b.st = "none" /\ Good(b) /\ b \in Connection /\ Told(b) /\ IsConnection(b)
      BY <1>1, ConnectionIs DEF Connect, IInv, TellInv, Good
    <2>3. conn' = [conn EXCEPT ![c] = d]
      BY <2>1 DEF IInv
    <2> HIDE DEF b
    <2>4. /\ d.st = "backlog" /\ d.client = b.client /\ d.script = b.script
          /\ d.next = b.next /\ d.got = b.got /\ d.handled = b.handled
          /\ d.out = b.out /\ d.file = b.file /\ d.ws = b.ws /\ d.flags = b.flags
      BY <2>2, ZenonT(40) DEF IsConnection
    <2> HIDE DEF d
    <2>5. Telling(b) /\ Rested(b)
      BY <2>2 DEF Told
    <2>6. Begun(d) = Begun(b) /\ (Quiet(b) => Quiet(d))
      BY <2>4 DEF Begun, Quiet
    <2>7. Kept(d) /\ Waiting(d) /\ Whole(d) /\ Rested(d)
      BY <2>4, <2>5, <2>6 DEF Telling, Kept, Waiting, Whole, Rested, Remaining
    <2>8. Told(d)
      BY <2>4, <2>7 DEF Told, Telling
    <2>9. QED
      BY <2>3, <2>8, OneTold
  <1>2. ASSUME NEW c \in Conns, SendToken(c)
        PROVE  TellInv'
    <2> DEFINE b == conn[c]
               before == SubSeq(b.script, 1, b.next[1] - 1)
               s == Append(b.net, b.next)
               d == [b EXCEPT !.next = After(b.script, b.next), !.net = s]
    <2>1. /\ b.st \in {"backlog", "open"} /\ b.client = "sending" /\ Good(b) /\ Told(b)
          /\ b.next[1] <= Len(b.script)
          /\ b.polite /\ b.next[2] = 1 => b.got = Answers(before, Len(before))
      BY <1>2 DEF SendToken, Alive, IInv, TellInv
    <2>2. conn' = [conn EXCEPT ![c] = d]
      <3>1. conn' = [conn EXCEPT ![c].next = After(b.script, b.next),
                                 ![c].net = Append(@, b.next)]
        BY <1>2 DEF SendToken
      <3>2. IsConnection(b)
        BY <2>1, ConnectionIs DEF Good
      <3>3. QED
        BY <3>1, <3>2 DEF IInv, IsConnection
    <2> HIDE DEF b, s, before
    <2>3. Told(d)
      BY <2>1, SendTokenTold DEF before
    <2> HIDE DEF d
    <2>4. QED
      BY <2>2, <2>3, OneTold
  <1>3. ASSUME NEW c \in Conns, Finish(c)
        PROVE  TellInv'
    <2> DEFINE b == conn[c]
               d == [b EXCEPT !.client = "finished"]
    <2>1. /\ b.client = "sending" /\ b.st \in {"backlog", "open"}
          /\ Told(b) /\ IsConnection(b)
      BY <1>3, ConnectionIs DEF Finish, Alive, IInv, TellInv, Good
    <2>2. conn' = [conn EXCEPT ![c] = d]
      BY <1>3 DEF Finish, IInv
    <2> HIDE DEF b
    <2>3. /\ d.st = b.st /\ d.polite = b.polite /\ d.script = b.script
          /\ d.next = b.next /\ d.got = b.got /\ d.handled = b.handled
          /\ d.out = b.out /\ d.file = b.file /\ d.ws = b.ws /\ d.flags = b.flags
      BY <2>1, ZenonT(40) DEF IsConnection
    <2> HIDE DEF d
    <2>4. SUFFICES ASSUME b.polite PROVE Telling(d) /\ Rested(d)
      <3>1. (b.polite => Telling(d) /\ Rested(d)) => Told(d)
        BY <2>1, <2>3 DEF Told, Attended
      <3>2. QED
        BY <2>2, <3>1, OneTold
    <2>5. Telling(b) /\ Rested(b)
      BY <2>1, <2>4 DEF Told, Attended
    <2>6. Begun(d) = Begun(b) /\ (Quiet(b) => Quiet(d))
      BY <2>3 DEF Begun, Quiet
    <2>7. Kept(d) /\ Waiting(d) /\ Whole(d) /\ Rested(d)
      BY <2>3, <2>5, <2>6 DEF Telling, Kept, Waiting, Whole, Rested, Remaining
    <2>8. QED
      BY <2>7 DEF Telling
  <1>4. ASSUME NEW c \in Conns, Abort(c)
        PROVE  TellInv'
    <2> DEFINE b == conn[c]
               d == [b EXCEPT !.client = "gone", !.net = << >>]
    <2>1. b.st \in {"backlog", "open"} /\ IsConnection(b)
      BY <1>4, ConnectionIs DEF Abort, IInv, Good
    <2>2. conn' = [conn EXCEPT ![c] = d]
      BY <1>4 DEF Abort, IInv
    <2> HIDE DEF b
    <2>3. d.client = "gone" /\ d.st = b.st
      BY <2>1 DEF IsConnection
    <2> HIDE DEF d
    <2>4. Told(d)
      BY <2>1, <2>3 DEF Told, Attended
    <2>5. QED
      BY <2>2, <2>4, OneTold
  <1>5. ASSUME NEW c \in Conns, mg_accept_conn(c)
        PROVE  TellInv'
    <2> DEFINE b == conn[c]
               d == [b EXCEPT !.st = "open", !.ud = Listener]
    <2>1. b.st = "backlog" /\ Told(b) /\ IsConnection(b)
      BY <1>5, ConnectionIs DEF mg_accept_conn, IInv, TellInv, Good
    <2>2. conn' = [conn EXCEPT ![c] = d]
      BY <1>5 DEF mg_accept_conn, IInv
    <2> HIDE DEF b
    <2>3. SameTold(b, d) /\ d.flags = b.flags /\ d.st = "open"
      BY <2>1, ZenonT(40) DEF SameTold, SameClient, IsConnection
    <2> HIDE DEF d
    <2>4. Attended(d) => Attended(b)
      BY <2>3 DEF SameTold, SameClient, Attended
    <2>5. Told(d)
      BY <2>1, <2>3, <2>4, MarkTold
    <2>6. QED
      BY <2>2, <2>5, OneTold
  <1>6. ASSUME NEW c \in Conns, Poll(c)
        PROVE  TellInv'
    <2>1. PICK k \in {0, 1, SendMax + 1} : PollWrites(c, k)
      BY <1>6 DEF Poll
    <2>2. k \in Nat
      BY SizesAssumption
    <2>3. QED
      BY <2>1, <2>2, PollTold
  <1>7. CASE UNCHANGED vars
    BY <1>7 DEF TellInv, vars
  <1>8. QED
    BY <1>1, <1>2, <1>3, <1>4, <1>5, <1>6, <1>7 DEF Next

-----------------------------------------------------------------------------
(* Results *)

\* The connections are what mongoose and the server can make of them.
THEOREM TypeCorrect ==
  ASSUME Registered
  PROVE  Spec => []TypeOK
  <1>1. ASSUME IInv
        PROVE  TypeOK
    <2>1. ASSUME NEW c \in Conns
          PROVE  /\ conn[c].st \in {"none", "backlog", "open", "closed"}
                 /\ conn[c].client \in {"sending", "finished", "gone"}
                 /\ conn[c].flags \subseteq {"send_and_close", "close_immediately"}
                 /\ conn[c].file.sent \in 0..FileLen
                 /\ conn[c].ud \in {Listener} \cup conn[c].made
                 /\ conn[c].dead \subseteq conn[c].made
                 /\ conn[c].upload \in 0..Len(conn[c].script)
      <3> DEFINE b == conn[c]
      <3>1. Good(b) /\ b \in Connection /\ Uploading(b) /\ Owned(b)
        BY <1>1 DEF IInv, Good
      <3> HIDE DEF b
      <3>2. b.file \in Files /\ b.script \in Seq(Kinds) /\ b.upload \in Nat
        BY <3>1 DEF Connection
      <3>3. b.file.sent \in 0..FileLen
        BY <3>2 DEF Files
      <3>4. b.upload \in 0..Len(b.script)
        BY <3>1, <3>2 DEF Uploading
      <3>5. /\ b.st \in {"none", "backlog", "open", "closed"}
            /\ b.client \in {"sending", "finished", "gone"}
            /\ b.flags \subseteq {"send_and_close", "close_immediately"}
        BY <3>1 DEF Connection
      <3>6. b.ud \in {Listener} \cup b.made /\ b.dead \subseteq b.made
        BY <3>1 DEF Owned
      <3>7. QED
        BY <3>3, <3>4, <3>5, <3>6 DEF b
    <2>2. QED
      BY <2>1 DEF TypeOK
  <1>2. QED
    BY <1>1, Invariant, PTL

\* In a server that has a factory for the uploads it streams, the user data an
\* open connection's handler is given, and the listener's that all share, was
\* not deleted, and what an upload made is deleted when its connection closes
\* (MG_EV_HTTP_MULTIPART_REQUEST and _END in WebServer.cpp): for any requests
\* of any number of clients, in any pieces.
THEOREM UserDataStaysLive ==
  ASSUME Registered
  PROVE  Spec => []UserDataLive
  <1>1. ASSUME IInv
        PROVE  UserDataLive
    <2>1. ASSUME NEW c \in Conns
          PROVE  /\ Listener \notin conn[c].dead
                 /\ conn[c].st = "open" => conn[c].ud \notin conn[c].dead
                 /\ conn[c].st = "closed" => conn[c].made \subseteq conn[c].dead \cup {WsData}
      <3> DEFINE b == conn[c]
      <3>1. Good(b) /\ b \in Connection /\ Uploading(b) /\ Owned(b)
        BY <1>1 DEF IInv, Good
      <3> HIDE DEF b
      <3>2. Len(b.handled) \in Nat /\ b.upload \in Nat
        BY <3>1 DEF Connection
      <3>3. Listener \notin b.dead /\ WsData \notin b.dead
        BY <3>1, <3>2 DEF Owned, Listener, WsData
      <3>4. b.ud \notin b.dead
        <4>1. CASE b.upload = 0
          BY <3>1, <3>3, <4>1 DEF Owned
        <4>2. CASE b.upload # 0
          <5>1. b.ud = Len(b.handled) + 1 /\ b.dead \subseteq 1..Len(b.handled)
            BY <3>1, <4>2 DEF Owned, Uploading
          <5>2. QED
            BY <3>2, <5>1
        <4>3. QED
          BY <4>1, <4>2
      <3>5. b.st = "closed" => b.made \subseteq b.dead \cup {WsData}
        BY <3>1 DEF Good, Owned
      <3>6. QED
        BY <3>3, <3>4, <3>5 DEF b
    <2>2. QED
      BY <2>1 DEF UserDataLive
  <1>2. QED
    BY <1>1, Invariant, PTL

\* However the stream of a client is cut and whenever it ends, the n-th of its
\* requests is the n-th that is handled or lost, and none is lost but right
\* behind an upload that is streamed (mg_http_handler, the multipart parser
\* that empties recv_mbuf, the web socket frames and the request found at the
\* close).
THEOREM RequestsInOrder ==
  ASSUME Registered
  PROVE  Spec => []HandledInOrder
  <1>1. IInv => HandledInOrder
    BY DEF IInv, Good, Numbered, HandledInOrder
  <1>2. QED
    BY <1>1, Invariant, PTL

\* Whatever the pieces the stream comes in, the order of polls and writes, and
\* the sizes of the file and the send buffer: a client that waits for each
\* answer and stays to read has, when the server closes the connection, exactly
\* the answers to the requests handled.  So MG_F_SEND_AND_CLOSE never cuts an
\* answer, and the file of the next request never replaces one being sent.
THEOREM NoAnswerCut ==
  ASSUME Registered
  PROVE  Spec => []AnswersWhole
  <1>1. Init => IInv /\ TellInv
    BY InitGood, InitTold
  <1>2. IInv /\ TellInv /\ [Next]_vars => (IInv /\ TellInv)'
    BY NextGood, NextTold
  <1>3. TellInv => AnswersWhole
    BY DEF TellInv, Told, Attended, AnswersWhole, HandledOpen
  <1>4. QED
    BY <1>1, <1>2, <1>3, PTL DEF Spec
=============================================================================
