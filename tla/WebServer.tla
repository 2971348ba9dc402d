------------------------------ MODULE WebServer ------------------------------
(***************************************************************************)
(* The web server of the MMU viewer (main/WebServer.cpp, the handlers of   *)
(* main/RequestManager.cpp) on the poll loop of mongoose, with its         *)
(* clients.  TCP is external: it delivers in order and in any pieces.      *)
(*                                                                         *)
(* main/WebServer.cpp switches the streaming of uploads on for itself      *)
(* only; a build that streams has it in mongoose.c too.  The two factories *)
(* are registered by the user of the server, or not.                       *)
(***************************************************************************)
EXTENDS MongooseHttp

Seqs == INSTANCE SequencesExt

CONSTANTS
  Conns,          \* connections, each used once
  Workloads,      \* the requests each client sends, in the cases considered
  Builds          \* the builds and registrations considered

\* A client that has asked for a web socket sends nothing but frames.
FramesAfterUpgrade(script) ==
  \A i, j \in DOMAIN script :
    i < j /\ script[i] \in {"upgrade", "frame"} => script[j] = "frame"

ASSUME WorkloadsAssumption ==
  \A w \in Workloads :
    w \in [Conns -> Seq(Kinds)] /\ \A c \in Conns : FramesAfterUpgrade(w[c])

ASSUME BuildsAssumption ==
  Builds \subseteq
    [streaming : BOOLEAN, mpFactory : BOOLEAN, wsFactory : BOOLEAN]

VARIABLES conn    \* the connections, with their clients

vars == conn

Unused(script, build) ==
  [ st |-> "none",              \* then "backlog", "open", "closed"
    script |-> script, polite |-> TRUE, client |-> "sending",
    next |-> << 1, 1 >>,        \* the token the client sends next
    net |-> << >>, got |-> << >>,
    in |-> << >>,               \* recv_mbuf
    out |-> << >>,              \* send_mbuf
    flags |-> {}, file |-> NoFile, ws |-> FALSE,
    upload |-> 0,               \* the multipart request in progress
    handled |-> << >>,          \* requests given to the event handler, or lost
    ud |-> Listener,            \* user_data
    made |-> {}, dead |-> {},   \* user data allocated, and deleted
    build |-> build ]

Init ==
  \E w \in Workloads : \E build \in Builds :
    conn = [c \in Conns |-> Unused(w[c], build)]

-----------------------------------------------------------------------------
(* Clients *)

\* The token after t: of the same request or of the next one.
After(script, t) ==
  IF t[2] < Size(script[t[1]]) THEN << t[1], t[2] + 1 >> ELSE << t[1] + 1, 1 >>

\* Everything the server answers to the first n requests.
Answers(script, n) == Seqs!FlattenSeq([m \in 1..n |-> Answer(m, script[m])])

Connect(c) ==
  /\ conn[c].st = "none" /\ conn[c].script # << >>
  /\ \E polite \in BOOLEAN :
       conn' = [conn EXCEPT ![c] =
                  [@ EXCEPT !.st = "backlog", !.polite = polite]]

Alive(c) == conn[c].st \in {"backlog", "open"} /\ conn[c].client = "sending"

\* A polite client sends a request when it has the answers to the others.
SendToken(c) ==
  /\ Alive(c) /\ conn[c].next[1] <= Len(conn[c].script)
  /\ LET t == conn[c].next
         before == SubSeq(conn[c].script, 1, t[1] - 1)
     IN  /\ conn[c].polite /\ t[2] = 1 =>
              /\ conn[c].got = Answers(before, Len(before))
              /\ \A i \in DOMAIN before : before[i] # "system"
         /\ conn' = [conn EXCEPT ![c].next = After(conn[c].script, t),
                                 ![c].net = Append(@, t)]

\* The client shuts its side down and goes on reading.
Finish(c) ==
  /\ Alive(c)
  /\ conn' = [conn EXCEPT ![c].client = "finished"]

\* The client is gone: what it has not delivered is lost.
Abort(c) ==
  /\ conn[c].st \in {"backlog", "open"} /\ conn[c].client # "gone"
  /\ conn' = [conn EXCEPT ![c].client = "gone", ![c].net = << >>]

-----------------------------------------------------------------------------
(* The server task *)

\* Each connection starts with the user data of the listener.
mg_accept_conn(c) ==
  /\ conn[c].st = "backlog"
  /\ conn' = [conn EXCEPT ![c].st = "open", ![c].ud = Listener]

\* mg_mgr_handle_conn and the close pass.  Only a buffer that had something
\* before the poll is written.
PollWrites(c, k) ==
  /\ conn[c].st = "open"
  /\ \E r \in {Receive(conn[c])} :
     \E d \in {IF conn[c].net = << >> THEN r ELSE OnRecv(r)} :
     \E w \in {IF conn[c].out = << >> \/ d.out = << >> \/ k = 0 THEN d
               ELSE mg_write_to_socket(d, k)} :
       conn' = [conn EXCEPT ![c] =
                  ClosePass(IF "close_immediately" \in d.flags THEN d
                            ELSE OnEvent(w))]

\* One connection's turn in mg_socket_if_poll.  Connections share nothing but
\* the listener's user data, so the close pass of a connection is part of it.
Poll(c) == \E k \in {0, 1, SendMax + 1} : PollWrites(c, k)

Next ==
  \E c \in Conns :
    \/ Connect(c) \/ SendToken(c) \/ Finish(c) \/ Abort(c)
    \/ mg_accept_conn(c) \/ Poll(c)

\* The server's loop runs, and a client that is there reads what it is sent.
Fairness ==
  \A c \in Conns : WF_vars(mg_accept_conn(c)) /\ WF_vars(PollWrites(c, 1))

Spec == Init /\ [][Next]_vars /\ Fairness

-----------------------------------------------------------------------------
(* Properties *)

\* The connections are what mongoose and the server can make of them.
TypeOK ==
  \A c \in Conns :
    /\ conn[c].st \in {"none", "backlog", "open", "closed"}
    /\ conn[c].client \in {"sending", "finished", "gone"}
    /\ conn[c].flags \subseteq {"send_and_close", "close_immediately"}
    /\ conn[c].file.sent \in 0..FileLen
    /\ conn[c].ud \in {Listener} \cup conn[c].made
    /\ conn[c].dead \subseteq conn[c].made
    /\ conn[c].upload \in 0..Len(conn[c].script)

\* The event handler casts user_data without a check: whatever the order of
\* uploads, upgrades and losses of connections, the user data of an open
\* connection, and the one the others share, was not deleted; and what was
\* made for an upload does not outlive the connection
\* (MG_EV_HTTP_MULTIPART_REQUEST_END, WebServer.cpp).
UserDataLive ==
  \A c \in Conns :
    /\ Listener \notin conn[c].dead
    /\ conn[c].st = "open" => conn[c].ud \notin conn[c].dead
    /\ conn[c].st = "closed" => conn[c].made \subseteq conn[c].dead \cup {WsData}

\* The listener's user data, which every connection starts with, is never
\* deleted ("Save the WebServer instance reference in user_data",
\* WebServer.cpp:355).
ListenerSaved == \A c \in Conns : Listener \notin conn[c].dead

\* Request i was behind an upload, in the same buffer.
BehindUpload(c, i) ==
  /\ c.build.streaming /\ i > 1
  /\ \/ c.handled[i - 1][2] = "lost"
     \/ c.script[i - 1] = "upload" /\ c.handled[i - 1][2] = "whole"

\* However the stream is cut in pieces and whenever it ends, the requests of a
\* client reach the event handler once each and in the order sent, and those
\* that do not are the ones right behind a streamed upload, which were there
\* when it ended (mg_http_handler and its mbuf_remove, mg_http_multipart_continue
\* and its own, and the request found at the close).
HandledInOrder ==
  \A c \in Conns : \A i \in DOMAIN conn[c].handled :
    /\ conn[c].handled[i][1] = i
    /\ conn[c].handled[i][2] = "lost" => BehindUpload(conn[c], i)

HandledOpen(c) == Cardinality({ i \in DOMAIN conn[c].handled :
                                  conn[c].handled[i][2] = "whole" })

\* A client that waits for each answer, and stays to read, has received
\* exactly the answers to the requests handled, whole and in order, when the
\* server closes the connection: a flag set to close never cuts an answer or
\* a file that is sent in parts (MG_F_SEND_AND_CLOSE).
AnswersWhole ==
  \A c \in Conns :
    conn[c].st = "closed" /\ conn[c].polite /\ conn[c].client # "gone" =>
      conn[c].got = Answers(conn[c].script, HandledOpen(c))

\* A connection whose client has finished or is gone is given up by the
\* server, an unfinished upload or file notwithstanding.
Reclaimed ==
  \A c \in Conns : (conn[c].client # "sending") ~> (conn[c].st = "closed")

Sent(c, n) == conn[c].next[1] > n

\* A polite client that has sent a whole request to which there is an answer
\* gets all of it, unless the connection ends.
Served ==
  \A c \in Conns : \A n \in 1..3 :
    (/\ conn[c].st # "none" /\ n <= Len(conn[c].script) /\ Sent(c, n)
     /\ conn[c].polite /\ conn[c].script[n] \notin {"system", "stream", "bad"})
    ~> (\/ conn[c].st = "closed"
        \/ \E m \in n..Len(conn[c].script) :
             conn[c].got = Answers(conn[c].script, m))
=============================================================================
