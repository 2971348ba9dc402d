---------------------------- MODULE MCWebServer ----------------------------
(* One client of every kind, or two that share the server.                 *)
EXTENDS WebServer

Alone ==
  { << "hello", "missing" >>, << "file", "hello" >>, << "file", "post" >>,
    << "fileclose" >>, << "system", "hello" >>, << "stream", "hello" >>,
    << "upgrade", "frame", "frame" >>, << "file", "upgrade", "frame" >>,
    << "upload", "hello", "missing" >>, << "file", "upload" >>, << "hello", "bad" >> }

\* A factory is registered in the builds that stream; others never ask for it.
AllBuilds == [streaming : BOOLEAN, mpFactory : BOOLEAN, wsFactory : BOOLEAN]
MCBuilds == { b \in AllBuilds : b.mpFactory = b.streaming }
NoFactory == { b \in AllBuilds : b.streaming /\ ~b.mpFactory }

MCConns == {1, 2}
MCWorkloads ==
  { << s, << >> >> : s \in Alone } \cup { << << "upload" >>, << "upload" >> >> }
=============================================================================
