------------------------- MODULE WifiStation_proofs -------------------------
(***************************************************************************)
(* Proofs about WifiStation, of both programs and for every number of      *)
(* retries.                                                                *)
(***************************************************************************)
EXTENDS WifiStation, SequenceTheorems, TLAPS

\* Where main stands says which handlers are registered and whether the event
\* group is there; a handler only runs while it is registered.
Phases ==
  /\ main \in {"setup", "start"} => link = "off" /\ bits = {}
  /\ main \in {"unregister ip", "unregister wifi", "delete"} => program = "wifi"
  /\ group = (IF main = "setup" THEN "none"
              ELSE IF main = "done" /\ program = "wifi" THEN "deleted" ELSE "live")
  /\ handlers = (IF main \in {"setup", "delete"} \/ group = "deleted" THEN {}
                 ELSE IF main = "unregister wifi" THEN {"WIFI_EVENT"} ELSE Registered)
  /\ handling # NoEvent => Base(handling) \in handlers
  /\ link # "off" => main \notin {"setup", "start"}
  /\ verdict = {} <=> main \in {"setup", "start", "wait", "blocked"}

\* The events on their way, the one being handled included, follow from the
\* link: every start or loss of it is answered by one attempt.
Quiet       == handling = NoEvent /\ events = << >>
Awaiting(e) == (handling = e /\ events = << >>) \/ (handling = NoEvent /\ events = << e >>)
AddressThenLoss ==
  \/ handling = "got_ip" /\ events = << "disconnected" >>
  \/ handling = NoEvent /\ events = << "got_ip", "disconnected" >>
AddressNews == Awaiting("got_ip") \/ AddressThenLoss

OneAttempt ==
  /\ link \in {"off", "connecting"} => Quiet
  /\ link = "up" => Quiet \/ Awaiting("got_ip")
  /\ link = "idle" => Quiet \/ Awaiting("start") \/ Awaiting("disconnected") \/ AddressThenLoss

\* s_retry_num counts the attempts that failed since the last address that was
\* handled, as long as all addresses are.
Counting ==
  /\ link = "off" \/ Awaiting("start") => failed = 0 /\ s_retry_num = 0 /\ ~hadIp
  /\ link = "up" \/ AddressNews => hadIp
  /\ handlers = Registered =>
       /\ link = "connecting" => s_retry_num <= failed + 1
       /\ link = "up" /\ Quiet => s_retry_num = 0
       /\ Awaiting("disconnected") => s_retry_num <= failed
  /\ ~hadIp =>
       /\ link = "connecting" => failed = s_retry_num
       /\ Awaiting("disconnected") => failed = s_retry_num + 1

\* The station gave up without ever having had an address.
GaveUp == ~hadIp /\ failed = MaxRetry + 1 /\ link = "idle" /\ Quiet

\* What the bits, and the result of waiting for them, say.
BitsTrue ==
  /\ CONNECTED \in bits \cup verdict => hadIp
  /\ FAIL \in bits \cup verdict => program = "wifi"
  /\ verdict # {} /\ program = "wifi" => bits # {}
  /\ program = "wifi" /\ hadIp /\ handlers = Registered /\ CONNECTED \notin bits => AddressNews
  /\ bits = {FAIL} \/ verdict = {FAIL} => GaveUp

IInv == TypeOK /\ Phases /\ OneAttempt /\ Counting /\ BitsTrue

USE MaxRetryAssumption

-----------------------------------------------------------------------------

\* The initial states satisfy the invariant.
LEMMA InitIInv == Init => IInv
  <1> SUFFICES ASSUME Init PROVE IInv
    OBVIOUS
  <1> USE DEF Init, WifiInit
  <1>1. TypeOK
    <2>1. /\ events \in Seq(Events) /\ Len(events) <= 2
          /\ failed \in Nat /\ s_retry_num \in 0 .. MaxRetry
      OBVIOUS
    <2>2. hadIp \in BOOLEAN
      OBVIOUS
    <2>3. handlers \subseteq {"WIFI_EVENT", "IP_EVENT"} /\ handling \in Events \cup {NoEvent}
          /\ bits \subseteq {CONNECTED, FAIL} /\ verdict \subseteq {CONNECTED, FAIL}
      OBVIOUS
    <2>4. QED
      BY <2>1, <2>2, <2>3 DEF TypeOK
  <1>2. Phases
    BY DEF Phases, NoEvent
  <1>3. OneAttempt
    BY DEF OneAttempt, Quiet
  <1>4. Counting
    BY DEF Counting, AddressNews, AddressThenLoss, Awaiting, NoEvent
  <1>5. BitsTrue
    BY DEF BitsTrue, CONNECTED, FAIL
  <1>6. QED
    BY <1>1, <1>2, <1>3, <1>4, <1>5 DEF IInv

\* What can wait in the loop.
LEMMA Shapes ==
  ASSUME IInv
  PROVE  \/ events = << >>
         \/ \E e \in Events : events = << e >>
         \/ events = << "got_ip", "disconnected" >>
  BY DEF IInv, TypeOK, OneAttempt, Quiet, Awaiting, AddressThenLoss, Events

\* The main task: wifi_init_sta and app_main.
LEMMA MainStep ==
  ASSUME IInv, MainTask
  PROVE  IInv'
  <1> USE DEF IInv, TypeOK, Phases, OneAttempt, Counting, BitsTrue, Quiet, Awaiting, AddressNews,
              AddressThenLoss, GaveUp, Events, NoEvent, CONNECTED, FAIL, Registered, Base
  <1>1. CASE Setup
    BY <1>1 DEF Setup
  <1>2. CASE StartWifi
    BY <1>2 DEF StartWifi, WifiStart, Post
  <1>3. CASE WaitBits
    <2> USE <1>3 DEF WaitBits, wifiVars, AfterWait
    <2>1. TypeOK'
      OBVIOUS
    <2>2. Phases'
      OBVIOUS
    <2>3. OneAttempt' /\ Counting'
      OBVIOUS
    <2>4. BitsTrue'
      OBVIOUS
    <2>5. QED
      BY <2>1, <2>2, <2>3, <2>4
  <1>4. CASE UnregisterIp
    BY <1>4 DEF UnregisterIp, Unregister
  <1>5. CASE UnregisterWifi
    BY <1>5 DEF UnregisterWifi, Unregister
  <1>6. CASE DeleteGroup
    BY <1>6 DEF DeleteGroup, wifiVars
  <1>7. QED
    BY <1>1, <1>2, <1>3, <1>4, <1>5, <1>6 DEF MainTask, WifiInitSta, MmuAppMain

\* Appending the loss to an address that still waits.
LEMMA AppendLoss ==
  Append(<< "got_ip" >>, "disconnected") = << "got_ip", "disconnected" >>
  <1> DEFINE S == {"got_ip", "disconnected"}
             s == Append(<< "got_ip" >>, "disconnected")
             t == << "got_ip", "disconnected" >>
  <1>1. << "got_ip" >> \in Seq(S) /\ t \in Seq(S) /\ Len(t) = 2
    OBVIOUS
  <1>2. s \in Seq(S) /\ Len(s) = 2 /\ s[1] = "got_ip" /\ s[2] = "disconnected"
    BY <1>1
  <1>3. t[1] = "got_ip" /\ t[2] = "disconnected"
    OBVIOUS
  <1> HIDE DEF s, t, S
  <1>4. s = t
    BY <1>1, <1>2, <1>3, SeqEqual
  <1>5. QED
    BY <1>4 DEF s, t

\* Quiet, Awaiting(e) and AddressThenLoss exclude each other.
Exclusive ==
  /\ \A e \in Events : Awaiting(e) => ~Quiet /\ ~AddressThenLoss
  /\ \A e, f \in Events : Awaiting(e) /\ Awaiting(f) => e = f
  /\ ~(Quiet /\ AddressThenLoss)

\* In every state, and so in the next one.
LEMMA AlwaysExclusive == Exclusive /\ Exclusive'
  BY DEF Exclusive, Quiet, Awaiting, AddressThenLoss, Events, NoEvent

\* What a step does to the events on their way.
LEMMA EventsMove ==
  ASSUME IInv
  PROVE  /\ HandleStart => Awaiting("start") /\ Quiet'
         /\ Retry \/ GiveUp => Awaiting("disconnected") /\ Quiet'
         /\ GotIp => \/ Awaiting("got_ip") /\ Quiet'
                     \/ AddressThenLoss /\ Awaiting("disconnected")'
         /\ Dispatch =>
              \/ \E e \in Events :
                   Awaiting(e) /\ (Awaiting(e)' \/ (Quiet' /\ Base(e) \notin handlers))
              \/ AddressThenLoss /\ AddressThenLoss'
              \/ AddressThenLoss /\ Awaiting("disconnected")' /\ "IP_EVENT" \notin handlers
         /\ AttemptSucceeds => Quiet /\ Awaiting("got_ip")'
         /\ AttemptFails => Quiet /\ Awaiting("disconnected")'
         /\ LinkLost => \/ Quiet /\ Awaiting("disconnected")'
                        \/ Awaiting("got_ip") /\ AddressThenLoss'
  <1> USE DEF IInv, OneAttempt, Quiet, Awaiting, AddressThenLoss, Events, NoEvent
  <1>1. HandleStart => Awaiting("start") /\ Quiet'
    BY DEF HandleStart, WifiConnect, TypeOK
  <1>2. Retry \/ GiveUp => Awaiting("disconnected") /\ Quiet'
    BY DEF Retry, GiveUp, WifiConnect, TypeOK
  <1>3. GotIp => \/ Awaiting("got_ip") /\ Quiet'
                 \/ AddressThenLoss /\ Awaiting("disconnected")'
    BY DEF GotIp, TypeOK
  <1>4. ASSUME Dispatch
        PROVE  \/ \E e \in Events :
                    Awaiting(e) /\ (Awaiting(e)' \/ (Quiet' /\ Base(e) \notin handlers))
               \/ AddressThenLoss /\ AddressThenLoss'
               \/ AddressThenLoss /\ Awaiting("disconnected")' /\ "IP_EVENT" \notin handlers
    <2>1. ASSUME NEW e \in Events, events = << e >>
          PROVE  Awaiting(e) /\ (Awaiting(e)' \/ (Quiet' /\ Base(e) \notin handlers))
      BY <1>4, <2>1 DEF Dispatch, Base
    <2>2. ASSUME events = << "got_ip", "disconnected" >>
          PROVE  \/ AddressThenLoss /\ AddressThenLoss'
                 \/ AddressThenLoss /\ Awaiting("disconnected")' /\ "IP_EVENT" \notin handlers
      BY <1>4, <2>2 DEF Dispatch, Base
    <2>3. events # << >>
      BY <1>4 DEF Dispatch
    <2>4. QED
      BY <2>1, <2>2, <2>3, Shapes
  <1>5. AttemptSucceeds => Quiet /\ Awaiting("got_ip")'
    BY DEF AttemptSucceeds, Post
  <1>6. AttemptFails => Quiet /\ Awaiting("disconnected")'
    BY DEF AttemptFails, Post
  <1>7. LinkLost => \/ Quiet /\ Awaiting("disconnected")'
                    \/ Awaiting("got_ip") /\ AddressThenLoss'
    <2> SUFFICES ASSUME LinkLost
                 PROVE  \/ Quiet /\ Awaiting("disconnected")'
                        \/ Awaiting("got_ip") /\ AddressThenLoss'
      OBVIOUS
    <2>1. Append(<< >>, "disconnected") = << "disconnected" >>
      OBVIOUS
    <2>2. CASE Quiet
      BY <2>1, <2>2 DEF LinkLost, Post
    <2>3. CASE handling = "got_ip" /\ events = << >>
      BY <2>1, <2>3 DEF LinkLost, Post
    <2>4. CASE handling = NoEvent /\ events = << "got_ip" >>
      BY AppendLoss, <2>4 DEF LinkLost, Post
    <2>5. QED
      BY <2>2, <2>3, <2>4 DEF LinkLost
  <1>8. QED
    BY <1>1, <1>2, <1>3, <1>4, <1>5, <1>6, <1>7


\* The steps of the event task and of the driver, one conjunct after the other.
Driven ==
  \/ EventTask \/ Attempt
  \/ LinkLost /\ UNCHANGED << mainVars, bits, s_retry_num >>

\* While the handler runs, the station is started and the group is there.
LEMMA HandlerRuns ==
  ASSUME IInv, handling # NoEvent
  PROVE  main \notin {"setup", "start", "delete"} /\ group = "live" /\ link \in {"idle", "up"}
  BY DEF IInv, Phases, OneAttempt, Quiet, Registered, Base, TypeOK, NoEvent

\* The loop only holds events.
LEMMA HeadIsEvent ==
  ASSUME IInv, events # << >>
  PROVE  Head(events) \in Events
  <1>1. \A e \in Events : Head(<< e >>) = e
    OBVIOUS
  <1>2. Head(<< "got_ip", "disconnected" >>) = "got_ip"
    OBVIOUS
  <1>3. QED
    BY <1>1, <1>2, Shapes DEF Events

\* The parts of TypeOK, step by step: values of small sets ...
LEMMA NextFinite ==
  ASSUME IInv, Driven
  PROVE  /\ link' \in {"off", "idle", "connecting", "up"}
         /\ handlers' \subseteq {"WIFI_EVENT", "IP_EVENT"}
         /\ handling' \in Events \cup {NoEvent}
         /\ program' \in {"wifi", "mmu"}
         /\ main' \in {"setup", "start", "wait", "blocked", "unregister ip",
                       "unregister wifi", "delete", "done"}
         /\ group' \in {"none", "live", "deleted"}
         /\ bits' \subseteq {CONNECTED, FAIL} /\ verdict' \subseteq {CONNECTED, FAIL}
  <1> USE DEF IInv, TypeOK
  <1>1. CASE HandleStart
    BY <1>1, HeadIsEvent DEF HandleStart, WifiConnect, mainVars
  <1>2. CASE Retry
    BY <1>2, HeadIsEvent DEF Retry, RetriesLeft, WifiConnect, mainVars
  <1>3. CASE GiveUp
    BY <1>3, HeadIsEvent DEF GiveUp, RetriesLeft, SetBits, BitsAfterGivingUp, AfterWait
  <1>4. CASE GotIp
    BY <1>4, HeadIsEvent DEF GotIp, RetriesAfterIp, SetBits, AfterWait
  <1>5. CASE Dispatch /\ UNCHANGED << mainVars, bits, s_retry_num >>
    BY <1>5, HeadIsEvent DEF Dispatch, mainVars
  <1>6. CASE AttemptSucceeds /\ UNCHANGED << mainVars, bits, s_retry_num >>
    BY <1>6, HeadIsEvent DEF AttemptSucceeds, Post, mainVars
  <1>7. CASE AttemptFails /\ UNCHANGED << mainVars, bits, s_retry_num >>
    BY <1>7, HeadIsEvent DEF AttemptFails, Post, mainVars
  <1>8. CASE LinkLost /\ UNCHANGED << mainVars, bits, s_retry_num >>
    BY <1>8, HeadIsEvent DEF LinkLost, Post, mainVars
  <1>9. QED
    BY <1>1, <1>2, <1>3, <1>4, <1>5, <1>6, <1>7, <1>8 DEF Driven, EventTask, EventHandler, Attempt

\* ... the loop ...
LEMMA NextEvents ==
  ASSUME IInv, Driven
  PROVE  events' \in Seq(Events) /\ Len(events') <= 2
  <1>a. events \in Seq(Events) /\ Len(events) <= 2
    BY DEF IInv, TypeOK
  <1>b. /\ << "got_ip", "disconnected" >> \in Seq(Events) /\ Len(<< "got_ip", "disconnected" >>) = 2
        /\ << "disconnected" >> \in Seq(Events) /\ Len(<< "disconnected" >>) = 1
        /\ << >> \in Seq(Events) /\ Len(<< >>) = 0
    BY DEF Events
  <1> USE DEF Quiet, Awaiting, AddressThenLoss, Events
  <1>1. CASE HandleStart
    BY <1>1, EventsMove DEF HandleStart, WifiConnect, mainVars
  <1>2. CASE Retry
    BY <1>2, EventsMove DEF Retry, RetriesLeft, WifiConnect, mainVars
  <1>3. CASE GiveUp
    BY <1>a, <1>3 DEF GiveUp
  <1>4. CASE GotIp
    BY <1>a, <1>4 DEF GotIp
  <1>5. CASE Dispatch /\ UNCHANGED << mainVars, bits, s_retry_num >>
    BY <1>5, EventsMove DEF Dispatch, mainVars
  <1>6. CASE AttemptSucceeds /\ UNCHANGED << mainVars, bits, s_retry_num >>
    BY <1>6, EventsMove DEF AttemptSucceeds, Post, mainVars
  <1>7. CASE AttemptFails /\ UNCHANGED << mainVars, bits, s_retry_num >>
    BY <1>7, EventsMove DEF AttemptFails, Post, mainVars
  <1>8. CASE LinkLost /\ UNCHANGED << mainVars, bits, s_retry_num >>
    <2>1. \/ events' = << >> \/ events' = << "disconnected" >>
          \/ events' = << "got_ip", "disconnected" >>
      BY <1>8, EventsMove
    <2>2. CASE events' = << >>
      BY <2>2
    <2>3. CASE events' = << "disconnected" >>
      BY <1>b, <2>3
    <2>4. CASE events' = << "got_ip", "disconnected" >>
      BY <1>b, <2>4
    <2>5. QED
      BY <2>1, <2>2, <2>3, <2>4
  <1>9. QED
    BY <1>1, <1>2, <1>3, <1>4, <1>5, <1>6, <1>7, <1>8 DEF Driven, EventTask, EventHandler, Attempt

\* ... the history variable ...
LEMMA NextHadIp ==
  ASSUME IInv, Driven
  PROVE  hadIp' \in BOOLEAN
  <1>a. hadIp \in BOOLEAN
    BY DEF IInv, TypeOK
  <1>1. CASE HandleStart
    BY <1>a, <1>1 DEF HandleStart, WifiConnect, mainVars
  <1>2. CASE Retry
    BY <1>a, <1>2 DEF Retry, RetriesLeft, WifiConnect, mainVars
  <1>3. CASE GiveUp
    BY <1>a, <1>3 DEF GiveUp, RetriesLeft, SetBits, BitsAfterGivingUp, AfterWait
  <1>4. CASE GotIp
    BY <1>a, <1>4 DEF GotIp, RetriesAfterIp, SetBits, AfterWait
  <1>5. CASE Dispatch /\ UNCHANGED << mainVars, bits, s_retry_num >>
    BY <1>a, <1>5 DEF Dispatch, mainVars
  <1>6. CASE AttemptSucceeds /\ UNCHANGED << mainVars, bits, s_retry_num >>
    BY <1>a, <1>6 DEF AttemptSucceeds, Post, mainVars
  <1>7. CASE AttemptFails /\ UNCHANGED << mainVars, bits, s_retry_num >>
    BY <1>a, <1>7 DEF AttemptFails, Post, mainVars
  <1>8. CASE LinkLost /\ UNCHANGED << mainVars, bits, s_retry_num >>
    BY <1>a, <1>8 DEF LinkLost, Post, mainVars
  <1>9. QED
    BY <1>1, <1>2, <1>3, <1>4, <1>5, <1>6, <1>7, <1>8 DEF Driven, EventTask, EventHandler, Attempt

\* ... and the two counters.
LEMMA NextNumbers ==
  ASSUME IInv, Driven
  PROVE  failed' \in Nat /\ s_retry_num' \in 0 .. MaxRetry
  <1>a. failed \in Nat /\ s_retry_num \in 0 .. MaxRetry
    BY DEF IInv, TypeOK
  <1>1. CASE HandleStart
    BY <1>a, <1>1 DEF HandleStart, WifiConnect, mainVars
  <1>2. CASE Retry
    BY <1>a, <1>2 DEF Retry, RetriesLeft, WifiConnect, mainVars
  <1>3. CASE GiveUp
    BY <1>a, <1>3 DEF GiveUp, RetriesLeft, SetBits, BitsAfterGivingUp, AfterWait
  <1>4. CASE GotIp
    BY <1>a, <1>4 DEF GotIp, RetriesAfterIp
  <1>5. CASE Dispatch /\ UNCHANGED << mainVars, bits, s_retry_num >>
    BY <1>a, <1>5 DEF Dispatch, mainVars
  <1>6. CASE AttemptSucceeds /\ UNCHANGED << mainVars, bits, s_retry_num >>
    BY <1>a, <1>6 DEF AttemptSucceeds, Post, mainVars
  <1>7. CASE AttemptFails /\ UNCHANGED << mainVars, bits, s_retry_num >>
    BY <1>a, <1>7 DEF AttemptFails, Post, mainVars
  <1>8. CASE LinkLost /\ UNCHANGED << mainVars, bits, s_retry_num >>
    BY <1>a, <1>8 DEF LinkLost, Post, mainVars
  <1>9. QED
    BY <1>1, <1>2, <1>3, <1>4, <1>5, <1>6, <1>7, <1>8 DEF Driven, EventTask, EventHandler, Attempt

\* The bits end the wait.
LEMMA AfterBlocked ==
  ASSUME Phases, TypeOK, main = "blocked", main' = AfterWait, verdict' # {},
         UNCHANGED << program, group, handlers, link >>, handling' = NoEvent
  PROVE  Phases'
  <1>1. CASE program = "mmu"
    BY <1>1 DEF Phases, AfterWait
  <1>2. CASE program = "wifi"
    BY <1>2 DEF Phases, AfterWait
  <1>3. QED
    BY <1>1, <1>2 DEF TypeOK

\* Phases: the handler moves main only from the wait to what follows it.
LEMMA NextPhases ==
  ASSUME IInv, Driven
  PROVE  Phases'
  <1>a. Phases /\ TypeOK
    BY DEF IInv
  <1> USE DEF NoEvent, Phases, Registered, Base
  <1>1. CASE HandleStart
    BY <1>a, <1>1, HandlerRuns, HeadIsEvent DEF HandleStart, WifiConnect, mainVars
  <1>2. CASE Retry
    BY <1>a, <1>2, HandlerRuns, HeadIsEvent DEF Retry, RetriesLeft, WifiConnect, mainVars
  <1>3. CASE GiveUp
    <2>1. CASE main = "blocked" /\ BitsAfterGivingUp # {}
      <3>1. main' = AfterWait /\ verdict' # {} /\ UNCHANGED << program, group, handlers, link >>
            /\ handling' = NoEvent
        BY <1>3, <2>1 DEF GiveUp, SetBits
      <3>2. QED
        BY <1>a, <2>1, <3>1, AfterBlocked
    <2>2. CASE ~(main = "blocked" /\ BitsAfterGivingUp # {})
      BY <1>a, <1>3, <2>2, HandlerRuns DEF GiveUp, SetBits
    <2>3. QED
      BY <2>1, <2>2
  <1>4. CASE GotIp
    <2>1. CASE main = "blocked"
      <3>1. main' = AfterWait /\ verdict' # {} /\ UNCHANGED << program, group, handlers, link >>
            /\ handling' = NoEvent
        BY <1>4, <2>1 DEF GotIp, SetBits
      <3>2. QED
        BY <1>a, <2>1, <3>1, AfterBlocked
    <2>2. CASE main # "blocked"
      BY <1>a, <1>4, <2>2, HandlerRuns DEF GotIp, SetBits
    <2>3. QED
      BY <2>1, <2>2
  <1>5. CASE Dispatch /\ UNCHANGED << mainVars, bits, s_retry_num >>
    BY <1>a, <1>5, HandlerRuns, HeadIsEvent DEF Dispatch, mainVars
  <1>6. CASE AttemptSucceeds /\ UNCHANGED << mainVars, bits, s_retry_num >>
    BY <1>a, <1>6, HandlerRuns, HeadIsEvent DEF AttemptSucceeds, Post, mainVars
  <1>7. CASE AttemptFails /\ UNCHANGED << mainVars, bits, s_retry_num >>
    BY <1>a, <1>7, HandlerRuns, HeadIsEvent DEF AttemptFails, Post, mainVars
  <1>8. CASE LinkLost /\ UNCHANGED << mainVars, bits, s_retry_num >>
    BY <1>a, <1>8, HandlerRuns, HeadIsEvent DEF LinkLost, Post, mainVars
  <1>9. QED
    BY <1>1, <1>2, <1>3, <1>4, <1>5, <1>6, <1>7, <1>8 DEF Driven, EventTask, EventHandler, Attempt

\* OneAttempt: an event is posted only when the link moves.
LEMMA NextOneAttempt ==
  ASSUME IInv, Driven
  PROVE  OneAttempt'
  <1>a. OneAttempt
    BY DEF IInv
  <1> USE DEF OneAttempt, Exclusive, Events
  <1>1. CASE HandleStart
    BY <1>a, <1>1, EventsMove, AlwaysExclusive DEF HandleStart, WifiConnect, mainVars
  <1>2. CASE Retry
    BY <1>a, <1>2, EventsMove, AlwaysExclusive DEF Retry, RetriesLeft, WifiConnect, mainVars
  <1>3. CASE GiveUp
    BY <1>a, <1>3, EventsMove, AlwaysExclusive DEF GiveUp, RetriesLeft, SetBits, BitsAfterGivingUp, AfterWait
  <1>4. CASE GotIp
    BY <1>a, <1>4, EventsMove, AlwaysExclusive DEF GotIp, RetriesAfterIp, SetBits, AfterWait
  <1>5. CASE Dispatch /\ UNCHANGED << mainVars, bits, s_retry_num >>
    BY <1>a, <1>5, EventsMove, AlwaysExclusive DEF Dispatch, mainVars
  <1>6. CASE AttemptSucceeds /\ UNCHANGED << mainVars, bits, s_retry_num >>
    BY <1>a, <1>6, EventsMove, AlwaysExclusive DEF AttemptSucceeds, Post, mainVars
  <1>7. CASE AttemptFails /\ UNCHANGED << mainVars, bits, s_retry_num >>
    BY <1>a, <1>7, EventsMove, AlwaysExclusive DEF AttemptFails, Post, mainVars
  <1>8. CASE LinkLost /\ UNCHANGED << mainVars, bits, s_retry_num >>
    BY <1>a, <1>8, EventsMove, AlwaysExclusive DEF LinkLost, Post, mainVars
  <1>9. QED
    BY <1>1, <1>2, <1>3, <1>4, <1>5, <1>6, <1>7, <1>8 DEF Driven, EventTask, EventHandler, Attempt

\* Counting: the attempts and the retries go up together.
LEMMA NextCounting ==
  ASSUME IInv, Driven
  PROVE  Counting'
  <1>a. OneAttempt /\ Counting
    BY DEF IInv
  <1>b. failed \in Nat /\ s_retry_num \in 0 .. MaxRetry
    BY DEF IInv, TypeOK
  <1>c. handling # NoEvent => link # "off" /\ link # "connecting"
    BY HandlerRuns
  <1> USE DEF OneAttempt, Counting, AddressNews, Exclusive, Events
  <1>1. CASE HandleStart
    BY <1>a, <1>b, <1>c, <1>1, EventsMove, AlwaysExclusive DEF HandleStart, WifiConnect, mainVars
  <1>2. CASE Retry
    BY <1>a, <1>b, <1>c, <1>2, EventsMove, AlwaysExclusive DEF Retry, RetriesLeft, WifiConnect, mainVars
  <1>3. CASE GiveUp
    BY <1>a, <1>b, <1>c, <1>3, EventsMove, AlwaysExclusive DEF GiveUp, RetriesLeft, SetBits, BitsAfterGivingUp, AfterWait
  <1>4. CASE GotIp
    BY <1>a, <1>b, <1>c, <1>4, EventsMove, AlwaysExclusive DEF GotIp, RetriesAfterIp
  <1>5. CASE Dispatch /\ UNCHANGED << mainVars, bits, s_retry_num >>
    <2>1. UNCHANGED << link, handlers, hadIp, failed, s_retry_num >>
      BY <1>5 DEF Dispatch, mainVars
    <2>2. Awaiting("start")' => Awaiting("start")
      BY <1>5, EventsMove, AlwaysExclusive
    <2>3. AddressNews' => AddressNews
      BY <1>5, EventsMove, AlwaysExclusive
    <2>4. Quiet' => handlers # Registered
      BY <1>5, EventsMove, AlwaysExclusive DEF Registered, Base
    <2>5. Awaiting("disconnected")' =>
            Awaiting("disconnected") \/ (AddressThenLoss /\ handlers # Registered)
      BY <1>5, EventsMove, AlwaysExclusive DEF Registered
    <2>6. QED
      BY <1>a, <1>b, <2>1, <2>2, <2>3, <2>4, <2>5
  <1>6. CASE AttemptSucceeds /\ UNCHANGED << mainVars, bits, s_retry_num >>
    BY <1>a, <1>b, <1>c, <1>6, EventsMove, AlwaysExclusive DEF AttemptSucceeds, Post, mainVars
  <1>7. CASE AttemptFails /\ UNCHANGED << mainVars, bits, s_retry_num >>
    BY <1>a, <1>b, <1>c, <1>7, EventsMove, AlwaysExclusive DEF AttemptFails, Post, mainVars
  <1>8. CASE LinkLost /\ UNCHANGED << mainVars, bits, s_retry_num >>
    BY <1>a, <1>b, <1>c, <1>8, EventsMove, AlwaysExclusive DEF LinkLost, Post, mainVars
  <1>9. QED
    BY <1>1, <1>2, <1>3, <1>4, <1>5, <1>6, <1>7, <1>8 DEF Driven, EventTask, EventHandler, Attempt

\* The step keeps what BitsTrue is about.
LEMMA BitsKept ==
  ASSUME BitsTrue,
         UNCHANGED << bits, verdict, program, hadIp, handlers >>,
         ~GaveUp,
         AddressNews /\ handlers = Registered => AddressNews'
  PROVE  BitsTrue'
  BY DEF BitsTrue

\* What is on its way rules out that the station gave up, or that it has news.
LEMMA Excluded ==
  /\ \A e \in Events : Awaiting(e) => ~GaveUp
  /\ AddressThenLoss => ~GaveUp
  /\ \A e \in Events : Awaiting(e) /\ e # "got_ip" => ~AddressNews
  /\ Quiet => ~AddressNews
  /\ link # "idle" => ~GaveUp
  BY AlwaysExclusive DEF Exclusive, Events, GaveUp, AddressNews

\* BitsTrue: only GotIp and GiveUp touch the bits.
LEMMA NextBitsTrue ==
  ASSUME IInv, Driven
  PROVE  BitsTrue'
  <1>a. OneAttempt /\ Counting /\ BitsTrue
    BY DEF IInv
  <1>1. CASE HandleStart
    <2>1. UNCHANGED << bits, verdict, program, hadIp, handlers >>
      BY <1>1 DEF HandleStart, WifiConnect, mainVars
    <2>2. Awaiting("start")
      BY <1>1, EventsMove
    <2>3. QED
      BY <1>a, <2>1, <2>2, Excluded, BitsKept DEF Events
  <1>2. CASE Retry
    <2>1. UNCHANGED << bits, verdict, program, hadIp, handlers >>
      BY <1>2 DEF Retry, WifiConnect, mainVars
    <2>2. Awaiting("disconnected")
      BY <1>2, EventsMove
    <2>3. QED
      BY <1>a, <2>1, <2>2, Excluded, BitsKept DEF Events
  <1>3. CASE GiveUp
    <2>1. Awaiting("disconnected") /\ Quiet'
      BY <1>3, EventsMove
    <2>2. ~hadIp => failed = MaxRetry + 1
      <3>1. s_retry_num \in 0 .. MaxRetry /\ failed \in Nat
        BY DEF IInv, TypeOK
      <3>2. ~hadIp => failed = s_retry_num + 1
        BY <1>a, <2>1 DEF Counting
      <3>3. ~(s_retry_num < MaxRetry)
        BY <1>3 DEF GiveUp, RetriesLeft
      <3>4. QED
        BY <3>1, <3>2, <3>3
    <2>3. link = "idle"
      BY <1>a, <2>1, AlwaysExclusive, HandlerRuns, <1>3
         DEF OneAttempt, Exclusive, Events, GiveUp, NoEvent
    <2>4. UNCHANGED << link, program, hadIp, handlers, failed >>
      BY <1>3 DEF GiveUp, SetBits
    <2>5. ~hadIp => GaveUp'
      BY <2>1, <2>2, <2>3, <2>4 DEF GaveUp
    <2>6. ~GaveUp /\ ~AddressNews
      BY <2>1, Excluded DEF Events
    <2>7. /\ bits' = BitsAfterGivingUp
          /\ verdict' = verdict \/ verdict' = bits'
      BY <1>3 DEF GiveUp, SetBits
    <2>8. CASE program = "mmu"
      <3>1. bits' = bits \ {CONNECTED}
        BY <2>7, <2>8 DEF BitsAfterGivingUp
      <3>2. QED
        BY <1>a, <2>4, <2>6, <2>7, <2>8, <3>1 DEF BitsTrue, CONNECTED, FAIL
    <2>9. CASE program # "mmu"
      <3>1. bits' = bits \cup {FAIL} /\ program = "wifi"
        BY <2>7, <2>9 DEF BitsAfterGivingUp, IInv, TypeOK
      <3>2. bits' = {FAIL} \/ verdict' = {FAIL} => ~hadIp
        <4>1. handlers # Registered => verdict # {}
          BY <3>1, <1>3 DEF IInv, Phases, GiveUp, Base, NoEvent
        <4>2. QED
          BY <1>a, <2>6, <2>7, <3>1, <4>1 DEF BitsTrue, CONNECTED, FAIL
      <3>3. QED
        BY <1>a, <2>4, <2>5, <2>6, <2>7, <3>1, <3>2 DEF BitsTrue, CONNECTED, FAIL
    <2>10. QED
      BY <2>8, <2>9
  <1>4. CASE GotIp
    BY <1>a, <1>4, EventsMove, AlwaysExclusive
       DEF GotIp, RetriesAfterIp, SetBits, AfterWait, OneAttempt, Counting, BitsTrue, AddressNews,
           Exclusive, GaveUp, CONNECTED, FAIL
  <1>5. CASE Dispatch /\ UNCHANGED << mainVars, bits, s_retry_num >>
    <2>1. UNCHANGED << bits, verdict, program, hadIp, handlers >>
      BY <1>5 DEF Dispatch, mainVars
    <2>2. ~GaveUp
      BY <1>5, EventsMove, Excluded
    <2>3. AddressNews /\ handlers = Registered => AddressNews'
      BY <1>5, EventsMove, AlwaysExclusive DEF AddressNews, Exclusive, Events, Base, Registered
    <2>4. QED
      BY <1>a, <2>1, <2>2, <2>3, BitsKept
  <1>6. CASE AttemptSucceeds /\ UNCHANGED << mainVars, bits, s_retry_num >>
    BY <1>a, <1>6, EventsMove, AlwaysExclusive
       DEF AttemptSucceeds, mainVars, OneAttempt, Counting, BitsTrue, AddressNews, Exclusive, GaveUp
  <1>7. CASE AttemptFails /\ UNCHANGED << mainVars, bits, s_retry_num >>
    <2>1. UNCHANGED << bits, verdict, program, hadIp, handlers >> /\ link = "connecting"
      BY <1>7 DEF AttemptFails, mainVars
    <2>2. Quiet
      BY <1>7, EventsMove
    <2>3. QED
      BY <1>a, <2>1, <2>2, Excluded, BitsKept
  <1>8. CASE LinkLost /\ UNCHANGED << mainVars, bits, s_retry_num >>
    <2>1. UNCHANGED << bits, verdict, program, hadIp, handlers >> /\ link = "up"
      BY <1>8 DEF LinkLost, mainVars
    <2>2. AddressNews => AddressNews'
      BY <1>8, EventsMove, Excluded DEF AddressNews
    <2>3. QED
      BY <1>a, <2>1, <2>2, Excluded, BitsKept
  <1>9. QED
    BY <1>1, <1>2, <1>3, <1>4, <1>5, <1>6, <1>7, <1>8 DEF Driven, EventTask, EventHandler, Attempt

\* Nothing happens.
LEMMA StutterStep ==
  ASSUME IInv, UNCHANGED vars
  PROVE  IInv'
  <1> USE DEF IInv, vars, wifiVars
  <1>1. TypeOK'
    BY DEF TypeOK
  <1>2. Phases'
    BY DEF Phases
  <1>3. OneAttempt'
    BY DEF OneAttempt, Quiet, Awaiting, AddressThenLoss
  <1>4. Counting'
    BY DEF Counting, Quiet, Awaiting, AddressNews, AddressThenLoss
  <1>5. BitsTrue'
    BY DEF BitsTrue, GaveUp, Quiet, Awaiting, AddressNews, AddressThenLoss
  <1>6. QED
    BY <1>1, <1>2, <1>3, <1>4, <1>5

\* Every step keeps the invariant.
LEMMA NextIInv ==
  ASSUME IInv, [Next]_vars
  PROVE  IInv'
  <1>1. CASE MainTask
    BY <1>1, MainStep
  <1>2. CASE Driven
    <2>1. TypeOK'
      BY <1>2, NextFinite, NextEvents, NextHadIp, NextNumbers DEF TypeOK
    <2>2. QED
      BY <1>2, <2>1, NextPhases, NextOneAttempt, NextCounting, NextBitsTrue DEF IInv
  <1>3. CASE UNCHANGED vars
    BY <1>3, StutterStep
  <1>4. QED
    BY <1>1, <1>2, <1>3 DEF Next, Driven

\* The invariant holds in every reachable state.
LEMMA Invariance == Spec => []IInv
  BY InitIInv, NextIInv, PTL DEF Spec

-----------------------------------------------------------------------------

\* TypeOK: the state of the driver, the event loop, the handler and the main
\* task is always of its type; in particular at most two events wait, and
\* s_retry_num is never above the maximum.
THEOREM TypeCorrect == Spec => []TypeOK
  <1>1. IInv => TypeOK
    BY DEF IInv
  <1>2. QED
    BY <1>1, Invariance, PTL

\* VerdictTrue: what xEventGroupWaitBits returns, connected or failed, is what
\* happened to the station, for every number of retries and in both programs.
THEOREM VerdictIsTrue == Spec => []VerdictTrue
  <1>1. IInv => VerdictTrue
    BY DEF IInv, BitsTrue, VerdictTrue, GaveUp, Quiet
  <1>2. QED
    BY <1>1, Invariance, PTL

\* GroupLive: event_handler never runs with the event group missing or deleted.
THEOREM GroupStaysLive == Spec => []GroupLive
  <1>1. IInv => GroupLive
    BY HandlerRuns DEF GroupLive
  <1>2. QED
    BY <1>1, Invariance, PTL

\* GivesUpLate: while both handlers are registered, the handler only gives up
\* when MaxRetry attempts in a row have failed since the last address.
THEOREM GivesUpOnlyLate == Spec => GivesUpLate
  <1>1. ASSUME IInv, [Next]_vars,
               handling = "disconnected", handling' = NoEvent, link' # "connecting",
               handlers = Registered
        PROVE  failed >= MaxRetry
    <2>1. GiveUp
      BY <1>1 DEF Next, vars, wifiVars, mainVars, MainTask, WifiInitSta, MmuAppMain, EventTask,
                  EventHandler, Attempt, Setup, StartWifi, WifiStart, WaitBits, UnregisterIp,
                  UnregisterWifi, Unregister, DeleteGroup, HandleStart, Retry, WifiConnect, GotIp,
                  Dispatch, AttemptSucceeds, AttemptFails, LinkLost, NoEvent
    <2>2. Awaiting("disconnected")
      BY <1>1, <2>1, EventsMove
    <2>3. s_retry_num <= failed
      BY <1>1, <2>2 DEF IInv, Counting
    <2>4. s_retry_num \in 0 .. MaxRetry /\ failed \in Nat
      BY <1>1 DEF IInv, TypeOK
    <2>5. ~(s_retry_num < MaxRetry)
      BY <2>1 DEF GiveUp, RetriesLeft
    <2>6. QED
      BY <2>3, <2>4, <2>5
  <1>2. IInv /\ [Next]_vars =>
          [(handling = "disconnected" /\ handling' = NoEvent /\ link' # "connecting"
            /\ handlers = Registered) => (failed >= MaxRetry)]_vars
    BY <1>1
  <1>3. QED
    BY <1>2, Invariance, PTL DEF Spec, GivesUpLate
=============================================================================
