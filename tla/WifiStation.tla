---------------------------- MODULE WifiStation ----------------------------
(***************************************************************************)
(* wifi/main/station_example_main.c: wifi_init_sta in the main task starts *)
(* the station and waits for event_handler, called in the event task, to   *)
(* say how it went.  The two share the event group s_wifi_event_group,     *)
(* which wifi_init_sta creates and in the end deletes.                     *)
(*                                                                         *)
(* Only event_handler uses s_retry_num, and nothing else of a call of it   *)
(* depends on the order of its statements: a call is one step, taken some  *)
(* time after the event was dispatched.                                    *)
(*                                                                         *)
(* The MMU viewer, mmu/main/main.cpp, starts the station in the same way.  *)
(* Its event_handler clears the bit when it gives up instead of setting    *)
(* one, and its app_main waits for the connection only, keeps the handlers *)
(* and the group, and starts the request manager.  program says which of   *)
(* the two a behaviour is of.                                              *)
(***************************************************************************)
EXTENDS EspWifi

CONSTANT MaxRetry   \* CONFIG_ESP_MAXIMUM_RETRY, 3 in the MMU viewer

ASSUME MaxRetryAssumption == MaxRetry \in Nat

VARIABLES
  program,       \* "wifi" or "mmu", fixed
  main,          \* where wifi_init_sta or app_main is
  group,         \* s_wifi_event_group: "none", "live" or "deleted"
  bits,          \* the bits set in it
  s_retry_num,
  verdict        \* the result of xEventGroupWaitBits, {} before it returns

mainVars == << program, main, group, verdict >>
vars == << wifiVars, program, main, group, bits, s_retry_num, verdict >>

CONNECTED == "WIFI_CONNECTED_BIT"
FAIL      == "WIFI_FAIL_BIT"

Init ==
  /\ WifiInit
  /\ program \in {"wifi", "mmu"}
  /\ main = "setup" /\ group = "none" /\ bits = {} /\ s_retry_num = 0
  /\ verdict = {}

-----------------------------------------------------------------------------
(* event_handler *)

HandleStart ==
  /\ handling = "start"
  /\ WifiConnect
  /\ handling' = NoEvent
  /\ UNCHANGED << mainVars, bits, s_retry_num >>

\* Slip: one retry too many.
RetriesLeftOneMore == s_retry_num <= MaxRetry

RetriesLeft == s_retry_num < MaxRetry

Retry ==
  /\ handling = "disconnected" /\ RetriesLeft
  /\ WifiConnect
  /\ s_retry_num' = s_retry_num + 1
  /\ handling' = NoEvent
  /\ UNCHANGED << mainVars, bits >>

\* xEventGroupSetBits: a task that is blocked on the group goes on with the bits
\* of this moment.  AfterWait is what follows the wait.
AfterWait == IF program = "mmu" THEN "done" ELSE "unregister ip"
SetBits(new) ==
  /\ bits' = new
  /\ IF main = "blocked" /\ new # {} THEN main' = AfterWait /\ verdict' = new
     ELSE UNCHANGED << main, verdict >>
  /\ UNCHANGED << program, group >>

\* Slip: giving up clears the other bit in both programs.
BitsAfterGivingUpCleared == bits \ {CONNECTED}

BitsAfterGivingUp ==
  IF program = "mmu" THEN bits \ {CONNECTED} ELSE bits \cup {FAIL}

GiveUp ==
  /\ handling = "disconnected" /\ ~RetriesLeft
  /\ SetBits(BitsAfterGivingUp)
  /\ handling' = NoEvent
  /\ UNCHANGED << link, events, handlers, hadIp, failed, s_retry_num >>

\* Slip: the retries are not counted from the beginning again.
RetriesKept == s_retry_num

RetriesAfterIp == 0

GotIp ==
  /\ handling = "got_ip"
  /\ s_retry_num' = RetriesAfterIp
  /\ SetBits(bits \cup {CONNECTED})
  /\ handling' = NoEvent
  /\ UNCHANGED << link, events, handlers, hadIp, failed >>

EventHandler == HandleStart \/ Retry \/ GiveUp \/ GotIp

-----------------------------------------------------------------------------
(* wifi_init_sta *)

\* Slip: the handler is only registered for IP events.
RegisteredIpOnly == {"IP_EVENT"}

Registered == {"WIFI_EVENT", "IP_EVENT"}

\* The group is created before the handlers that use it are registered.
Setup ==
  /\ main = "setup"
  /\ group' = "live" /\ handlers' = Registered
  /\ main' = "start"
  /\ UNCHANGED << link, events, handling, hadIp, failed, program, bits, s_retry_num, verdict >>

StartWifi ==
  /\ main = "start"
  /\ WifiStart
  /\ main' = "wait"
  /\ UNCHANGED << program, group, bits, s_retry_num, verdict >>

\* xEventGroupWaitBits without clearing, for any bit and without a timeout.
WaitBits ==
  /\ main = "wait"
  /\ IF bits # {} THEN verdict' = bits /\ main' = AfterWait
     ELSE verdict' = verdict /\ main' = "blocked"
  /\ UNCHANGED << wifiVars, program, group, bits, s_retry_num >>

Unregister(base, from, to) ==
  /\ main = from /\ handling = NoEvent
  /\ handlers' = handlers \ {base}
  /\ main' = to
  /\ UNCHANGED << link, events, handling, hadIp, failed, program, group, bits, s_retry_num, verdict >>

UnregisterIp == Unregister("IP_EVENT", "unregister ip", "unregister wifi")

\* Slip: the handler for Wi-Fi events stays registered.
UnregisterWifiSkipped ==
  /\ main = "unregister wifi"
  /\ main' = "delete"
  /\ UNCHANGED << wifiVars, program, group, bits, s_retry_num, verdict >>

UnregisterWifi == Unregister("WIFI_EVENT", "unregister wifi", "delete")

DeleteGroup ==
  /\ main = "delete"
  /\ group' = "deleted"
  /\ main' = "done"
  /\ UNCHANGED << wifiVars, program, bits, s_retry_num, verdict >>

-----------------------------------------------------------------------------

WifiInitSta == Setup \/ StartWifi \/ WaitBits \/ UnregisterIp \/ UnregisterWifi \/ DeleteGroup

\* app_main of the viewer: what it does before and after is no matter of the station.
MmuAppMain == program = "mmu" /\ (Setup \/ StartWifi \/ WaitBits)

MainTask  == (program = "wifi" /\ WifiInitSta) \/ MmuAppMain
EventTask == EventHandler \/ (Dispatch /\ UNCHANGED << mainVars, bits, s_retry_num >>)
Attempt   == (AttemptSucceeds \/ AttemptFails)
             /\ UNCHANGED << mainVars, bits, s_retry_num >>

Next == MainTask \/ EventTask \/ Attempt
        \/ (LinkLost /\ UNCHANGED << mainVars, bits, s_retry_num >>)

\* Both tasks are scheduled (the event task has the higher priority and blocks
\* between events) and the driver ends every attempt; the link need not fail.
\* Unregistering waits for a lock that the event task gives up after every event:
\* even if the link comes and goes for ever, an attempt takes the driver far
\* longer than main needs to take the lock in between.
Fairness ==
  /\ WF_vars(Setup \/ StartWifi \/ WaitBits \/ DeleteGroup)
  /\ SF_vars(UnregisterIp \/ UnregisterWifi)
  /\ WF_vars(EventTask) /\ WF_vars(Attempt)

Spec == Init /\ [][Next]_vars /\ Fairness

-----------------------------------------------------------------------------

\* Types of the driver, the loop, the handler and the main task; at most two
\* events are waiting.
TypeOK ==
  /\ link \in {"off", "idle", "connecting", "up"}
  /\ events \in Seq(Events) /\ Len(events) <= 2
  /\ handlers \subseteq {"WIFI_EVENT", "IP_EVENT"}
  /\ handling \in Events \cup {NoEvent}
  /\ hadIp \in BOOLEAN /\ failed \in Nat
  /\ program \in {"wifi", "mmu"}
  /\ main \in {"setup", "start", "wait", "blocked", "unregister ip",
               "unregister wifi", "delete", "done"}
  /\ group \in {"none", "live", "deleted"}
  /\ bits \subseteq {CONNECTED, FAIL} /\ verdict \subseteq {CONNECTED, FAIL}
  /\ s_retry_num \in 0 .. MaxRetry

\* "We can test which event actually happened": connected is only reported if
\* the station had an address, and failed only if it never had one, the first
\* attempt and all MaxRetry retries failed, and it tries no more.  The viewer
\* never starts its manager without an address before.
VerdictTrue ==
  /\ CONNECTED \in verdict => hadIp
  /\ verdict = {FAIL} => /\ ~hadIp /\ failed = MaxRetry + 1
                         /\ link = "idle" /\ events = << >> /\ handling = NoEvent

\* "The event will not be processed after unregister": event_handler is never
\* called with the event group missing or deleted.
GroupLive == handling # NoEvent => group = "live"

\* After every loss of the connection the station is given all its retries:
\* it only gives up when as many attempts in a row have failed.  Not so once
\* the IP handler is unregistered and the other is not yet: an address obtained
\* then goes unnoticed and its loss is counted with the failures before it.
GivesUpLate ==
  [][(handling = "disconnected" /\ handling' = NoEvent /\ link' # "connecting"
      /\ handlers = Registered)
       => (failed >= MaxRetry)]_vars

\* wifi_init_sta returns, whatever the access point does, and the viewer starts
\* its manager, unless the station has given up, at rest and for good, without an
\* address now: then app_main waits for ever.
AtRest == link = "idle" /\ events = << >> /\ handling = NoEvent /\ ~RetriesLeft
Returns == <>(main = "done" \/ (program = "mmu" /\ main = "blocked" /\ AtRest))
============================================================================
