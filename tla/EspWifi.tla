------------------------------ MODULE EspWifi ------------------------------
(***************************************************************************)
(* The esp-idf side of the station examples, outside the repository and    *)
(* modelled from how they use it: the Wi-Fi driver with the access point   *)
(* behind it, and the default event loop, which calls the registered       *)
(* handlers one event at a time, in the order the events were posted.      *)
(*                                                                         *)
(* The loop holds its lock while a handler runs, so unregistering a        *)
(* handler waits for a call in progress (handling = NoEvent).              *)
(***************************************************************************)
EXTENDS Integers, Sequences

VARIABLES
  link,       \* the station: "off", "idle", "connecting" or "up"
  events,     \* posted, not yet dispatched
  handlers,   \* event bases a handler is registered for
  handling,   \* the event event_handler is called with, or NoEvent
  hadIp,      \* history: the station had an address at some time
  failed      \* history: connection attempts that failed since it had none

wifiVars == << link, events, handlers, handling, hadIp, failed >>

NoEvent == "none"
Events  == {"start", "disconnected", "got_ip"}
Base(e) == IF e = "got_ip" THEN "IP_EVENT" ELSE "WIFI_EVENT"

WifiInit ==
  /\ link = "off" /\ events = << >> /\ handlers = {} /\ handling = NoEvent
  /\ hadIp = FALSE /\ failed = 0

Post(e) == events' = Append(events, e)

\* esp_wifi_start
WifiStart ==
  /\ link' = "idle" /\ Post("start")
  /\ UNCHANGED << handlers, handling, hadIp, failed >>

\* esp_wifi_connect: only starts the attempt.
WifiConnect ==
  /\ link' = "connecting"
  /\ UNCHANGED << events, handlers, hadIp, failed >>

AttemptSucceeds ==
  /\ link = "connecting"
  /\ link' = "up" /\ Post("got_ip")
  /\ hadIp' = TRUE /\ failed' = 0
  /\ UNCHANGED << handlers, handling >>

AttemptFails ==
  /\ link = "connecting"
  /\ link' = "idle" /\ Post("disconnected")
  /\ failed' = failed + 1
  /\ UNCHANGED << handlers, handling, hadIp >>

LinkLost ==
  /\ link = "up"
  /\ link' = "idle" /\ Post("disconnected")
  /\ UNCHANGED << handlers, handling, hadIp, failed >>

\* The event task takes the next event; without a handler it is dropped.
Dispatch ==
  /\ handling = NoEvent /\ events # << >>
  /\ handling' = IF Base(Head(events)) \in handlers THEN Head(events) ELSE NoEvent
  /\ events' = Tail(events)
  /\ UNCHANGED << link, handlers, hadIp, failed >>
============================================================================
