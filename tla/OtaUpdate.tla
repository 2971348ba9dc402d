----------------------------- MODULE OtaUpdate -----------------------------
(***************************************************************************)
(* softap_ota/main/main.c: the two tasks of the running firmware.          *)
(*                                                                         *)
(*   main   app_main: starts the HTTP server, then asks whether it runs on *)
(*          trial and marks itself valid;                                  *)
(*   http   the server's only task, which runs update_post_handler.        *)
(*                                                                         *)
(* The two run concurrently as soon as the server is started, and power    *)
(* can fail at any step.  A failed ESP_ERROR_CHECK resets the chip.        *)
(***************************************************************************)
EXTENDS EspOta

CONSTANT HandlePool   \* OTA handles the heap has room for

ASSUME HandlePoolAssumption == HandlePool \in Nat \ {0}

VARIABLES
  main,         \* where app_main is
  http,         \* where the server's task is
  partition,    \* ota_partition of the request being handled
  image,        \* the firmware the client uploads
  remaining,    \* chunks of the request not received yet
  handles,      \* OTA handles open
  updater,      \* history: the partition that activated the newest update
  marked        \* history: partitions whose firmware marked itself valid

request == << partition, image, remaining >>
history == << updater, marked >>
vars == << otaVars, main, http, request, handles, history >>

\* What a reset does to memory.
Memory0 ==
  /\ main' = "init" /\ http' = "down"
  /\ partition' = Off /\ image' \in {CHOOSE i \in Good : TRUE} /\ remaining' = 0
  /\ handles' = 0

Init ==
  /\ \E i \in Good :
       flash = [s \in Slots |-> [img  |-> i,
                                 size |-> IF s = Factory THEN Chunks ELSE 0]]
  /\ otadata = [s \in OtaSlots |-> "none"] /\ newest = Factory /\ running = Unpowered
  /\ main = "init" /\ http = "down"
  /\ partition = Off /\ image = (CHOOSE i \in Good : TRUE) /\ remaining = 0
  /\ handles = 0 /\ updater = Factory /\ marked = {}

Down(how) ==
  /\ running' = how
  /\ Memory0
  /\ UNCHANGED << flash, otadata, newest, history >>

Reset == Down(Off)

PowerLoss == running \in Slots /\ Down(Unpowered)

Boot ==
  /\ running \notin Slots
  /\ SelectBootPartition
  /\ UNCHANGED << main, http, request, handles, history >>

-----------------------------------------------------------------------------
(* app_main *)

Runs(set) == running \in Slots /\ flash[running].img \in set

\* nvs, access point and server; requests are accepted from here on.
HttpServerInit ==
  /\ Runs(Good) /\ main = "init"
  /\ main' = "check" /\ http' = "wait"
  /\ UNCHANGED << otaVars, request, handles, history >>

\* Faulty firmware does not come that far.
FaultyResets == Runs(Faulty) /\ Reset

\* Slip: ESP_ERROR_CHECK around the query, which fails for factory.
ReadStateChecked ==
  /\ main = "check"
  /\ IF StateOf(running) = "none"
     THEN Reset
     ELSE /\ main' = IF StateOf(running) = "pending" THEN "mark" ELSE "idle"
          /\ UNCHANGED << otaVars, http, request, handles, history >>

ReadState ==
  /\ main = "check"
  /\ main' = IF StateOf(running) = "pending" THEN "mark" ELSE "idle"
  /\ UNCHANGED << otaVars, http, request, handles, history >>

MarkValid ==
  /\ main = "mark"
  /\ otadata' = WithSelectedState(otadata, "valid")
  /\ marked' = marked \cup {running}
  /\ main' = "idle"
  /\ UNCHANGED << flash, newest, running, http, request, handles, updater >>

-----------------------------------------------------------------------------
(* update_post_handler *)

\* Slip: the update is written to the partition that is running.
UpdateRunning == IF running = Factory THEN 0 ELSE running

\* Slip: the partition after ota_1 is not ota_0 again.
UpdateUnwrapped == running + 1

UpdatePartition == NextUpdatePartition

\* Slip: the firmware on trial is not asked whether it is confirmed.
BeginAlways == handles < HandlePool

\* esp_ota_begin refuses while the firmware runs on trial and without memory.
BeginOk == StateOf(running) # "pending" /\ handles < HandlePool

\* A request comes in and esp_ota_begin erases the partition.
UpdatePost(i, len) ==
  /\ http = "wait" /\ BeginOk
  /\ partition' = UpdatePartition
  /\ flash' = [flash EXCEPT ![UpdatePartition] = [img |-> i, size |-> 0]]
  /\ marked' = marked \ {UpdatePartition}
  /\ image' = i /\ remaining' = len
  /\ handles' = handles + 1
  /\ http' = "recv"
  /\ UNCHANGED << otadata, newest, running, main, updater >>

\* ESP_ERROR_CHECK(esp_ota_begin(...)) fails.
UpdateBeginFails == http = "wait" /\ ~BeginOk /\ Reset

\* A chunk is received and written.  A receive timeout goes round the loop
\* and changes nothing.
ReceiveChunk ==
  /\ http = "recv" /\ remaining > 0
  /\ flash' = [flash EXCEPT ![partition].size = @ + 1]
  /\ remaining' = remaining - 1
  /\ UNCHANGED << otadata, newest, running, main, http, partition, image, handles, history >>

\* The connection breaks or the chunk cannot be written: "500" and return.
ReceiveFails ==
  /\ http = "recv" /\ remaining > 0
  /\ http' = "wait"
  /\ UNCHANGED << otaVars, main, request, handles, history >>

\* Slip: the boot partition is switched without the image check.
ImageOkUnchecked == TRUE

ImageOk == Valid(partition)

\* esp_ota_end and esp_ota_set_boot_partition succeed.
Activate ==
  /\ http = "recv" /\ remaining = 0
  /\ ImageOk
  /\ SetBootPartition(partition)
  /\ updater' = running
  /\ handles' = handles - 1
  /\ http' = "reply"
  /\ UNCHANGED << flash, running, main, request, marked >>

\* One of the two fails: "500" and return; the handle is closed by the first.
ActivateFails ==
  /\ http = "recv" /\ remaining = 0
  /\ handles' = handles - 1
  /\ http' = "wait"
  /\ UNCHANGED << otaVars, main, request, history >>

\* The answer is sent, and after 500 ms esp_restart.
Restart == http = "reply" /\ Reset

MainTask == HttpServerInit \/ ReadState \/ MarkValid

HttpTask == ReceiveChunk \/ ReceiveFails \/ Activate \/ ActivateFails \/ Restart

Client == \E i \in Images, len \in 0 .. Chunks : UpdatePost(i, len)

Next == MainTask \/ HttpTask \/ Client \/ UpdateBeginFails \/ FaultyResets
        \/ Boot \/ PowerLoss

\* The chip boots, its tasks run and faulty firmware ends; the client sends or
\* its connection breaks.  app_main needs milliseconds and an upload waits for
\* the network again and again, so requests cannot keep app_main from its next
\* step for ever.  Uploads and power failures need never happen.
Fairness ==
  /\ WF_vars(Boot) /\ WF_vars(HttpServerInit) /\ SF_vars(ReadState)
  /\ SF_vars(MarkValid) /\ WF_vars(HttpTask) /\ WF_vars(FaultyResets)

Spec == Init /\ [][Next]_vars /\ Fairness

-----------------------------------------------------------------------------

\* Types of the flash, the records and the tasks' state.
TypeOK ==
  /\ flash \in [Slots -> [img : Images, size : 0 .. Chunks]]
  /\ otadata \in [OtaSlots -> States] /\ newest \in Slots
  /\ running \in Slots \cup {Off, Unpowered}
  /\ main \in {"init", "check", "mark", "idle"}
  /\ http \in {"down", "wait", "recv", "reply"}
  /\ partition \in OtaSlots \cup {Off} /\ image \in Images
  /\ remaining \in 0 .. Chunks /\ handles \in 0 .. HandlePool
  /\ updater \in Slots /\ marked \subseteq OtaSlots

\* Wherever power fails: the firmware running is never overwritten and the
\* records never select a partition without a whole, checked image.
NeverBricked ==
  /\ running \in Slots => Valid(running)
  /\ Valid(Selected(otadata))

\* "Updates are rolled back unless the updated firmware marks itself as
\* valid": firmware that did is never rolled back.
MarkedStays ==
  \A s \in OtaSlots : otadata[s] = "aborted" => s \notin marked

\* An update that is given up gives way to the very firmware that installed
\* it, not to some older one.
RollsBackToUpdater ==
  [][running \notin Slots /\ running' \in Slots
       /\ (\E s \in OtaSlots : otadata[s] = "pending")
     => running' = updater]_vars

\* The device comes back: unless power keeps failing, it runs again and again
\* firmware that takes updates and that no reset will roll back, whatever was
\* uploaded before.
Recovers == <>[](running # Unpowered) => []<>(main = "idle")

\* "Serious Error: Abort OTA": no OTA handle stays open once the request that
\* opened it has been answered.
AbortedClosed == http = "wait" => handles = 0
============================================================================
