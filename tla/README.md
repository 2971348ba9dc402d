# A verification project for esp32s2_kaluga

The repository is a collection of example firmwares for the ESP32-S2 Kaluga kit:
independent programs on FreeRTOS and esp-idf (which is not part of the repository),
plus three vendored libraries (mongoose, tjpgd, micro-ecc) and some tools. The programs are small, but
most of them are made of parts that run concurrently: a task and the interrupt of a driver, a task and an
event loop, two processors, a server and whatever its clients do, a firmware and the power
supply. The libraries are where the long sequential code is. The specifications model both: the concurrent
programs as state machines, the sequential code as functions beside what they are meant to compute.

Every definition is translated from the source; `PROJECT.json` ("map") names the
lines. Code outside the repository (esp-idf, FreeRTOS, the hardware) is
modelled from how the repository uses it and is marked external there.

## 1. Inventory

| Component | State | Operations | Interacts with | What is hard | What makes it correct |
|---|---|---|---|---|---|
| LCD pixel pipeline (`lcd/components/lcd`) | two pixel buffers, six static SPI descriptors, frame, row, buffer indices | start the panel; calculate a strip, collect results, send a strip | SPI driver (queue, DMA, interrupt callback), panel | the driver reads buffers and descriptors while the task goes on | no buffer or descriptor changes while it may be read; the panel shows whole frames from the top |
| Picture effect, JPEG decoding (`pretty_effect`, `decode_image`) | offset tables, `prev_frame`; decoder position | calculate rows; read and write of the decoder | the pipeline; tjpgd | stale tables, a 16-bit position | all rows of a frame from the same tables; the picture is the file's |
| Soft-AP OTA updater (`softap_ota`) | flash partitions, otadata, OTA handles, trial state | start the server, mark valid, receive an upload, activate, restart | HTTP clients, bootloader, power | crash at any step, upload racing the confirmation, broken uploads | always a bootable image; bad updates rolled back; confirmed ones kept; comes back |
| Bootloader (`bootload_elf/.../bootloader_start.c`) | otadata | choose and load a partition | OTA updater | choice after an interrupted update | as above |
| Wi-Fi station (`wifi`), MMU viewer start-up (`mmu/main/main.cpp`) | event group, retry count | event handler; init, wait, tear down | Wi-Fi driver, event loop | handler against deletion of what it uses; stale bits; retries | true verdict, bounded retries, no use after delete, the wait ends |
| ULP wakeup (`ulp_riscv`) | two variables in RTC memory | ULP program; `app_main` | GPIO, ULP timer, deep sleep | two processors and a pin that changes at any time | changes wake the main CPU and are reported |
| Web server (`mmu/main/WebServer.cpp`) | per-connection user data, handlers, response state | mongoose event handler, response, request parsing | mongoose, request handlers | connection life cycle, missing close event, pieces | user data live while used and freed once; requests handled once, in order; answers whole |
| REST handlers (`RequestManager.cpp`) | none | MMU, memory, flash, file, log, system | web server | dump bounds; handlers that do not answer | each dump shows the entries it names |
| RFM69 OOK driver (`earth_hour_433`) | mode, registers, pin, interrupt | modes, transmit, receive, settings | radio chip, interrupt, resets | order of accesses against the interrupt, register arithmetic | mode register and `_mode` agree; carrier tuned before it is keyed |
| SimpleFIFO | ring, count, two indices | enqueue, dequeue, peek, flush | - | wrap of indices and count | a bounded queue |
| Beacon sender (`free80211`) | line, sequence numbers | make the next beacon | Wi-Fi driver | 12-bit wrap | every frame well formed, consecutive numbers |
| Cache MMU tables (`bootload_elf`) | MMU table | which range of pages an address range has | ROM cache | regions, boundaries | the named pages |
| LED strip (`led`) | pixel buffer | set pixel, refresh, clear; RMT adapter | RMT interrupt | items in groups of eight | each bit becomes one item, in order |
| mongoose (third party) | connections, buffers, resolver requests, broker sessions | poll, HTTP, streams, text functions, digests, DNS, MQTT, CoAP, SNTP | web server, sockets | anything may arrive in any pieces, late, twice or not at all | what is sent is what is handed on; every dialogue ends |
| tjpgd (third party) | bit buffer, tables, pool | prepare, decode | `decode_image` | bit reader refills, table sizes, pool | pixels near the exact transform, none left out |
| micro-ecc (third party) | none | words, curves, keys, signatures | secure boot check | carries, special points, reductions | the textbook result |
| JSON objects, flash swap, camera, trivial programs, SVD tool, `testSpiffs.c` | - | - | - | little of their own | - (section 6) |

The hazards, each at its line, are listed in `PROJECT.json` ("hazards") with the
properties that would catch them.

## 2. Plan

Done: the LCD pipeline, the OTA updater with its bootloader, the ULP wakeup, the Wi-Fi station and the MMU viewer's
start; the web server on mongoose's connections; the streams mongoose rebuilds in its buffers; the radio;
the pure algorithms; the event manager with its protocols; proofs of the safety of `LcdPipeline`, `WifiStation`,
`OtaUpdate`, `Radio`, `UlpWake`, `WebServer` and `StreamParsing` (every invariant their runs check), of the safety part of the refinement of `LcdDisplay`, and of the queue, the beacons, pulses and radio
registers of `Devices`.

Left, in this order:

1. Proofs about the page ranges of `Devices` and the texts of `MongooseHeaders`, whose loops are recursive functions: in the way `StreamParsing_proofs` goes over such functions.
2. More than one proxied request on a client's connection, and closing a listener whose connections live.
3. mongoose's directory listing, ranges of a file, and the JSON tools, if a program of the repository comes to use them.

## 3. The modules

### LcdDisplay, SpiLcd, LcdPipeline (LCD example)

`LcdPipeline` is `display_pretty_colors`. Its `pc` is "calc" (a strip is calculated
row by row into `lines[calc_line]`: `CalcRow`), "finish" (`send_line_finish`: `FinishLine`,
one result per step), "send" (the buffers are swapped and the descriptors rewritten:
`SendLines`) and "queue" (one descriptor is queued per step: `QueueTrans`).
`SpiLcd` is what runs beside it: `StartTransfer` (with the pre-transfer callback, which is
code of the repository), `Transfer` (one unit: a command, its arguments, or one row of pixels,
read from the buffer at that moment) and `EndTransfer`. The panel keeps a command
register, a row window and a row pointer; its columns are not modelled.

A row of pixels is a tag <<frame, row>>. What the panel shows is therefore known: the
refinement mapping `Screen` gives the frame of each row, or -1 for a row that holds
the pixels of another row. `LcdDisplay`, the abstract specification, lets a beam paint row
after row, frame after frame. `ShowsPicture` (`Display!Spec`) says the pipeline implements it,
liveness included: the display is repainted for ever.

The static picture (the default configuration) goes through the same steps with
pixels that do not depend on the frame; the model keeps the frame to tell old rows from new.

Fairness: weak fairness of the task, which is the only one and is woken when its
queue moves, and of the driver, which the SPI interrupt drives.

### EspOta, OtaUpdate (softap_ota)

`EspOta` is what survives a reset: the partitions (which firmware, how much of it),
the otadata records, and `SelectBootPartition`, the bootloader. `OtaUpdate` adds the two
tasks: `HttpServerInit`, `ReadState`, `MarkValid` are `app_main`; `UpdatePost`,
`ReceiveChunk`, `ReceiveFails`, `Activate`, `ActivateFails`, `Restart` are
`update_post_handler`, one upload at a time as the server has one task. `Reset` stands for
`esp_restart` and for every failed `ESP_ERROR_CHECK`; `PowerLoss` may come at any step.
Firmware is Good (this program), Faulty (well formed, resets before it confirms itself)
or Corrupt (fails the image check). There are two slots and two records, so `otadata` keeps the state of each
partition's record and `newest` the one written last, which is selected while it is live. `esp_ota_end` closes the handle whether or not it succeeds.

A receive timeout changes nothing (the code goes round its loop) and is not an action.
For liveness the model assumes that a client sends or its connection breaks; the code
does not bound the number of timeouts, which is listed as a hazard.

Fairness: the chip boots and its tasks run (weak). `ReadState` and `MarkValid` have strong fairness: a
stream of uploads, each ending in a reset before app_main's next step, is excluded because app_main
needs milliseconds while an upload needs the network many times.

### EspWifi, WifiStation (wifi)

`EspWifi` is the driver (`link`) and the event loop: events are posted in order and
dispatched one at a time to the handlers registered at that moment; unregistering waits for
a call in progress, because the loop holds its lock during the call. `WifiStation` is
`event_handler` (`HandleStart`, `Retry`, `GiveUp`, `GotIp`) and `wifi_init_sta` (`Setup`,
`StartWifi`, `WaitBits`, `UnregisterIp`, `UnregisterWifi`, `DeleteGroup`). A call of the handler is
one step: nothing else reads `s_retry_num`, and the driver only reacts later.
Not modelled: initialisation that fails (`ESP_ERROR_CHECK` resets the chip).

Fairness: both tasks and the driver's attempts (weak); unregistering has strong fairness for
the lock, which the event task gives up between events.

The second program is the MMU viewer (`mmu/main/main.cpp`): its handler clears CONNECTED_BIT instead of
setting a fail bit, its main task waits without a timeout and never unregisters. `program` says
which of the two a behaviour runs. If the viewer's handler gave up before main looked, the wait never ends;
`Returns` says so and promises the end only for the others.

What the model shows beside its properties: when the link is lost and all retries fail
before the main task looks, both bits are set and the main task reports a connection that is gone
(the code tests WIFI_CONNECTED_BIT first). And between the two unregistrations an address that is obtained
goes unnoticed, so the handler may give up early; nobody reads the bit any more.

### UlpWake (ulp_riscv)

The ULP program step by step (`UlpSample`, `UlpStore`, `UlpPoll`, `UlpCompare`), its
timer, `app_main` (`MainStart`, `MainSleep`) and the pin. A wakeup raised while the main
CPU is awake may be lost or kept: both are allowed. `slow` fixes, for a behaviour, whether
the input waits for both processors.

### MongooseHttp, WebServer (the MMU viewer's web server)

`MongooseHttp` has a connection as mongoose and `WebServer.cpp` keep it: receive buffer, send buffer, the file that
is being sent, flags, the user data shared by uploads and web sockets. It gives what `WebServer` is built of as operators:
the parse of a request, `HandleMessage`, the multipart handlers, `mg_http_transfer_file_data`, the close pass. `WebServer` has the
clients (each a script: the requests it sends token by token, `next` being the token to come, and when it leaves) and one action per event of
the poll loop. The build has streaming multipart off; the model has both (`Builds`, below). User data is told
apart by who made it: the listener's, a web socket's, or that of the upload with this number. The clients keep one rule (`FramesAfterUpgrade`): after asking for
a web socket they send nothing but frames.

A behaviour has one of `Builds`: streaming multipart or not, and a factory registered or not for uploads and for web sockets (`mpFactory`, `wsFactory`); the constructor registers none. Without the first, the end of an
upload deletes the user data of the listener, which all connections share (WebServer.cpp:168-170, 190-191): the run and the theorems have it registered
(`Registered`), and `MCNoFactory.cfg` shows what happens when it is not. The end of an upload empties the receive buffer (mongoose.c:6036-6038): a
request behind it is lost as far as it has come, and what comes later of it is no request: `handled` notes it as "lost". `HandledInOrder` allows that of the requests
right behind an upload and shows that no other is lost, repeated or exchanged.

What the model shows beside its properties: when a connection closes, a request whose head is complete is delivered with a
truncated body and its answer is lost; a request that comes while a file is being sent is handled at once, so the answers
mix (`AnswersWhole` and `Served` speak of clients that wait); one request is handled per receive event; the user data of a web socket
is never freed (`UserDataLive` leaves it out); the system and log handlers never answer (`Served` leaves them out, `Reclaimed`
shows that the connection ends when the client gives up).

Fairness: the poll loop accepts, and goes on writing to each client; both are one task that never waits.
Deadlock is not checked: when all clients are gone the server waits for others.

### MongooseBodies, MongooseWebsocket, StreamParsing

The three parsers that work in place in the receive buffer (chunked bodies and uploads in `MongooseBodies`), each as operators, and a machine that sends one of a few streams
to them, cut in any pieces. `NothingInvented`: what is handed on is a part of what was sent, in order. `NothingLost`: when all
has come, all is handed on. What a client may send is a named assumption each: chunks are not empty (an empty one ends the body), an upload has
a part and no boundary begins in its data, a close frame is the last, and fragments follow one another.

Kept out of the streams: control frames between fragments (a TODO in the code, mongoose.c:8894), and a header line longer than what is left of the
data (5960 does not take it off the count). The test for a close frame reads the buffer after it was moved (8899);
after the last chunk the whole buffer counts as the message; an upload that ends early may get the end of a part without its
beginning; requests behind an upload are not part of these streams (`WebServer` has them).

The first fragment of a message makes room for its size with `mbuf_resize` (8875), which may move the buffer; the pointers used
after it are those of before, so the size and the data go to memory that was freed. `Moves` (a CONSTANT) says for
which messages realloc moves it; what the program does then is undefined, so the model stops there (`stray`), and `web_moved` shows that it happens.
The passing run and the theorems have the buffer resized in place (`InPlace`).

### Radio (earth_hour_433)

Every access of a driver call to the chip, the pin or the interrupt is a step, with a reset of the program possible between
any two (the radio keeps its state). Two programs use it: the transmitter of the repository and one that uses the other modes. Which calls are legal when is
`Legal`: sleeping or reading the temperature during reception leaves the interrupt attached and is excluded. The chip measures the signal
only while it receives, and the temperature only in standby (external). Fairness: the program goes on, and the chip becomes ready.

### Algorithms and what it is made of

A behaviour picks a call with its arguments and then the code answers it (`MongooseCalls`, `ProtocolCalls`, `Algorithms`); the invariants say what the answer must be. Where an
operation works on what earlier ones left (a queue, a buffer, a broker), the call is a sequence of them or a dialogue that goes on.

- `Vli`, `MicroEcc` (micro-ecc): integers of two-bit words, the curves, with their reductions, in `Vli` too; curves with small prime orders, ladder, keys, signatures, the reductions
  of the real primes, square roots. A generator of random numbers is the sequence of what its calls return, failures included; a signature asks it for the scalar and, inside
  `uECC_sign_with_k`, for the number that hides it. Facts met: the ladder returns (0, 0) only for k in {1, n-2, n-1} or a point with x = 0; verification
  differs from the textbook only when points collide in Shamir's trick; the hash that the antifault check hands on equals the one asked for
  a bad signature only when the hash is shorter than r; the reductions of secp160r1 and secp256k1 may leave p itself.
- `Tjpgd`: pictures of three samplings, with and without restart markers, comments of many lengths so that the 512-byte buffer and the 16-bit
  position end everywhere. The repository's `image.jpg` is 67106 bytes long: the position wraps, the reader sees the start of the file
  again, and the bottom rows are never written although decoding reports success. The pool fits with four bytes to spare; the RGB
  pixels of a unit run over `workbuf` into blocks that are no longer needed.
- `Devices`: the queue, the page ranges (`hello_world_main.c:70` and `:166` compute other ends than they mean to; nobody calls
  them), LED items, beacons, the panel's start, radio settings, queries, paths, routes, dumps. The MMU dump adds the size in bytes to a pointer
  to words (RequestManager.cpp:95) and shows 252 rows where the table has 64 entries; the memory and flash dumps show beside an address the value of the next word, and the last row of
  the flash dump one that is behind `buffer[64]`; a route whose pattern has no end is taken by every longer path that begins with it
  (275-276); an answer keeps only its last header (`MCHeaders.cfg`). The RMT driver asks the strip for a multiple of eight items; the run also asks
  for 12, which is overrun. A pixel beyond the strip is refused.
- `MongooseBytes`, `MongooseHeaders`, `MongooseCalls`: base64, escapes, buffers, formats, URIs, patterns, headers, parts of forms, networks,
  paths of files, digests of passwords, dates; and sites: URLs to connect to, files and includes, pages of other servers, uploads (a handler
  that is built only with streaming multipart). A character stands for a word where only whole words are compared. Differences from what is meant are written
  into the properties: formats with a width but no zero flag; `?` in a pattern reads behind the text; dates a day late in January and February of leap
  years; a rewrite rule that matches half a component moves the start; an added port shows in the Host header when the URL names a user; a
  tag of five characters or less vanishes from a page; a server stays connected when its proxied client goes (the comment at mongoose.c:5102
  wants it closed, 5108 flags the connection that is dying; `MCProxy.cfg`); a refused upload loses its state.
- `MongooseDigest`: MD5, SHA-1, HMAC, the web-socket handshake and frames, with their test vectors and cuts around the block size.
- `MongooseNet`, `MongooseDns`, `MongooseMessages`, `ProtocolCalls`: the event manager with its timers, listeners, TCP and UDP connections; the resolver; packets of DNS, MQTT,
  CoAP and SNTP; an MQTT broker with three clients. The resolver's third query is sent and never waited for, and the id of a reply is never
  compared; what is in the send buffer goes out as one datagram. An MQTT message whose last byte is missing is taken for whole, and told twice (`MCBuffered.cfg`): `MessagesExact` asks
  nothing there; the number of a publication with QoS is read before its topic (9664) and written behind it (9826-9831): only its QoS is asked for. A broker compares topics by a length that
  wraps for "#", and otherwise by how they begin (`MCTopics.cfg`): `DialoguesEnd` asks that
  nobody gets a message twice and that who asked for it with another expression than "#" gets it.
  A datagram that is empty or cannot be received leaves freed memory as the buffer of the connection (3405-3421, 2485-2505; `MCDatagrams.cfg`): the run
  has datagrams with data (`Received`). A listen call may fail in `mg_bind_opt`. An error of the CoAP parser carries the bit that
  makes the caller drop the message silently.
- `Loops`: folds that TLC evaluates without deep recursion.

Kept out of the domains, because the code's behaviour is undefined there or the state cannot occur: dequeuing from an empty queue, a URL with a user and no
password, a bare `#include`, DNS pointers in a circle, a second SUBSCRIBE in a session and topics with QoS in it, a clock that goes back, a listener closed before its
connections, a second proxied request before the first is answered.

## 4. Runs

| Run | Module | Shows | Bounds and why they are enough |
|---|---|---|---|
| `lcd_pipeline` | LcdPipeline | `NoBufferRace`, `DescriptorsStable`, `QueuesSuffice`, `ShowsPicture` | 6 rows in strips of 2: a first, middle and last strip, and an odd number of strips so that both buffers start a frame; frames modulo 3, one more than can be on their way; the real queue size |
| `ota_update` | OtaUpdate | `NeverBricked`, `MarkedStays`, `RollsBackToUpdater`, `Recovers` | both OTA slots and factory; two good, a faulty, a corrupt firmware; two chunks, so an upload can stop half way; two handles, so they can run out |
| `ota_no_rollback` | OtaUpdate | `Recovers` is violated without rollback | same |
| `wifi_station` | WifiStation | `VerdictTrue`, `GroupLive`, `GivesUpLate`, `Returns` | both programs; two retries: a first, a last and a refused one. Deadlock is not checked: a station that gave up has nothing left to do |
| `ulp_wake` | UlpWake | `FollowsSlowInput`, `ChangeWakes`, `KeepsPolling` | none: the system is finite |
| `ulp_fast` | UlpWake | `Follows` is violated | none |
| `web_server` | MCWebServer | `UserDataLive`, `HandledInOrder`, `AnswersWhole`, `Reclaimed`, `Served` | two connections; scripts of one client (pages, files, uploads, web sockets, aborts) and two uploads at once; files of 3 units and a send buffer of 2, so that a file needs several turns |
| `web_stream` | MCStreamParsing | `NothingInvented`, `NothingLost` | every cut of each stream in pieces |
| `stream_second_chunked` | MCStreamParsing | `BodyInBuffer` is violated | two chunked requests on one connection |
| `web_moved` | MCStreamParsing | `Defragmented` is violated | the streams of `web_stream`; realloc may move the buffer at the first message or the second |
| `radio` | Radio | `PinSafe`, `InStep`, `CarrierTuned`, `CallsReturn` | two resets, so that one can hit the recovery from another |
| `algorithms` | MCAlgorithms | `VliExact`, `LadderExact`, `SignaturesExact`, `PictureExact`, `PixelsNear`, `DevicesExact`, `TextsExact`, `ProtocolsExact`, `DialoguesTold` | two-bit words and two words: every pair of integers with every carry; four small curves, one with a = 0, every scalar up to 6 and the last ones; texts of up to 6 or 7 characters of an alphabet that holds each special character; data around each block size; 16 seconds, which is three timeouts of the resolver and one of the clock. Deadlock is not checked: a call that is answered ends the behaviour |

The runs of the state machines also check the module's `TypeOK`. For every property of a passing run
`PROJECT.json` names a mutant: a plausible slip (defined beside the operator it replaces and marked
"Slip") with which TLC finds the property violated.

Findings:

- `softap_ota/README.md:9` promises rollback; the bootloader option it needs is off by
  default and the example does not set it, so a faulty update boots for ever.
- `ulp_riscv/README.md:6` says the main CPU is woken when the pin changes; a change while the
  ULP program is halted (20 ms after each wakeup) is never seen, because each start takes a new
  level to compare with. The run `ulp_wake` shows for which inputs it holds.
- `mongoose.c:5459` asserts that the receive buffer holds the chunked body put together so far; the length of that body is
  not set back after a request, so the second chunked request on a connection fails the assertion.
- `mongoose.h:4333` says that messages are put together; when `mbuf_resize` moves the buffer (`mongoose.c:8875`) the first fragment is written to the memory it was
  moved from.

Some more configurations show where the code differs from its words, or from what a passing run has to leave out. TLC finds the property violated with each:

| Configuration | Module | Violated | What it shows |
|---|---|---|---|
| `OtaHandles.cfg` | OtaUpdate | `AbortedClosed` | `softap_ota/main/main.c:45` announces that a serious error aborts the OTA; the code returns without `esp_ota_abort` and leaks the handle |
| `MCNoFactory.cfg` | MCWebServer | `ListenerSaved` | `WebServer.cpp:355` saves the server in the listener's user data; without a factory the end of an upload deletes it |
| `MCDatagrams.cfg` | MCAlgorithms | `DataReceived` | `mongoose.h:3238`: "Data has benn received"; a datagram that is empty, or fails, is told too, and its freed buffer adopted |
| `MCBuffered.cfg` | MCAlgorithms | `BufferedWhole` | `mongoose.c:9703`: "not fully buffered"; 9618 lets one byte be missing |
| `MCTopics.cfg` | MCAlgorithms | `TopicsMatch` | `mongoose.c:10051`: a topic is matched against an expression; "#" matches nothing, others by their beginning |
| `MCHeaders.cfg` | MCAlgorithms | `HeadersSent` | `WebServer.cpp:489`: "the complete set of headers"; 461 keeps the last one, and no header is made of it |
| `MCProxy.cfg` | MCAlgorithms | `DieTogether` | `mongoose.c:7012`: linked connections "must live and die together"; when the client goes first the other stays |

## 5. Proofs

Eight modules hold proofs, all of safety, for every value of the constants that the named assumptions allow (each is evaluated by TLC in a run).

`LcdPipeline_proofs` proves for every picture height, strip size that divides it, queue size of at
least six and frame modulus: `TypeCorrect`, `BufferRaceFree`, `QueuesLongEnough` and
`DescriptorsStayPut`, i.e. `Spec => []TypeOK`, `[]NoBufferRace`, `[]QueuesSuffice` and
`DescriptorsStable`.

None of them is inductive alone: whether the task may write a buffer depends on how many
of the six transactions are queued, on the wire, or waiting to be collected. The
inductive invariant `IInv` is `TypeOK` with

- `Conserved`: the queues and the wire together hold exactly the descriptors handed out and not
  yet collected, and how many there are follows from `pc` and `x` (none when "send" is reached, all
  six when "calc" follows "queue");
- `Separated`: every descriptor with a buffer points to `sending_line`, which is not `calc_line`;
- `LoopIndex`: `x` is back at 0 outside the two loops that use it, and those only run with a strip
  handed over.

Each `Next...` lemma treats one conjunct, one case per action.

The assumptions are `SpiLcdAssumption`, `FrameModAssumption`, `LinesDivideHeight` ("Make sure 240 is
dividable by this", `lcd.h:53`) and `QueueHoldsStrip`, all evaluated by TLC in the run.

Its second half proves the safety part of the refinement, `PaintsRowByRow`: the screen starts as `LcdDisplay` starts and every step of
the task or the driver is a step of the beam or leaves the screen alone, for every height and strip size (`LinesDivideHeight` again). Its invariant goes beyond
`IInv`, which only says who may touch what: `InOrder` (the transactions of a strip are started and end one by one), `OnItsWay` (the
descriptors handed out are those of the strip in `sending_line`), `Calculated` (the rows calculated so far, and the whole of a
buffer from then on until it is sent, are those of one strip of one frame),
`Panel` (the window and the row pointer of the panel are where the strip's commands have put them) and `Picture` (the strip on its way is the
next the beam has to paint, and the one being calculated follows it). That the picture is painted for ever is liveness and stays with the run.

`WifiStation_proofs` proves for every bound of retries (`MaxRetryAssumption`) and both programs `TypeCorrect`, `VerdictIsTrue`,
`GroupStaysLive` and `GivesUpOnlyLate`. The inductive invariant is `TypeOK` with `Phases` (what is registered and what exists, from
where the main task is), `OneAttempt` (while the driver is trying, or up, no loss is on its way or being handled: each start and each loss is answered by
one attempt), `Counting` (how the retry count follows the attempts that failed, as long as all addresses are handled) and `BitsTrue` (a bit, or a verdict,
only after what it stands for: an address, or a give-up that left everything at rest). The verdict depends on bits that were set by events of which only the count and the link bear witness later; that is why it needs all of them.

`OtaUpdate_proofs` proves for every set of firmware, number of chunks and pool of handles (`EspOtaAssumption`, `HandlePoolAssumption`)
`TypeCorrect`, `AlwaysBootable`, `ConfirmedStays` and `RollbackGoesBack`. The inductive invariant is `TypeOK` with `NeverBricked`,
`Records` (only the newest record may be unconfirmed, and without it the records select the firmware that installed the update, which is whole),
`Phases` (which tasks run, and that the partition running is the selected one until an upload is answered) and `Uploads` (an upload goes to another
partition than the one running, none is begun on trial, and its handle is open). `NeverBricked` is not inductive alone: a write is harmless only
because the partition being written is neither running nor the one a rollback would choose.

`Radio_proofs` proves for any number of resets (`MaxResetsAssumption`) and both programs `TypeCorrect`, `PinNeverContested`, `DriverInStep` and `CarrierOnlyTuned`.
The properties speak of the moments between calls, or of the pin at every access; in the middle of a call the driver is out of step and the next access puts it right. So
the parts of the invariant speak of the accesses that are left: `WillBeInStep` (what the last of them to each register leaves there fits together), `DrivesLast` and
`ReleasesFirst` (a call drives the pin as its last access, and a call that would be in its way releases it first), `OnlyHW` (no
high power without the amplifier), `TunedWhenSending` (how much of the frequency is written, from where the program is) and `FreshStart` (after a reset
the program has no access left to make, its mode is "STANDBY", the pin is an input and no interrupt is attached; what the radio holds may be from before).

`UlpWake_proofs` proves `TypeCorrect` and `SlowChangesPrinted`, the safety part of `FollowsSlowInput`: with a slow input, whenever the ULP program polls and the main CPU sleeps, what was
printed last is the level the ULP saved last (`NoChangeLost`). The invariant is `LoadedOnce` (only the first start of `app_main` loads the program, and has
nothing to print), `KnowsInput` (what the ULP program has just sampled is the level of the input, and so is what it has saved, unless it polls while the main CPU
sleeps, when the input may have changed, or was just loaded) and `PrintedOrDue` (the last level is printed, or a wakeup that will print it is on its way).

`WebServer_proofs` proves for any number of clients, all scripts that keep `WorkloadsAssumption`, files and buffers of any size (`SizesAssumption`), with a factory registered for uploads (the hypothesis `Registered`, section 3), `TypeCorrect`,
`UserDataStaysLive` and `RequestsInOrder`. The parser only looks at the first bytes of `recv_mbuf`; that these are what the handler
waits for is the invariant: `InLine` (what is in the socket and in `recv_mbuf`, one after the other, is a stretch of the stream the client sends, it
begins with the token that is due, and the client goes on where it ends), `Numbered`, `Uploading` (an upload in progress is the request after the ones handled),
`FramesOnly` (a connection that was upgraded has only frames to come) and `Owned` (each user data is deleted, the connection's own, or a web
socket's, which nobody frees). A client that is gone leaves a stretch without its end, which is why `InLine` speaks of the next token only for the others.
The lemmas treat the handlers one by one; an answer changes nothing the invariant speaks of (`Answered`).

`NoAnswerCut` proves `AnswersWhole` there. What a client has got when its connection closes depends on everything sent before, so the invariant says it of every
moment (`Told`, of a client that waits and reads): what it got, what waits in `send_mbuf` and what is left of the file are together the answers to the requests
handled (`Kept`); it had all of them before it began another request (`Waiting`); every request was handled whole; and between two turns of the loop
nothing is left of the file and no flag is set once `send_mbuf` is empty (`Rested`). The answers of a script are joined by `FlattenSeq`, which is defined by a recursive function. That
such a function exists, and what one more answer adds, is proved with `Induction`, which speaks of a set of numbers where the library's theorems take an operator, and which follows from
the well-foundedness of the inclusion of finite sets.

`Devices_proofs` proves `BoundedQueue` about the operators of its queue, for every size from 1 to 255: the relation `Holds` between the array with its indices and a
queue holds after `flush` and is kept by every call, each of which returns what the queue does. `Algorithms` checks the same of all short
sequences of calls. Of its other operators it proves, for all inputs the programs can give them: `BeaconsNumbered` (every byte of a beacon with an SSID of up to 32 bytes, and the sequence number that goes up by one
modulo 4096), `AdapterTranslates` (every bit of the strip's buffer in order, and no more items than wanted), and `FrequencyNear`, `BitrateKept`, `RssiKept` and `PowerKept` (the radio keeps what it is
set to, with the exceptions `DevicesExact` names). They are parts of `DevicesExact`, which checks them for a few inputs each.

`StreamParsing_proofs` proves for all bodies, uploads and conversations that keep the assumptions of `StreamParsing`, and every way TCP cuts them, `StreamsTold`
(`NothingInvented`), `StreamsToldWhole` (`NothingLost`) and `AssertionHolds` (`BodyInBuffer`). Two hypotheses are the theorems' own: `OneBodyEach`, a connection carries one chunked body,
for with a second the assertion fails (section 4), which does not restrict uploads and conversations; and `InPlace`, `mbuf_resize` does not move a buffer with an unfinished message. Neither property is inductive, as both only speak of what the handler has got. The invariant,
`ConnInv`, says where the parser is in what the client sends: its buffer and what has not arrived are, one after the other,
what it keeps of the units seen so far, the rest of the unit it is in, and the units behind.

- Chunked: the head and the data of the first `i` chunks, put together in place, and then the chunks from there on, the first of which is not whole yet
  (`ChunkedAt`); or nothing has arrived, or the handler has the body.
- Web socket: the fragments of an unfinished message under one header, counted by it, and then the frames from there on, the first of which is not whole (`WsAt`).
- Uploads: one predicate per state of the parser (`AtBoundary`, `OnBoundary`, `AtChunk`, `OnChunk`, `AtEnd`, `AllRead`), each of which says how much of the part the handler has (`PartAt`).
  Between receive events only those are left in which the bytes waited for have not arrived (`Waiting`), which is what makes `NothingLost` true.

A receive event moves bytes from one side of that sequence to the other; then the loop of the parser runs until a unit is not whole. The loops are recursive functions in the model (`WebsocketRecv`,
`Collapse`, `MultipartRecv`, and `FlattenSeq` in what the clients send). `Induction`, over a set of numbers, shows that each exists and
what one turn more makes of it. The multipart loop need not take bytes in a turn; `Work` (twice the bytes in the buffer, and one in the states that wait)
goes down with each turn that does not stop, so that the turns the model gives it are enough.

Only model-checked: every liveness property (`Recovers`, `Returns`, `KeepsPolling`, `ChangeWakes`, `Reclaimed`, `Served`, `CallsReturn`, ...) and
the fairness part of `ShowsPicture` and `FollowsSlowInput`, as liveness is out of the prover's reach; and the invariants of `Algorithms` (`VliExact`, `LadderExact`, `SignaturesExact`,
`PictureExact`, `PixelsNear`, `DevicesExact`, `TextsExact`, `ProtocolsExact`, `DialoguesTold`), which compare what long functions compute by recursion over their data with a reference. The induction
theorems of the library cannot be instantiated by the installed provers; `Induction` is a way round that, one recursive function at a time, and the decoders and the arithmetic are built of dozens.

## 6. Not modelled

`PROJECT.json` ("components") says for each part why. In short:

- programs without state of their own or whose logic is in code that is not here: the JSON objects (thin wrappers of cJSON), the camera viewer,
  printing and restarting examples, the SVD tool, an example that is switched off with `#if 0`; the flash swap, whose only loop runs
  over a size that is 0;
- start-up code that runs once, alone, and stops the chip when it fails;
- parts of the libraries that the build switches off or no program reaches: in mongoose CGI, WebDAV, SSL, tunnels, scripting bindings, the JSON tools and the ports to other
  operating systems; in tjpgd descaling and other pixel formats; in micro-ecc the assembler versions and other word sizes;
- wording, layout and logging; the floating-point curve of the picture effect.
