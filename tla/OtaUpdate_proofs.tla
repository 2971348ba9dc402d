-------------------------- MODULE OtaUpdate_proofs --------------------------
(***************************************************************************)
(* Proofs about OtaUpdate, for every firmware there may be, every number   *)
(* of chunks and handles, with and without rollback.                       *)
(***************************************************************************)
EXTENDS OtaUpdate, TLAPS

\* The record of a partition that is not confirmed yet is the newest one.
\* Without it the records select Former, which is the firmware that installed
\* the update, and is whole.  What is or may be rolled back is not marked.
Unconfirmed(s) == otadata[s] \in {"new", "pending"}
Others         == Live(otadata) \ {newest}
Former         == IF Others = {} THEN Factory ELSE CHOOSE s \in Others : TRUE

Records ==
  /\ \A s \in OtaSlots : 
       Unconfirmed(s) => Rollback /\ s = newest /\ Former = updater /\ Valid(updater)
  /\ \A s \in OtaSlots : otadata[s] \in {"new", "pending", "aborted"} => s \notin marked
  /\ Valid(Factory)

\* The two tasks only run after the bootloader; until the answer to a
\* successful upload the partition running is the selected one, and it is no
\* longer new.
Phases ==
  /\ http = "down" <=> main = "init"
  /\ main # "init" => running \in Slots
  /\ running \in Slots /\ http # "reply" =>
       Selected(otadata) = running /\ StateOf(running) # "new"
  /\ main = "mark" => StateOf(running) = "pending"

\* An upload goes to another partition, and none is begun on trial.
Uploads ==
  /\ http \in {"recv", "reply"} =>
       partition \in OtaSlots \ {running} /\ StateOf(running) # "pending"
  /\ http = "recv" => /\ partition \notin marked
                      /\ flash[partition].size + remaining <= Chunks
                      /\ handles > 0
  /\ http = "reply" => main # "mark"

IInv == TypeOK /\ NeverBricked /\ Records /\ Phases /\ Uploads

USE EspOtaAssumption, HandlePoolAssumption

-----------------------------------------------------------------------------

\* What the records select.
LEMMA SelectedIs ==
  ASSUME NEW records \in [OtaSlots -> States], newest \in Slots
  PROVE  /\ newest \in Live(records) => Selected(records) = newest
         /\ Live(records) = {} => Selected(records) = Factory
         /\ newest \notin Live(records) /\ Live(records) # {} =>
              Selected(records) = CHOOSE s \in Live(records) : TRUE
         /\ Selected(records) \in Live(records) \cup {Factory}
         /\ Selected(records) \in Slots
  BY DEF Selected, Live, Slots

\* A whole image that is selected is the one that is loaded.
LEMMA LoadsValid ==
  ASSUME NEW s \in Slots, Valid(s)
  PROVE  LoadFrom(s) = s
  <1> DEFINE P(t) == t <= s /\ Valid(t) /\ \A u \in Slots : u <= s /\ Valid(u) => u <= t
  <1>1. P(s)
    BY DEF Slots, OtaSlots, Factory
  <1>2. \A t \in Slots : P(t) => t = s
    BY DEF Slots, OtaSlots, Factory
  <1>3. QED
    BY <1>1, <1>2 DEF LoadFrom

\* The initial states satisfy the invariant.
LEMMA InitIInv == Init => IInv
  <1> SUFFICES ASSUME Init PROVE IInv
    OBVIOUS
  <1> DEFINE good == CHOOSE i \in Good : TRUE
  <1>1. good \in Good
    OBVIOUS
  <1>2. PICK i \in Good : flash = [s \in Slots |-> [img  |-> i,
                                        size |-> IF s = Factory THEN Chunks ELSE 0]]
    BY DEF Init
  <1>3. TypeOK
    <2>1. flash \in [Slots -> [img : Images, size : 0 .. Chunks]]
      BY <1>2 DEF Images
    <2>2. QED
      BY <1>1, <2>1 DEF Init, TypeOK, Images, Slots, States
  <1>4. Valid(Factory)
    BY <1>2 DEF Valid, Slots
  <1>5. Live(otadata) = {} /\ Selected(otadata) = Factory
    BY DEF Init, Live, Selected
  <1>6. running \notin Slots
    BY DEF Init, Slots, OtaSlots, Unpowered, Factory
  <1>7. NeverBricked
    BY <1>4, <1>5, <1>6 DEF NeverBricked
  <1>8. Records
    BY <1>4 DEF Init, Records, Unconfirmed
  <1>9. Phases /\ Uploads
    BY <1>6 DEF Init, Phases, Uploads
  <1>10. QED
    BY <1>3, <1>7, <1>8, <1>9 DEF IInv

-----------------------------------------------------------------------------

\* What is read from the flash and the records stays if they do.
LEMMA Kept ==
  ASSUME UNCHANGED << flash, otadata, newest, history >>
  PROVE  /\ Records => Records'
         /\ Valid(Selected(otadata)) => Valid(Selected(otadata))'
         /\ Selected(otadata)' = Selected(otadata)
         /\ \A s \in Slots : Valid(s) => Valid(s)'
         /\ StateOf(running)' = StateOf(running')
  BY DEF history, Records, Unconfirmed, Others, Former, Live, Selected, Valid, StateOf

\* A reset, or a power failure, at any moment.
LEMMA DownStep ==
  ASSUME IInv, NEW how \in {Off, Unpowered}, Down(how)
  PROVE  IInv'
  <1> DEFINE good == CHOOSE i \in Good : TRUE
  <1>1. image' = good /\ good \in Images
    BY DEF Down, Memory0, Images
  <1>2. running' \notin Slots /\ running' \in {Off, Unpowered}
    BY DEF Down, Slots, OtaSlots, Factory, Off, Unpowered
  <1>3. TypeOK'
    BY <1>1, <1>2 DEF IInv, TypeOK, Down, Memory0, history
  <1>4. NeverBricked' /\ Records'
    BY <1>2, Kept DEF IInv, NeverBricked, Down
  <1>5. Phases' /\ Uploads'
    BY <1>2 DEF Down, Memory0, Phases, Uploads
  <1>6. QED
    BY <1>3, <1>4, <1>5 DEF IInv

\* Whatever is selected is loaded: it is enough to look at the records.
LEMMA BootLoads ==
  ASSUME IInv, Boot, NEW s \in Slots,
         Selected(GiveUpUnconfirmed) = s, Valid(s),
         otadata' \in [OtaSlots -> States], Selected(otadata)' = s,
         s \in OtaSlots => otadata'[s] # "new",
         Records'
  PROVE  IInv' /\ running' = s
  <1>1. running' = s
    BY LoadsValid DEF Boot, SelectBootPartition
  <1>2. /\ UNCHANGED << flash, newest, main, http, request, handles, history >>
        /\ main = "init" /\ http = "down"
    BY DEF Boot, SelectBootPartition, IInv, Phases, TypeOK
  <1>3. TypeOK'
    BY <1>1, <1>2 DEF IInv, TypeOK, request, history
  <1>4. NeverBricked'
    BY <1>1, <1>2 DEF NeverBricked, Valid
  <1>5. Phases' /\ Uploads'
    BY <1>1, <1>2 DEF Phases, Uploads, StateOf
  <1>6. QED
    BY <1>1, <1>3, <1>4, <1>5 DEF IInv

\* The bootloader, which gives an update up, puts a new one on trial or starts
\* what was running.
LEMMA BootStep ==
  ASSUME IInv, Boot
  PROVE  IInv' /\ ((\E s \in OtaSlots : otadata[s] = "pending") => running' = updater)
  <1> DEFINE records == GiveUpUnconfirmed
             sel     == Selected(records)
  <1>1. records \in [OtaSlots -> States] /\ newest \in Slots /\ otadata \in [OtaSlots -> States]
    BY DEF IInv, TypeOK, GiveUpUnconfirmed, States
  <1>2. UNCHANGED << flash, newest, history >>
    BY DEF Boot, SelectBootPartition
  <1>3. CASE \E s \in OtaSlots : otadata[s] = "pending"
    <2>1. PICK s \in OtaSlots : otadata[s] = "pending"
      BY <1>3
    <2>2. Rollback /\ s = newest /\ Former = updater /\ Valid(updater)
      BY <2>1 DEF IInv, Records, Unconfirmed
    <2>3. \A t \in OtaSlots : records[t] = IF t = newest THEN "aborted" ELSE otadata[t]
      BY <2>1, <2>2 DEF GiveUpUnconfirmed, IInv, Records, Unconfirmed
    <2>4. Live(records) = Others
      BY <2>3 DEF Live, Others
    <2>5. sel = updater /\ updater \in Slots
      BY <1>1, <2>2, <2>4, SelectedIs DEF Former, Others
    <2>6. \A t \in OtaSlots : records[t] \notin {"new", "pending"}
      BY <2>1, <2>2, <2>3 DEF IInv, Records, Unconfirmed
    <2>7. otadata' = records
      <3>1. updater \in OtaSlots => otadata[updater] # "new"
        BY <2>1, <2>2 DEF IInv, Records, Unconfirmed
      <3>2. QED
        BY <2>5, <3>1 DEF Boot, SelectBootPartition, StateOf, Slots, OtaSlots, Factory
    <2>8. Selected(otadata)' = updater
      BY <1>2, <2>5, <2>7 DEF Selected, Live
    <2>9. Records'
      <3>1. \A t \in OtaSlots : records[t] \in {"new", "pending", "aborted"} => t \notin marked
        BY <2>1, <2>2, <2>3 DEF IInv, Records
      <3>2. QED
        BY <1>2, <2>6, <2>7, <3>1 DEF IInv, Records, Unconfirmed, history, Valid
    <2>10. QED
      BY <1>1, <2>2, <2>5, <2>6, <2>7, <2>8, <2>9, BootLoads
  <1>4. CASE ~\E s \in OtaSlots : otadata[s] = "pending"
    <2>1. records = otadata
      BY <1>1, <1>4 DEF GiveUpUnconfirmed
    <2>2. Valid(sel) /\ sel \in Slots
      BY <1>1, <2>1, SelectedIs DEF IInv, NeverBricked
    <2>3. CASE sel \in OtaSlots /\ otadata[sel] = "new"
      <3>1. sel = newest /\ Rollback /\ Former = updater /\ Valid(updater) /\ sel \notin marked
        BY <2>3 DEF IInv, Records, Unconfirmed
      <3>2. otadata' = [s \in OtaSlots |-> IF s = newest THEN "pending" ELSE otadata[s]]
        BY <2>1, <2>3, <3>1 DEF Boot, SelectBootPartition, StateOf, WithSelectedState,
                                OtaSlots, Factory
      <3>3. Live(otadata') = Live(otadata) /\ newest \in Live(otadata)
        BY <2>3, <3>1, <3>2 DEF Live
      <3>4. Selected(otadata)' = sel
        BY <1>2, <3>1, <3>3 DEF Selected, Live
      <3>5. Records'
        <4>1. Former' = updater
          BY <1>2, <3>1, <3>3 DEF Former, Others, Live
        <4>2. \A s \in OtaSlots : Unconfirmed(s)' => s = newest
          BY <1>4, <3>2 DEF Unconfirmed, IInv, Records
        <4>3. \A s \in OtaSlots : otadata'[s] \in {"new", "pending", "aborted"} => s \notin marked
          BY <3>1, <3>2 DEF IInv, Records
        <4>4. QED
          BY <1>2, <3>1, <4>1, <4>2, <4>3 DEF IInv, Records, history, Valid
      <3>6. otadata' \in [OtaSlots -> States] /\ otadata'[sel] # "new"
        BY <1>1, <2>3, <3>1, <3>2 DEF States
      <3>7. QED
        BY <1>4, <2>2, <3>4, <3>5, <3>6, BootLoads
    <2>4. CASE ~(sel \in OtaSlots /\ otadata[sel] = "new")
      <3>1. otadata' = otadata
        BY <2>1, <2>4 DEF Boot, SelectBootPartition, StateOf
      <3>2. Selected(otadata)' = sel /\ Records'
        BY <1>2, <2>1, <3>1, Kept DEF IInv
      <3>3. QED
        BY <1>1, <1>4, <2>2, <2>4, <3>1, <3>2, BootLoads
    <2>5. QED
      BY <2>3, <2>4
  <1>5. QED
    BY <1>3, <1>4

\* app_main starts the server.
LEMMA HttpServerInitStep ==
  ASSUME IInv, HttpServerInit
  PROVE  IInv'
  <1>1. UNCHANGED << otaVars, request, handles, history >> /\ main' = "check" /\ http' = "wait"
        /\ running \in Slots /\ http = "down"
    BY DEF HttpServerInit, Runs, IInv, Phases
  <1>2. TypeOK'
    BY <1>1 DEF IInv, TypeOK, otaVars, request, history
  <1>3. NeverBricked' /\ Records'
    BY <1>1, Kept DEF IInv, NeverBricked, otaVars
  <1>4. Phases' /\ Uploads'
    BY <1>1, Kept DEF IInv, Phases, Uploads, otaVars, request, history
  <1>5. QED
    BY <1>2, <1>3, <1>4 DEF IInv

\* app_main finds out whether it runs on trial.
LEMMA ReadStateStep ==
  ASSUME IInv, ReadState
  PROVE  IInv'
  <1>1. UNCHANGED << otaVars, http, request, handles, history >> /\ main' \in {"mark", "idle"}
        /\ main = "check" /\ (main' = "mark" => StateOf(running) = "pending")
    BY DEF ReadState
  <1>2. TypeOK'
    BY <1>1 DEF IInv, TypeOK, otaVars, request, history
  <1>3. NeverBricked' /\ Records'
    BY <1>1, Kept DEF IInv, NeverBricked, otaVars
  <1>4. Phases'
    BY <1>1, Kept DEF IInv, Phases, otaVars
  <1>5. Uploads'
    BY <1>1, Kept DEF IInv, Uploads, otaVars, request, history
  <1>6. QED
    BY <1>2, <1>3, <1>4, <1>5 DEF IInv

\* app_main confirms the firmware: the record it changes is its own.
LEMMA MarkValidStep ==
  ASSUME IInv, MarkValid
  PROVE  IInv'
  <1>1. /\ UNCHANGED << flash, newest, running, http, request, handles, updater >>
        /\ main = "mark" /\ main' = "idle"
        /\ marked' = marked \cup {running}
        /\ otadata' = WithSelectedState(otadata, "valid")
    BY DEF MarkValid
  <1>2. running \in OtaSlots /\ otadata[running] = "pending" /\ http # "reply"
    BY <1>1 DEF IInv, Phases, Uploads, StateOf
  <1>3. Selected(otadata) = running /\ running = newest
    BY <1>2 DEF IInv, Phases, Records, Unconfirmed, Slots
  <1>4. otadata' = [s \in OtaSlots |-> IF s = running THEN "valid" ELSE otadata[s]]
    BY <1>1, <1>3 DEF WithSelectedState
  <1>5. newest \in Live(otadata') /\ Selected(otadata)' = running
    BY <1>1, <1>2, <1>3, <1>4 DEF Live, Selected
  <1>6. TypeOK'
    BY <1>1, <1>2, <1>4 DEF IInv, TypeOK, States, request
  <1>7. NeverBricked'
    BY <1>1, <1>2, <1>5 DEF IInv, NeverBricked, Valid, Slots
  <1>8. Records'
    BY <1>1, <1>2, <1>3, <1>4 DEF IInv, Records, Unconfirmed, Valid
  <1>9. Phases' /\ Uploads'
    BY <1>1, <1>2, <1>4, <1>5 DEF IInv, Phases, Uploads, StateOf, request
  <1>10. QED
    BY <1>6, <1>7, <1>8, <1>9 DEF IInv

-----------------------------------------------------------------------------

\* A confirmed firmware that runs is the selected one: no record is on trial.
LEMMA NoneOnTrial ==
  ASSUME IInv, Selected(otadata) = running, StateOf(running) \notin {"new", "pending"},
         NEW s \in OtaSlots
  PROVE  ~Unconfirmed(s)
  <1>1. SUFFICES ASSUME Unconfirmed(s) PROVE FALSE
    OBVIOUS
  <1>2. s = newest /\ s \in Live(otadata)
    BY <1>1 DEF IInv, Records, Unconfirmed, Live
  <1>3. s = running
    BY <1>2 DEF Selected
  <1>4. QED
    BY <1>1, <1>3 DEF StateOf, Unconfirmed

\* update_post_handler: another partition than the one running is erased.
LEMMA UpdatePostStep ==
  ASSUME IInv, NEW i \in Images, NEW len \in 0 .. Chunks, UpdatePost(i, len)
  PROVE  IInv'
  <1> DEFINE p == UpdatePartition
  <1>1. /\ UNCHANGED << otadata, newest, running, main, updater >>
        /\ partition' = p /\ image' = i /\ remaining' = len /\ handles' = handles + 1
        /\ flash' = [flash EXCEPT ![p] = [img |-> i, size |-> 0]]
        /\ marked' = marked \ {p} /\ http = "wait" /\ http' = "recv"
    BY DEF UpdatePost
  <1>2. StateOf(running) # "pending" /\ handles < HandlePool
    BY DEF UpdatePost, BeginOk
  <1>3. running \in Slots /\ Selected(otadata) = running /\ StateOf(running) # "new"
    BY <1>1 DEF IInv, Phases, TypeOK
  <1>4. p \in OtaSlots \ {running}
    BY <1>3 DEF UpdatePartition, NextUpdatePartition, Slots, OtaSlots, Factory
  <1>5. \A s \in OtaSlots : ~Unconfirmed(s)
    BY <1>2, <1>3, NoneOnTrial
  <1>6. Selected(otadata)' = running /\ StateOf(running)' = StateOf(running)
    BY <1>1, <1>3 DEF Selected, Live, StateOf
  <1>7. TypeOK'
    BY <1>1, <1>2, <1>4 DEF IInv, TypeOK, Slots
  <1>8. \A s \in Slots \ {p} : Valid(s) => Valid(s)'
    BY <1>1 DEF IInv, TypeOK, Valid
  <1>9. NeverBricked'
    BY <1>1, <1>3, <1>4, <1>6, <1>8 DEF IInv, NeverBricked
  <1>10. Records'
    BY <1>1, <1>4, <1>5, <1>8 DEF IInv, Records, Unconfirmed, Slots, OtaSlots, Factory
  <1>11. Phases'
    BY <1>1, <1>3, <1>6 DEF IInv, Phases
  <1>12. Uploads'
    BY <1>1, <1>2, <1>4, <1>6 DEF IInv, Uploads, TypeOK, Slots
  <1>13. QED
    BY <1>7, <1>9, <1>10, <1>11, <1>12 DEF IInv

\* A chunk goes to the partition that was erased, and fits.
LEMMA ReceiveChunkStep ==
  ASSUME IInv, ReceiveChunk
  PROVE  IInv'
  <1>1. /\ UNCHANGED << otadata, newest, running, main, http, partition, image, handles, history >>
        /\ flash' = [flash EXCEPT ![partition].size = @ + 1]
        /\ remaining' = remaining - 1 /\ remaining > 0 /\ http = "recv"
    BY DEF ReceiveChunk
  <1>2. /\ running \in Slots /\ Selected(otadata) = running
        /\ StateOf(running) \notin {"new", "pending"}
        /\ partition \in OtaSlots \ {running}
        /\ flash[partition].size + remaining <= Chunks
    BY <1>1 DEF IInv, Phases, Uploads, TypeOK
  <1>3. flash[partition] \in [img : Images, size : 0 .. Chunks] /\ remaining \in 0 .. Chunks
    BY <1>2 DEF IInv, TypeOK, Slots
  <1>4. flash'[partition] = [img |-> flash[partition].img, size |-> flash[partition].size + 1]
    BY <1>1, <1>2, <1>3 DEF IInv, TypeOK, Slots
  <1>5. \A s \in OtaSlots : ~Unconfirmed(s)
    BY <1>2, NoneOnTrial
  <1>6. Selected(otadata)' = running /\ StateOf(running)' = StateOf(running)
    BY <1>1, <1>2 DEF Selected, Live, StateOf
  <1>7. TypeOK'
    <2>1. flash' \in [Slots -> [img : Images, size : 0 .. Chunks]]
      BY <1>1, <1>2, <1>3 DEF IInv, TypeOK, Slots
    <2>2. QED
      BY <1>1, <1>3, <2>1 DEF IInv, TypeOK, history
  <1>8. \A s \in Slots \ {partition} : Valid(s) => Valid(s)'
    BY <1>1 DEF IInv, TypeOK, Valid
  <1>9. NeverBricked'
    BY <1>1, <1>2, <1>6, <1>8 DEF IInv, NeverBricked
  <1>10. Records'
    BY <1>1, <1>2, <1>5, <1>8 DEF IInv, Records, Unconfirmed, Slots, OtaSlots, Factory, history
  <1>11. Phases'
    BY <1>1, <1>2, <1>6 DEF IInv, Phases
  <1>12. Uploads'
    BY <1>1, <1>2, <1>3, <1>4, <1>6 DEF IInv, Uploads, history
  <1>13. QED
    BY <1>7, <1>9, <1>10, <1>11, <1>12 DEF IInv

\* A request that fails leaves the flash and the records as they are.
LEMMA RequestFailsStep ==
  ASSUME IInv, ReceiveFails \/ ActivateFails
  PROVE  IInv'
  <1>1. /\ UNCHANGED << otaVars, main, request, history >>
        /\ http = "recv" /\ http' = "wait"
        /\ handles' \in {handles, handles - 1}
    BY DEF ReceiveFails, ActivateFails
  <1>2. handles > 0
    BY <1>1 DEF IInv, Uploads
  <1>3. TypeOK'
    BY <1>1, <1>2 DEF IInv, TypeOK, otaVars, request, history
  <1>4. NeverBricked' /\ Records'
    BY <1>1, Kept DEF IInv, NeverBricked, otaVars
  <1>5. Phases' /\ Uploads'
    BY <1>1, Kept DEF IInv, Phases, Uploads, otaVars
  <1>6. QED
    BY <1>3, <1>4, <1>5 DEF IInv

\* The update is activated: the firmware running is what a rollback goes back to.
LEMMA ActivateStep ==
  ASSUME IInv, Activate
  PROVE  IInv'
  <1> DEFINE p     == partition
             state == IF Rollback THEN "new" ELSE "undefined"
  <1>1. /\ UNCHANGED << flash, running, main, request, marked >>
        /\ otadata' = [otadata EXCEPT ![p] = state] /\ newest' = p
        /\ updater' = running /\ handles' = handles - 1
        /\ http = "recv" /\ http' = "reply" /\ Valid(p)
    BY DEF Activate, SetBootPartition, ImageOk
  <1>2. /\ running \in Slots /\ Selected(otadata) = running
        /\ StateOf(running) \notin {"new", "pending"}
        /\ p \in OtaSlots \ {running} /\ p \notin marked /\ handles > 0
    BY <1>1 DEF IInv, Phases, Uploads, TypeOK
  <1>3. otadata' \in [OtaSlots -> States] /\ otadata'[p] = state
        /\ \A s \in OtaSlots \ {p} : otadata'[s] = otadata[s]
    BY <1>1, <1>2 DEF IInv, TypeOK, States
  <1>4. Selected(otadata)' = p
    BY <1>1, <1>2, <1>3 DEF Selected, Live
  <1>5. TypeOK'
    BY <1>1, <1>2, <1>3 DEF IInv, TypeOK, request, Slots
  <1>6. NeverBricked'
    BY <1>1, <1>4 DEF IInv, NeverBricked, Valid
  <1>7. Former' = running
    <2>1. Others' = Live(otadata) \ {p}
      BY <1>1, <1>3 DEF Others, Live
    <2>2. CASE running = Factory
      <3>1. Live(otadata) = {}
        BY <1>2, <2>2 DEF Selected, Live, OtaSlots, Factory
      <3>2. QED
        BY <2>1, <2>2, <3>1 DEF Former
    <2>3. CASE running \in OtaSlots
      <3>1. running \in Live(otadata)
        BY <1>2, <2>3, SelectedIs DEF IInv, TypeOK, OtaSlots, Factory
      <3>2. Others' = {running}
        BY <1>2, <2>1, <2>3, <3>1 DEF Live, OtaSlots
      <3>3. QED
        BY <3>2 DEF Former
    <2>4. QED
      BY <1>2, <2>2, <2>3 DEF Slots
  <1>8. Records'
    <2>1. \A s \in OtaSlots : Unconfirmed(s)' => s = p /\ Rollback
      BY <1>2, <1>3, NoneOnTrial DEF Unconfirmed
    <2>2. \A s \in OtaSlots : otadata'[s] \in {"new", "pending", "aborted"} => s \notin marked
      BY <1>2, <1>3 DEF IInv, Records
    <2>3. Valid(running)' /\ Valid(Factory)'
      BY <1>1, <1>2 DEF IInv, NeverBricked, Records, Valid
    <2>4. QED
      BY <1>1, <1>7, <2>1, <2>2, <2>3 DEF Records
  <1>9. StateOf(running)' = StateOf(running)
    BY <1>1, <1>2, <1>3 DEF StateOf
  <1>10. Phases'
    BY <1>1, <1>2, <1>9 DEF IInv, Phases
  <1>11. Uploads'
    BY <1>1, <1>2, <1>9 DEF IInv, Uploads, Phases, request
  <1>12. QED
    BY <1>5, <1>6, <1>8, <1>10, <1>11 DEF IInv

\* Nothing happens.
LEMMA StutterStep ==
  ASSUME IInv, UNCHANGED vars
  PROVE  IInv'
  <1> USE DEF vars, otaVars, request, history
  <1>1. TypeOK'
    BY DEF IInv, TypeOK
  <1>2. NeverBricked' /\ Records'
    BY Kept DEF IInv, NeverBricked
  <1>3. Phases' /\ Uploads'
    BY Kept DEF IInv, Phases, Uploads
  <1>4. QED
    BY <1>1, <1>2, <1>3 DEF IInv

\* Every step keeps the invariant.
LEMMA NextIInv ==
  ASSUME IInv, [Next]_vars
  PROVE  IInv'
  <1>1. CASE MainTask
    BY <1>1, HttpServerInitStep, ReadStateStep, MarkValidStep DEF MainTask
  <1>2. CASE HttpTask
    BY <1>2, ReceiveChunkStep, RequestFailsStep, ActivateStep, DownStep
       DEF HttpTask, Restart, Reset
  <1>3. CASE Client
    BY <1>3, UpdatePostStep DEF Client
  <1>4. CASE UpdateBeginFails \/ FaultyResets \/ PowerLoss
    BY <1>4, DownStep DEF UpdateBeginFails, FaultyResets, PowerLoss, Reset
  <1>5. CASE Boot
    BY <1>5, BootStep
  <1>6. CASE UNCHANGED vars
    BY <1>6, StutterStep
  <1>7. QED
    BY <1>1, <1>2, <1>3, <1>4, <1>5, <1>6 DEF Next

\* The invariant holds in every reachable state.
LEMMA Invariance == Spec => []IInv
  BY InitIInv, NextIInv, PTL DEF Spec

-----------------------------------------------------------------------------

\* TypeOK: an upload never runs past the end of its image, never goes to the
\* factory partition, and no more OTA handles are open than there is room for.
THEOREM TypeCorrect == Spec => []TypeOK
  <1>1. IInv => TypeOK
    BY DEF IInv
  <1>2. QED
    BY <1>1, Invariance, PTL

\* NeverBricked: wherever power fails, whatever was uploaded, the firmware that
\* runs and the one the bootloader would start are whole and checked.
THEOREM AlwaysBootable == Spec => []NeverBricked
  <1>1. IInv => NeverBricked
    BY DEF IInv
  <1>2. QED
    BY <1>1, Invariance, PTL

\* MarkedStays: firmware that marked itself valid is never rolled back.
THEOREM ConfirmedStays == Spec => []MarkedStays
  <1>1. IInv => MarkedStays
    BY DEF IInv, Records, MarkedStays
  <1>2. QED
    BY <1>1, Invariance, PTL

\* RollsBackToUpdater: the bootloader gives an unconfirmed update up for the
\* firmware that installed it.
THEOREM RollbackGoesBack == Spec => RollsBackToUpdater
  <1>1. ASSUME IInv, [Next]_vars, running \notin Slots, running' \in Slots,
               \E s \in OtaSlots : otadata[s] = "pending"
        PROVE  running' = updater
    <2>1. http = "down" /\ main = "init"
      BY <1>1 DEF IInv, Phases, TypeOK
    <2>2. Boot
      BY <1>1, <2>1 DEF Next, vars, otaVars, MainTask, HttpServerInit, ReadState, MarkValid, Runs,
                        HttpTask, ReceiveChunk, ReceiveFails, Activate, ActivateFails, Restart,
                        Client, UpdatePost, UpdateBeginFails, FaultyResets, PowerLoss
    <2>3. QED
      BY <1>1, <2>2, BootStep
  <1>2. IInv /\ [Next]_vars =>
          [running \notin Slots /\ running' \in Slots
             /\ (\E s \in OtaSlots : otadata[s] = "pending")
           => running' = updater]_vars
    BY <1>1
  <1>3. QED
    BY <1>2, Invariance, PTL DEF Spec, RollsBackToUpdater
=============================================================================
