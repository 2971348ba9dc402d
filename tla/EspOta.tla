------------------------------ MODULE EspOta ------------------------------
(***************************************************************************)
(* What survives a reset in the softap_ota example, outside the repository *)
(* and modelled from how main.c and bootloader_start.c use it: the three   *)
(* application partitions, the otadata records of the esp-idf OTA library  *)
(* and the choice the bootloader makes from them.                          *)
(*                                                                         *)
(* Partitions are numbered as the bootloader numbers them: -1 is factory,  *)
(* 0 and 1 are ota_0 and ota_1.  Firmware is a value: Good firmware is     *)
(* this program, Faulty firmware is well formed but resets before it marks *)
(* itself valid, Corrupt firmware does not pass the image check.  A write  *)
(* or a rewrite of one otadata record is one step.                         *)
(***************************************************************************)
EXTENDS Integers

CONSTANTS
  Good, Faulty, Corrupt,   \* the firmware there is, by what it does
  Chunks,                  \* pieces in which a whole image is received
  Rollback                 \* CONFIG_BOOTLOADER_APP_ROLLBACK_ENABLE

ASSUME EspOtaAssumption ==
  /\ Chunks \in Nat \ {0}
  /\ Rollback \in BOOLEAN
  /\ Good # {}
  /\ Good \cap Faulty = {} /\ Good \cap Corrupt = {} /\ Faulty \cap Corrupt = {}

VARIABLES
  flash,     \* per partition, the firmware written and how much of it
  otadata,   \* per OTA partition, the state in its record, "none" without one
  newest,    \* the partition the newest record is of, Factory without one
  running    \* the partition running; Off after a reset, Unpowered after
             \* a power failure, until the bootloader has run

otaVars == << flash, otadata, newest, running >>

Images   == Good \cup Faulty \cup Corrupt
Factory  == -1
OtaSlots == 0 .. 1
Slots    == {Factory} \cup OtaSlots
Off       == -2
Unpowered == -3
States   == {"none", "new", "pending", "valid", "aborted", "undefined"}

\* A partition holds a whole image that passes the check.
Valid(s) == flash[s].size = Chunks /\ flash[s].img \notin Corrupt

StateOf(s) == IF s \in OtaSlots THEN otadata[s] ELSE "none"

\* The partition the records select: the newest one not rolled back.
Live(records) == { s \in OtaSlots : records[s] \notin {"none", "aborted"} }
Selected(records) ==
  IF newest \in Live(records) THEN newest
  ELSE IF Live(records) = {} THEN Factory
  ELSE CHOOSE s \in Live(records) : TRUE

\* esp_ota_get_next_update_partition(NULL)
NextUpdatePartition == IF running = Factory THEN 0 ELSE (running + 1) % 2

\* esp_ota_set_boot_partition: the record becomes the newest one.
SetBootPartition(s) ==
  /\ otadata' = [otadata EXCEPT ![s] = IF Rollback THEN "new" ELSE "undefined"]
  /\ newest' = s

\* esp_ota_mark_app_valid_cancel_rollback changes the selected record.
WithSelectedState(records, state) ==
  [s \in OtaSlots |-> IF s = Selected(records) THEN state ELSE records[s]]

(***************************************************************************)
(* The bootloader.  With rollback an update that was started once and did  *)
(* not mark itself valid is given up, and a new one is started on trial.   *)
(* A partition that does not pass the check is passed over for the next    *)
(* lower one, in the end for factory.                                      *)
(***************************************************************************)
GiveUpUnconfirmed ==
  [s \in OtaSlots |-> IF Rollback /\ otadata[s] = "pending" THEN "aborted" ELSE otadata[s]]

LoadFrom(s) ==
  CHOOSE t \in Slots : /\ t <= s /\ Valid(t)
                       /\ \A u \in Slots : u <= s /\ Valid(u) => u <= t

SelectBootPartition ==
  LET records == GiveUpUnconfirmed
      s       == Selected(records)
  IN  /\ otadata' = IF s # Factory /\ StateOf(s) = "new"
                    THEN WithSelectedState(records, "pending") ELSE records
      /\ running' = LoadFrom(s)
      /\ UNCHANGED << flash, newest >>
============================================================================
