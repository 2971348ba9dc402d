------------------------------ MODULE UlpWake ------------------------------
(***************************************************************************)
(* The ulp_riscv example: the ULP coprocessor polls a pin (ulp/main.c) and *)
(* wakes the main CPU (app_main) when the pin changed.  They share         *)
(* gpio_level_previous in RTC memory.  The ULP program ends with every     *)
(* wakeup, and its timer starts it again from the beginning, whether the   *)
(* main CPU is awake or asleep by then.                                    *)
(*                                                                         *)
(* A wakeup raised while the main CPU is still awake may or may not be     *)
(* remembered until it sleeps: the hardware is outside the repository.     *)
(***************************************************************************)
EXTENDS Integers

Levels == {"low", "high"}

VARIABLES
  slow,                  \* the input only changes while the ULP polls and the
                         \* main CPU sleeps; fixed for a behaviour
  pin,                   \* level of GPIO 0
  gpio_level,            \* ULP: the sample just taken
  gpio_level_previous,   \* ULP, read by the main CPU
  ulp,                   \* where the ULP program is
  main,                  \* where app_main is
  wakeup,                \* a wakeup is waiting for the main CPU to sleep
  cause,                 \* esp_sleep_get_wakeup_cause
  reported               \* the level printed last, or "none"

ulpVars == << gpio_level, gpio_level_previous, ulp >>
vars == << slow, pin, ulpVars, main, wakeup, cause, reported >>

Init ==
  /\ slow \in BOOLEAN /\ pin \in Levels
  /\ gpio_level = "low" /\ gpio_level_previous = "low"
  /\ ulp = "unloaded" /\ main = "start" /\ wakeup = FALSE
  /\ cause = "other" /\ reported = "none"

\* The ULP polls, the main CPU sleeps and no wakeup is on its way.
Quiet == ulp = "poll" /\ main = "asleep" /\ ~wakeup

PinChanges ==
  /\ slow => Quiet
  /\ pin' \in Levels \ {pin}
  /\ UNCHANGED << slow, ulpVars, main, wakeup, cause, reported >>

-----------------------------------------------------------------------------
(* ulp/main.c *)

\* Every start takes the level of the moment as the one to compare with.
UlpSample ==
  /\ ulp = "start"
  /\ gpio_level' = pin
  /\ ulp' = "store"
  /\ UNCHANGED << slow, pin, gpio_level_previous, main, wakeup, cause, reported >>

UlpStore ==
  /\ ulp = "store"
  /\ gpio_level_previous' = gpio_level
  /\ ulp' = "poll"
  /\ UNCHANGED << slow, pin, gpio_level, main, wakeup, cause, reported >>

UlpPoll ==
  /\ ulp = "poll"
  /\ gpio_level' = pin
  /\ ulp' = "compare"
  /\ UNCHANGED << slow, pin, gpio_level_previous, main, wakeup, cause, reported >>

\* Slip: the level is saved after the main CPU was woken, at the next start.
SavedLevelLate == gpio_level_previous

SavedLevel == gpio_level

\* Slip: only a rising level wakes the main CPU.
RaiseOnRise == gpio_level = "high"

Raise == TRUE

\* A change is saved, the main CPU is woken and the program ends.  Awake, the
\* main CPU may miss it.
UlpCompare ==
  /\ ulp = "compare"
  /\ IF gpio_level # gpio_level_previous
     THEN /\ gpio_level_previous' = SavedLevel
          /\ ulp' = "halted"
          /\ IF ~Raise THEN wakeup' = wakeup
             ELSE IF main = "asleep" THEN wakeup' = TRUE
             ELSE wakeup' \in {wakeup, TRUE}
     ELSE ulp' = "poll" /\ UNCHANGED << gpio_level_previous, wakeup >>
  /\ UNCHANGED << slow, pin, gpio_level, main, cause, reported >>

\* The timer, external: 20 ms after the program ended it is started again.
UlpTimer ==
  /\ ulp = "halted"
  /\ ulp' = "start"
  /\ UNCHANGED << slow, pin, gpio_level, gpio_level_previous, main, wakeup, cause, reported >>

-----------------------------------------------------------------------------
(* app_main *)

\* Slip: the test of the wakeup cause is the wrong way round.
LoadNeededInverted == cause = "ulp"

LoadNeeded == cause # "ulp"

\* Not woken by the ULP: the program is loaded, its variables cleared, and
\* started.  Otherwise the level is read and printed.
MainStart ==
  /\ main = "start"
  /\ main' = "delay"
  /\ IF LoadNeeded
     THEN gpio_level' = "low" /\ gpio_level_previous' = "low" /\ ulp' = "start"
     ELSE UNCHANGED ulpVars
  /\ reported' = IF cause = "ulp" THEN gpio_level_previous ELSE reported
  /\ UNCHANGED << slow, pin, wakeup, cause >>

MainSleep ==
  /\ main = "delay"
  /\ main' = "asleep"
  /\ UNCHANGED << slow, pin, ulpVars, wakeup, cause, reported >>

\* External: the wakeup restarts the main CPU, which begins app_main again.
MainWakes ==
  /\ main = "asleep" /\ wakeup
  /\ main' = "start" /\ wakeup' = FALSE /\ cause' = "ulp"
  /\ UNCHANGED << slow, pin, ulpVars, reported >>

Ulp  == UlpSample \/ UlpStore \/ UlpPoll \/ UlpCompare \/ UlpTimer
Main == MainStart \/ MainSleep \/ MainWakes

Next == Ulp \/ Main \/ PinChanges

\* Both processors run; the pin need not change.
Spec == Init /\ [][Next]_vars /\ WF_vars(Ulp) /\ WF_vars(Main)

-----------------------------------------------------------------------------

\* Types of the two programs' state; the ULP program is loaded before the main
\* CPU gets near sleeping.
TypeOK ==
  /\ slow \in BOOLEAN
  /\ pin \in Levels /\ gpio_level \in Levels /\ gpio_level_previous \in Levels
  /\ ulp \in {"unloaded", "start", "store", "poll", "compare", "halted"}
  /\ main \in {"start", "delay", "asleep"} /\ wakeup \in BOOLEAN
  /\ cause \in {"other", "ulp"} /\ reported \in Levels \cup {"none"}
  /\ main # "start" => ulp # "unloaded"

\* "Poll a gpio and wakeup the main CPU when it changes its state": once the
\* pin stays at a level, that is the level printed last (if any was printed).
Follows ==
  \A level \in Levels :
    <>[](pin = level) => <>[](reported \in {"none", level})

\* So it is for an input that only changes while the ULP polls and the main CPU
\* sleeps; any faster input can change unseen while the ULP program is halted,
\* or be missed while the main CPU prints.
FollowsSlowInput == slow => Follows

\* A change the ULP can see while the main CPU sleeps wakes the main CPU, unless
\* the pin changes back first.
ChangeWakes ==
  \A level \in Levels :
    (Quiet /\ pin = level /\ gpio_level_previous # level)
      ~> (main = "start" \/ pin # level)

\* After every wakeup the ULP polls again, and a wakeup raised is answered.
KeepsPolling == []<>(ulp = "poll") /\ (wakeup ~> main = "start")
============================================================================
