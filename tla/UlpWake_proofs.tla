--------------------------- MODULE UlpWake_proofs ---------------------------
(***************************************************************************)
(* Proofs about UlpWake: its types, and why a slow input is followed.      *)
(*                                                                         *)
(* A change of a slow input happens while the ULP polls and the main CPU   *)
(* sleeps.  From then until the ULP polls again the input stands still, so *)
(* everything the two programs read of it on the way has the level it has  *)
(* now; what they read before a change is one of the two programs' debts.  *)
(***************************************************************************)
EXTENDS UlpWake, TLAPS

\* The program is loaded by the first start of app_main only, and that start
\* has nothing to print.
LoadedOnce ==
  /\ ulp = "unloaded" <=> main = "start" /\ cause = "other"
  /\ ulp = "unloaded" => ~wakeup
  /\ cause = "other" => reported = "none"

\* A wakeup is on its way to the main CPU or the main CPU is up.
Stirring == main # "asleep" \/ wakeup

\* What the ULP program knows of a slow input.
KnowsInput ==
  slow =>
    /\ ulp \in {"store", "compare"} => gpio_level = pin
    /\ ulp \in {"poll", "compare"} /\ Stirring => gpio_level_previous = pin
    /\ ulp = "halted" => gpio_level_previous = pin
    /\ ulp \in {"start", "store"} =>
         gpio_level_previous = pin \/ (cause = "other" /\ ~wakeup)

\* The main CPU has printed the level the ULP saved last, or is about to, or has
\* not printed anything.
PrintedOrDue ==
  slow => \/ reported \in {"none", gpio_level_previous}
          \/ wakeup
          \/ main = "start" /\ cause = "ulp"

IInv == TypeOK /\ LoadedOnce /\ KnowsInput /\ PrintedOrDue

\* Whenever the ULP is back to polling and the main CPU is back asleep, what was
\* printed last is the level the ULP compares the input with.
NoChangeLost == slow /\ Quiet => reported \in {"none", gpio_level_previous}

-----------------------------------------------------------------------------

LEMMA InitIInv == Init => IInv
  BY DEF Init, Levels, IInv, TypeOK, LoadedOnce, KnowsInput, PrintedOrDue

LEMMA NextTypeOK == TypeOK /\ LoadedOnce /\ [Next]_vars => TypeOK'
  <1> SUFFICES ASSUME TypeOK, LoadedOnce, [Next]_vars PROVE TypeOK'
    OBVIOUS
  <1> USE DEF TypeOK
  <1>1. CASE UNCHANGED vars
    BY <1>1 DEF vars, ulpVars
  <1>2. CASE Ulp
    <2>1. CASE UlpSample
      BY <2>1 DEF UlpSample
    <2>2. CASE UlpStore
      BY <2>2 DEF UlpStore
    <2>3. CASE UlpPoll
      BY <2>3 DEF UlpPoll
    <2>4. CASE UlpCompare
      BY <2>4 DEF UlpCompare, SavedLevel, Raise
    <2>5. CASE UlpTimer
      BY <2>5 DEF UlpTimer
    <2>6. QED
      BY <1>2, <2>1, <2>2, <2>3, <2>4, <2>5 DEF Ulp
  <1>3. CASE Main
    <2>1. CASE MainStart
      <3>1. ulp' # "unloaded"
        BY <2>1 DEF MainStart, LoadNeeded, LoadedOnce, ulpVars
      <3>2. gpio_level' \in Levels /\ gpio_level_previous' \in Levels
        BY <2>1 DEF MainStart, ulpVars, Levels
      <3>3. QED
        BY <2>1, <3>1, <3>2 DEF MainStart, ulpVars
    <2>2. CASE MainSleep
      BY <2>2 DEF MainSleep, ulpVars
    <2>3. CASE MainWakes
      BY <2>3 DEF MainWakes, ulpVars
    <2>4. QED
      BY <1>3, <2>1, <2>2, <2>3 DEF Main
  <1>4. CASE PinChanges
    BY <1>4 DEF PinChanges, ulpVars
  <1>5. QED
    BY <1>1, <1>2, <1>3, <1>4 DEF Next

LEMMA NextLoadedOnce == TypeOK /\ LoadedOnce /\ [Next]_vars => LoadedOnce'
  <1> SUFFICES ASSUME TypeOK, LoadedOnce, [Next]_vars PROVE LoadedOnce'
    OBVIOUS
  <1> USE DEF LoadedOnce
  <1>1. CASE UNCHANGED vars
    BY <1>1 DEF vars, ulpVars
  <1>2. CASE Ulp
    BY <1>2 DEF Ulp, UlpSample, UlpStore, UlpPoll, UlpCompare, UlpTimer, Raise
  <1>3. CASE Main
    BY <1>3 DEF Main, MainStart, MainSleep, MainWakes, LoadNeeded, ulpVars, TypeOK
  <1>4. CASE PinChanges
    BY <1>4 DEF PinChanges, ulpVars
  <1>5. QED
    BY <1>1, <1>2, <1>3, <1>4 DEF Next

LEMMA NextKnowsInput == IInv /\ [Next]_vars => KnowsInput'
  <1> SUFFICES ASSUME IInv, [Next]_vars PROVE KnowsInput'
    OBVIOUS
  <1> USE DEF IInv, TypeOK, LoadedOnce, KnowsInput, Stirring
  <1>1. CASE UNCHANGED vars
    BY <1>1 DEF vars, ulpVars
  <1>2. CASE UlpSample
    BY <1>2 DEF UlpSample
  <1>3. CASE UlpStore
    BY <1>3 DEF UlpStore
  <1>4. CASE UlpPoll
    BY <1>4 DEF UlpPoll
  <1>5. CASE UlpCompare
    BY <1>5 DEF UlpCompare, SavedLevel, Raise
  <1>6. CASE UlpTimer
    BY <1>6 DEF UlpTimer
  <1>7. CASE MainStart
    BY <1>7 DEF MainStart, LoadNeeded, ulpVars
  <1>8. CASE MainSleep
    BY <1>8 DEF MainSleep, ulpVars
  <1>9. CASE MainWakes
    BY <1>9 DEF MainWakes, ulpVars
  <1>10. CASE PinChanges
    BY <1>10 DEF PinChanges, Quiet, ulpVars
  <1>11. QED
    BY <1>1, <1>2, <1>3, <1>4, <1>5, <1>6, <1>7, <1>8, <1>9, <1>10
       DEF Next, Ulp, Main

LEMMA NextPrintedOrDue == IInv /\ [Next]_vars => PrintedOrDue'
  <1> SUFFICES ASSUME IInv, [Next]_vars PROVE PrintedOrDue'
    OBVIOUS
  <1> USE DEF IInv, TypeOK, LoadedOnce, PrintedOrDue
  <1>1. CASE UNCHANGED vars
    BY <1>1 DEF vars, ulpVars
  <1>2. CASE UlpSample \/ UlpPoll \/ UlpTimer
    BY <1>2 DEF UlpSample, UlpPoll, UlpTimer
  <1>3. CASE UlpStore
    BY <1>3 DEF UlpStore, KnowsInput
  <1>4. CASE UlpCompare
    BY <1>4 DEF UlpCompare, SavedLevel, Raise, KnowsInput, Stirring
  <1>5. CASE Main
    BY <1>5 DEF Main, MainStart, MainSleep, MainWakes, LoadNeeded, ulpVars
  <1>6. CASE PinChanges
    BY <1>6 DEF PinChanges, ulpVars
  <1>7. QED
    BY <1>1, <1>2, <1>3, <1>4, <1>5, <1>6 DEF Next, Ulp

LEMMA Inductive == Spec => []IInv
  <1>1. IInv /\ [Next]_vars => IInv'
    BY NextTypeOK, NextLoadedOnce, NextKnowsInput, NextPrintedOrDue DEF IInv
  <1>2. QED
    BY InitIInv, <1>1, PTL DEF Spec

-----------------------------------------------------------------------------

\* The two programs' variables keep their types, and the ULP program is loaded
\* before the main CPU gets near sleeping (app_main, ulp/main.c).
THEOREM TypeCorrect == Spec => []TypeOK
  <1>1. IInv => TypeOK
    BY DEF IInv
  <1>2. QED
    BY Inductive, <1>1, PTL

\* A change of an input that only changes while the ULP polls and the main CPU
\* sleeps is never lost between the two processors: before both are back in
\* those places, the main CPU has printed the level the ULP program saved last,
\* wherever its restarts by the timer came in.
THEOREM SlowChangesPrinted == Spec => []NoChangeLost
  <1>1. IInv => NoChangeLost
    BY DEF IInv, TypeOK, PrintedOrDue, NoChangeLost, Quiet
  <1>2. QED
    BY Inductive, <1>1, PTL
=============================================================================
