------------------------------ MODULE MCBoard ------------------------------
(***************************************************************************)
(* What the driver sees and hears of the unit, and its inputs, on small    *)
(* instances: the lamps, the player, the self-test, the buttons and the    *)
(* charger of the backup battery.  They share no variable, so one of them  *)
(* at a time takes steps, the subject, and the others stay where they      *)
(* begin.  A run chooses its subjects.                                     *)
(***************************************************************************)
EXTENDS Indication, APlayer, SelfTest, Gpio, Charger

CONSTANT Subjects  \* which of the five take steps in a run

VARIABLE subject

MCTones == TestTones

boardVars == <<indVars, apVars, selfTestVars, gpioVars, chargerVars, subject>>

BoardInit ==
  /\ subject \in Subjects
  /\ IndInit
  /\ subject # "Indication" => ~show.activated /\ ~car.cherry /\ ~car.twoWire
  /\ ApInit
  /\ StInit /\ (subject # "SelfTest" => test.state = "IDLE")
  /\ GpioInit /\ (subject # "Gpio" => unit = "standard")
  /\ ChargerInit /\ (subject # "Charger" => ~mode.tm)

BoardNext ==
  \/ /\ subject = "Indication" /\ IndNext
     /\ UNCHANGED <<apVars, selfTestVars, gpioVars, chargerVars, subject>>
  \/ /\ subject = "APlayer" /\ ApNext
     /\ UNCHANGED <<indVars, selfTestVars, gpioVars, chargerVars, subject>>
  \/ /\ subject = "SelfTest" /\ StNext
     /\ UNCHANGED <<indVars, apVars, gpioVars, chargerVars, subject>>
  \/ /\ subject = "Gpio" /\ GpioNext
     /\ UNCHANGED <<indVars, apVars, selfTestVars, chargerVars, subject>>
  \/ /\ subject = "Charger" /\ ChargerNext
     /\ UNCHANGED <<indVars, apVars, selfTestVars, gpioVars, subject>>

\* The threads of the player: each goes on, and so do the sound and its timer, until two
\* results have crossed.
PlayerFairness ==
  /\ \A t \in PlayerThreads : WF_apVars(subject = "APlayer" /\ ~crossed /\ ApStep(t))
  /\ WF_apVars(subject = "APlayer" /\ ~crossed /\ (SoundEnds \/ UrcArrives))
  /\ WF_apVars(subject = "APlayer" /\ ~crossed /\ TimerFires)

TestFairness ==
  /\ \A t \in Threads : WF_selfTestVars(subject = "SelfTest" /\ StThread(t))
  /\ WF_selfTestVars(subject = "SelfTest" /\ StReports)
  /\ WF_selfTestVars(subject = "SelfTest" /\ ConfirmExpires)

BoardFairness ==
  /\ WF_indVars(subject = "Indication" /\ IndTaskNext)
  /\ WF_indVars(subject = "Indication" /\ SettersNext)
  /\ PlayerFairness
  /\ TestFairness

\* The types of all five (see there).
TypeOK == IndTypeOK /\ ApTypeOK /\ StTypeOK /\ GpioTypeOK /\ ChargerTypeOK

BoardSpec == BoardInit /\ [][BoardNext]_boardVars /\ BoardFairness
============================================================================
