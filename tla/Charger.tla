------------------------------ MODULE Charger ------------------------------
(***************************************************************************)
(* The charger of the reserve battery (charger.c): a task that looks at    *)
(* the battery every second and, while the ignition is on, at the progress *)
(* of the charging every ten minutes.  In the test mode it leaves the      *)
(* battery alone, and the diagnostics switch the charging line by hand.    *)
(*                                                                         *)
(* A check looks at the test mode first and switches the line last, and    *)
(* the tester's request does the same in the task of the diagnostics: the  *)
(* mode may come and go in between.                                        *)
(*                                                                         *)
(* Voltage, temperature and lines are written by the task of gpio_ev.c;    *)
(* the functions of one check read them again and again, so every reading  *)
(* is a choice of its own.  A reading is what the code finds of it.        *)
(***************************************************************************)
EXTENDS Naturals

CONSTANTS ChargeInterval,  \* checks between two looks at the progress
          MaxIntervals     \* ACB_CH_MAX_TIME in intervals

ASSUME ChargerAssumption == {ChargeInterval, MaxIntervals} \subseteq Nat \ {0}

VARIABLES
  bat,    \* static variables of charger.c
  line,   \* the charging line, onCharge
  mode,   \* the outside: test mode, ON_OFF_MODE, the factory parameter TM
  under   \* under way: a check, a request to switch; was the line switched by hand since
          \* the last check

chargerVars == <<bat, line, mode, under>>

\* What the functions of one check read, in their order: a voltage outside 0.8 to 4.9 V;
\* one from 4.8 V; a temperature to charge at; ignition, terminal 30 and ON_OFF_MODE;
\* a voltage from 2.5 to 4.1 V; the ignition; a moving average that has fallen; one from 4.8 V.
Readings == [absent : BOOLEAN, high : BOOLEAN, normal : BOOLEAN, powered : BOOLEAN,
             low : BOOLEAN, ignition : BOOLEAN, peak : BOOLEAN, highLater : BOOLEAN]

ChargerInit ==
  /\ bat = [charge |-> "undefined", connection |-> "undefined", thermal |-> "undefined",
            resistance |-> "undefined", cnt |-> 0, time |-> 0]
  /\ line = FALSE
  /\ mode \in [test : {FALSE}, onOff : {TRUE}, tm : BOOLEAN]
  /\ under = [check |-> FALSE, request |-> FALSE, byHand |-> FALSE]

----------------------------------------------------------------------------
(* acbCheckTimerActions.                                                   *)

\* acbHasConnected, acbResistanceCheck, acbTempCheck.
Connection(r) == IF ~mode.onOff THEN "undefined" ELSE IF r.absent THEN "hasNot" ELSE "has"
Checked(r) ==
  LET has == Connection(r) = "has"
      judged(ok) == IF ~has THEN "undefined" ELSE IF ok THEN "normal" ELSE "abnormal" IN
  [bat EXCEPT !.connection = Connection(r), !.resistance = judged(~r.high),
              !.thermal = judged(r.normal)]

\* Mutants of Forbidden: a charging that goes on is not asked for the temperature; nor for
\* its time.
ForbiddenAtStart(b) ==
  \/ b.connection # "has"
  \/ b.thermal # "normal" /\ b.charge # "charging"
  \/ b.resistance = "abnormal" \/ b.time >= MaxIntervals

\* What acbCharger asks for before anything else.
Forbidden(b) ==
  b.connection # "has" \/ b.thermal # "normal" \/ b.resistance = "abnormal" \/ b.time >= MaxIntervals

\* acbCharger: without ignition or terminal 30 nothing is decided.
Decided(b, r) ==
  IF Forbidden(b) THEN [charge |-> "doNot", line |-> FALSE]
  ELSE IF ~r.powered THEN [charge |-> b.charge, line |-> line]
  ELSE IF r.low \/ b.charge = "charging" THEN [charge |-> "charging", line |-> TRUE]
  ELSE [charge |-> "charged", line |-> line]

\* setMaxVoltage: whatever is not charging has its time and its line taken back.
Settled(b, d) ==
  IF d.charge = "charging" THEN [b |-> [b EXCEPT !.charge = "charging"], line |-> d.line]
  ELSE [b |-> [b EXCEPT !.charge = d.charge, !.time = 0], line |-> FALSE]

----------------------------------------------------------------------------
(* The rest of charge_timer_handler.                                       *)

\* diffDetectAlg: a voltage that falls ends the charging; its finding of a high resistance
\* lasts until the next check.
Progress(s, r) ==
  IF s.b.charge # "charging" THEN s
  ELSE LET b == [s.b EXCEPT !.resistance = IF r.highLater THEN "abnormal" ELSE @] IN
       IF r.peak THEN [b |-> [b EXCEPT !.charge = "charged", !.time = 0], line |-> FALSE]
       ELSE [s EXCEPT !.b = [b EXCEPT !.time = @ + 1]]

Asleep(s) == [b |-> [s.b EXCEPT !.cnt = 0], line |-> FALSE]

Awake(s, r) ==
  IF s.b.cnt >= ChargeInterval
  THEN LET p == Progress(s, r) IN [p EXCEPT !.b = [p.b EXCEPT !.cnt = 1]]
  ELSE [s EXCEPT !.b = [s.b EXCEPT !.cnt = @ + 1]]

CheckBegins ==
  /\ ~under.check /\ ~mode.test
  /\ under' = [under EXCEPT !.check = TRUE]
  /\ UNCHANGED <<bat, line, mode>>

ChargeTimer ==
  /\ under.check
  /\ \E r \in Readings :
       LET b == Checked(r)
           s == Settled(b, Decided(b, r))
           h == IF r.ignition THEN Awake(s, r) ELSE Asleep(s) IN
       bat' = h.b /\ line' = h.line
  /\ under' = [under EXCEPT !.check = FALSE, !.byHand = FALSE]
  /\ UNCHANGED mode

----------------------------------------------------------------------------
(* The test mode, of the security access, and what a tester switches in it. *)

\* enableTestMode switches the charging off, but in a unit whose TM is set.
TestEntered ==
  /\ \/ ~mode.tm /\ mode' = [mode EXCEPT !.test = TRUE, !.onOff = TRUE] /\ line' = FALSE
     \/ mode.tm /\ mode' = [mode EXCEPT !.test = TRUE] /\ UNCHANGED line
  /\ UNCHANGED <<bat, under>>

\* resetProcedureSA, disableTestMode: the lines stay as they are.
TestLeft == mode.test /\ mode' = [mode EXCEPT !.test = FALSE] /\ UNCHANGED <<bat, line, under>>

RequestBegins ==
  /\ ~under.request /\ mode.test
  /\ under' = [under EXCEPT !.request = TRUE]
  /\ UNCHANGED <<bat, line, mode>>

\* Every state the tester asks for, whatever the battery.
SetDOStates ==
  /\ under.request
  /\ line' \in BOOLEAN
  /\ mode' \in {[mode EXCEPT !.onOff = on] : on \in BOOLEAN}
  /\ under' = [under EXCEPT !.request = FALSE, !.byHand = TRUE]
  /\ UNCHANGED bat

\* The going to sleep, and the ignition that ends it.
OnOffMode ==
  /\ mode' = [mode EXCEPT !.onOff = ~@]
  /\ UNCHANGED <<bat, line, under>>

ChargerNext ==
  \/ CheckBegins \/ ChargeTimer
  \/ TestEntered \/ TestLeft \/ RequestBegins \/ SetDOStates
  \/ OnOffMode
ChargerSpec == ChargerInit /\ [][ChargerNext]_chargerVars

----------------------------------------------------------------------------
(* Properties.                                                             *)

ChargerTypeOK ==
  /\ bat \in [charge : {"undefined", "doNot", "charging", "charged"},
              connection : {"undefined", "has", "hasNot"},
              thermal : {"undefined", "normal", "abnormal"},
              resistance : {"undefined", "normal", "abnormal"},
              cnt : 0..ChargeInterval, time : 0..MaxIntervals]
  /\ line \in BOOLEAN /\ mode \in [test : BOOLEAN, onOff : BOOLEAN, tm : BOOLEAN]
  /\ under \in [check : BOOLEAN, request : BOOLEAN, byHand : BOOLEAN]

\* A battery that is charged, but for a tester's hand on the line since the last check, is
\* there, was neither too cold nor too hot when it was looked at last and is meant to be
\* charged, whatever was read between the looks, however the charging was interrupted and
\* whenever the test mode came and went; the first check after the test mode takes back
\* what the tester left (charger.c:130-155, 336-449; writeDataByIdentifier_2E.c:487-499).
ChargesWhatIsFit ==
  line => \/ under.byHand
          \/ bat.charge = "charging" /\ bat.connection = "has" /\ bat.thermal = "normal"

=============================================================================
