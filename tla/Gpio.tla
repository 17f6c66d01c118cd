-------------------------------- MODULE Gpio --------------------------------
(***************************************************************************)
(* The SOS button and the ignition (gpio_ev.c).  A task reads the lines    *)
(* every 100 ms and tells presses, a torn-off button, a button that        *)
(* sticks, a manual call and the start of a self-test apart by counting    *)
(* cycles.  Each cycle is a step: the lines may read anything in every one.*)
(*                                                                         *)
(* The model number is fixed when the parameters are loaded                *)
(* (factory_param.c:84), so every unit is one with CAN and starts its      *)
(* self-test with the SOS button; what differs is the beep: the standard   *)
(* one, which knows no torn-off button, or one of two wires, whose button  *)
(* is read from a voltage.                                                 *)
(*                                                                         *)
(* The events go through a mailbox to GPIO_task, which calls gpio_cb of    *)
(* M2MB_main.c with them in the same order; here they are the value of     *)
(* `sent' and what they do to the failure of the button is done at once.   *)
(* Counters that are only compared stop one above what they are compared   *)
(* with.  Events gpio_cb only writes to the log are left out.              *)
(***************************************************************************)
EXTENDS Naturals, Sequences, SequencesExt

CONSTANTS ManualTicks,  \* TIME_MANUAL_CALL_ERA in cycles
          FastTicks,    \* AVERAGE_FAST_PRESS_TIME
          PauseTicks,   \* PAUSE_TIME
          StuckTicks,   \* STUCK_TIME
          IgnTicks,     \* IGN_FIX_TIME
          Presses       \* short presses that start the self-test

ASSUME GpioAssumption ==
  {ManualTicks, FastTicks, PauseTicks, StuckTicks, IgnTicks, Presses} \subseteq Nat \ {0}

VARIABLES
  gpio,   \* static variables of gpio_ev.c
  unit,   \* the beep: standard, revision 0, or of two wires
  sent,   \* events of the last step
  sosBreak,  \* the failure of the SOS button, set_sos_break_failure
  seen    \* history: how the button was pressed, torn off and cleared

gpioVars == <<gpio, unit, sent, sosBreak, seen>>

Beeps == {"standard", "twoWire"}

GpioInit ==
  /\ gpio = [isInit |-> FALSE, sos |-> TRUE, diag |-> FALSE, service |-> FALSE,
             stuckCnt |-> 0, stuck |-> FALSE, ignition |-> FALSE, ignCnt |-> 0, ignRead |-> 0,
             hasEraCall |-> FALSE, manual |-> 0, iter |-> 0, test |-> 0, pause |-> 0]
  /\ unit \in Beeps
  /\ sent = <<"EV_SOS_UNSTUCK">> /\ sosBreak = FALSE
  /\ seen = [held |-> 0, idle |-> 0, series |-> 0, cleared |-> FALSE, straight |-> FALSE]

UpTo(n, limit) == IF n > limit THEN limit ELSE n
When(condition, event) == IF condition THEN <<event>> ELSE <<>>

\* What a cycle reads: the button, which the standard beep does not see torn off and which
\* counts as free while ON_OFF_MODE is off, ignition (0 is on), the service button.
Lines == [btn : IF unit = "twoWire" THEN {"free", "down", "torn"} ELSE {"free", "down"},
          ign : 0..1, service : 0..1]

----------------------------------------------------------------------------
(* watchProcess, part by part; g is what the part before has left.         *)

\* currentDiagSosState of the standard beep without diagnostics and sos_on_adc of two wires:
\* a button torn off counts as released.
SosNow(in) == in.btn = "down"
DiagNow(in) == in.btn # "torn"

SosEvents(in) ==
  LET line == When(DiagNow(in) # gpio.diag \/ ~gpio.isInit,
                   IF DiagNow(in) THEN "EV_DIAG_SOS_ON" ELSE "EV_DIAG_SOS_OFF")
      button == When(SosNow(in) /\ (~gpio.sos \/ ~gpio.isInit), "EV_SOS_BTN_PRESSED") IN
  IF unit = "standard" THEN button \o line ELSE line \o button

SosState(in) == [gpio EXCEPT !.sos = SosNow(in), !.diag = DiagNow(in)]

\* Mutant of StuckSos: the failure is left when the button comes free.
StuckForGood(g) == IF g.sos THEN [g EXCEPT !.stuckCnt = UpTo(@ + 1, StuckTicks + 1),
                                           !.stuck = @ \/ g.stuckCnt + 1 = StuckTicks]
                   ELSE [g EXCEPT !.stuckCnt = 0]

StuckSos(g) == IF g.sos THEN [g EXCEPT !.stuckCnt = UpTo(@ + 1, StuckTicks + 1),
                                       !.stuck = @ \/ g.stuckCnt + 1 = StuckTicks]
               ELSE [g EXCEPT !.stuckCnt = 0, !.stuck = FALSE]
StuckEvents(g) == When(g.sos /\ g.stuckCnt + 1 = StuckTicks, "EV_SOS_STUCK")
                  \o When(~g.sos /\ g.stuck, "EV_SOS_UNSTUCK")

\* currentKL15State: the ignition is believed after some equal readings.
KL15State(g, in) ==
  LET cnt == IF in.ign # g.ignRead THEN 0 ELSE g.ignCnt IN
  IF cnt >= IgnTicks
  THEN [g EXCEPT !.ignition = (in.ign = 0), !.ignCnt = 0, !.ignRead = in.ign]
  ELSE [g EXCEPT !.ignCnt = cnt + 1, !.ignRead = in.ign]
KL15Events(g, h) == When(~g.ignition /\ h.ignition, "EV_T15_ON")
                    \o When(g.ignition /\ ~h.ignition, "EV_T15_OFF")

ServiceState(g, in) == [g EXCEPT !.service = (in.service = 1)]
ServiceEvents(g, in) == When(in.service = 1 /\ (~g.service \/ ~g.isInit), "EV_SERVICE_BTN_ON")

ResetTest(g) == [g EXCEPT !.pause = 0, !.test = 0, !.iter = 0]

\* manualSos: held long enough, and once for each press.
Calls(g) == g.sos /\ g.manual > ManualTicks /\ ~g.hasEraCall
ManualSos(g) ==
  IF Calls(g) THEN [ResetTest(g) EXCEPT !.hasEraCall = TRUE, !.manual = 1]
  ELSE IF g.sos THEN [g EXCEPT !.manual = UpTo(@ + 1, ManualTicks + 1)]
  ELSE [g EXCEPT !.hasEraCall = FALSE, !.manual = 0]

\* Mutant of EraTestCall: a pause does not end the series.
EraTestCallPatient(g) ==
  IF g.sos THEN IF g.iter > FastTicks THEN ResetTest(g)
                ELSE [g EXCEPT !.pause = 0, !.iter = @ + 1]
  ELSE IF g.test = Presses + 1 /\ ~g.service
       THEN IF g.hasEraCall THEN ResetTest(g)
            ELSE [ResetTest(g) EXCEPT !.hasEraCall = TRUE, !.manual = 0]
  ELSE [g EXCEPT !.iter = 0, !.pause = UpTo(@ + 1, PauseTicks + 1),
                 !.test = IF g.pause = 0 THEN UpTo(@ + 1, Presses + 2) ELSE @]

\* eraTestCall: the count is one ahead of the presses, from the pause before the first.
EraTestCall(g) ==
  IF g.sos THEN IF g.iter > FastTicks THEN ResetTest(g)
                ELSE [g EXCEPT !.pause = 0, !.iter = @ + 1]
  ELSE IF g.test = Presses + 1 /\ ~g.service
       THEN IF g.hasEraCall THEN ResetTest(g)
            ELSE [ResetTest(g) EXCEPT !.hasEraCall = TRUE, !.manual = 0]
  ELSE IF g.pause > PauseTicks THEN ResetTest(g)
  ELSE [g EXCEPT !.iter = 0, !.pause = @ + 1,
                 !.test = IF g.pause = 0 THEN UpTo(@ + 1, Presses + 2) ELSE @]
TestOrdered(g) == ~g.sos /\ g.test = Presses + 1 /\ ~g.service /\ ~g.hasEraCall

----------------------------------------------------------------------------
(* The cycle.                                                              *)

\* set_sos_break_failure as gpio_cb calls it: the last of the events that set and clear the
\* failure decides.
Sets == {"EV_SOS_STUCK", "EV_DIAG_SOS_OFF"}
Clears == {"EV_SOS_UNSTUCK", "EV_DIAG_SOS_ON"}
BreakAfter(was, events) ==
  LET calls == {i \in 1..Len(events) : events[i] \in Sets \cup Clears} IN
  IF calls = {} THEN was ELSE events[CHOOSE i \in calls : \A j \in calls : j <= i] \in Sets

SentIn(events, e) == Contains(events, e)

\* The button is known to be torn off.
Torn(g) == g.isInit /\ ~g.diag

\* What has been pressed up to this cycle, whether the failure was cleared since the button
\* began to stick or to be torn off, and whether the button was torn off in the cycle it ceased to stick.
Seen(g) ==
  LET down == g.sos
      short == seen.held \in 1..(FastTicks + 1) IN
  [held |-> IF down THEN UpTo(seen.held + 1, FastTicks + 2) ELSE 0,
   idle |-> IF down THEN 0 ELSE UpTo(seen.idle + 1, PauseTicks + 3),
   series |-> IF seen.idle > PauseTicks + 1 THEN 0
              ELSE IF ~down /\ short THEN UpTo(seen.series + 1, Presses)
              ELSE IF ~down /\ seen.held > 0 THEN 0 ELSE seen.series,
   cleared |-> seen.cleared /\ ((gpio.stuck /\ g.stuck) \/ (Torn(gpio) /\ ~g.diag)),
   straight |-> ~g.diag /\ (seen.straight \/ gpio.stuck)]

WatchProcess(in) ==
  LET g1 == SosState(in)
      g2 == StuckSos(g1)
      g3 == KL15State(g2, in)
      g4 == ServiceState(g3, in)
      g5 == ManualSos(g4)
      g6 == EraTestCall(g5)
      events == SosEvents(in) \o StuckEvents(g1) \o KL15Events(g2, g3) \o ServiceEvents(g3, in)
                \o When(Calls(g4), "EV_ECALL_MANUAL_SOS")
                \o When(TestOrdered(g5), "EV_ECALL_TEST_ERA_STARTED") IN
  /\ gpio' = [g6 EXCEPT !.isInit = TRUE]
  /\ sent' = events
  /\ sosBreak' = BreakAfter(sosBreak, events)
  /\ seen' = Seen(g6)
  /\ UNCHANGED unit

\* clear_failures, ordered by diagnostics or a command: what the button is like now is not
\* asked, and nothing is sent again.
ButtonFailureCleared ==
  /\ sosBreak' = FALSE
  /\ seen' = [seen EXCEPT !.cleared = gpio.stuck \/ Torn(gpio)]
  /\ sent' = <<>> /\ UNCHANGED <<gpio, unit>>

GpioNext == (\E in \in Lines : WatchProcess(in)) \/ ButtonFailureCleared
GpioSpec == GpioInit /\ [][GpioNext]_gpioVars

----------------------------------------------------------------------------
(* Properties.                                                             *)

GpioEvents == {"EV_DIAG_SOS_ON", "EV_DIAG_SOS_OFF", "EV_SOS_BTN_PRESSED", "EV_SOS_STUCK",
               "EV_SOS_UNSTUCK", "EV_T15_ON", "EV_T15_OFF", "EV_SERVICE_BTN_ON",
               "EV_ECALL_MANUAL_SOS", "EV_ECALL_TEST_ERA_STARTED"}

GpioTypeOK ==
  /\ gpio \in [isInit : BOOLEAN, sos : BOOLEAN, diag : BOOLEAN, service : BOOLEAN,
               stuckCnt : 0..(StuckTicks + 1), stuck : BOOLEAN, ignition : BOOLEAN,
               ignCnt : 0..IgnTicks, ignRead : 0..1, hasEraCall : BOOLEAN,
               manual : 0..(ManualTicks + 1), iter : 0..(FastTicks + 1),
               test : 0..(Presses + 2), pause : 0..(PauseTicks + 1)]
  /\ sent \in Seq(GpioEvents)
  /\ sosBreak \in BOOLEAN

\* The self-test starts after as many short presses in a row as it should, never after
\* fewer, whatever was held, pressed and paused before, though the count starts at a pause
\* and is kept by two functions (gpio_ev.c:951-983, 985-1006).
TestAfterPresses ==
  [][SentIn(sent', "EV_ECALL_TEST_ERA_STARTED") => seen.series >= Presses]_gpioVars

\* The failure of the button is set while the button sticks or is torn off, and only then,
\* though two pairs of events of two functions set and clear the one flag, unless it has been
\* cleared by hand since or a button that stuck was torn off from one cycle to the next
\* (M2MB_main.c:146-181, gpio_ev.c:935-949, 1190-1276).
FailureTellsTruth ==
  sosBreak <=> ~seen.cleared /\ (gpio.stuck \/ (Torn(gpio) /\ ~seen.straight))
=============================================================================
