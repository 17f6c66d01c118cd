----------------------------- MODULE SelfTest -----------------------------
(***************************************************************************)
(* The self-test (testing.c, test_helper.c) on the player TonePlayer       *)
(* promises, with the diagnostic routine that starts and stops it          *)
(* (uds_service31.c).                                                      *)
(*                                                                         *)
(* No thread runs the test.  It is a chain of tones: the callback of each  *)
(* one asks for the next, in whatever thread the player calls back; the    *)
(* chain pauses for the confirmation of the driver, which the task or the  *)
(* confirm timer takes up, and for the test call, whose result comes in    *)
(* the thread of ECALL.  Callbacks go on while is_testing_working().       *)
(***************************************************************************)
EXTENDS TonePlayer, Integers, Sequences

CONSTANTS StMbox,     \* places in the mailbox of the task, MBOX_S
          Starts,     \* the starts that are ordered: a subset of AllStarts
          MaxOrders   \* bound: messages of others to the task

VARIABLES
  test,     \* static variables of testing.c and test_helper.c
  stBox,    \* mailbox of TESTING
  ignition, \* T15 and T30
  ecall,    \* a test call is with ECALL
  routine,  \* r_SelfTest of uds_service31.c: ROUTINE_RUN, or OVER for the other values
  told,     \* history: tests started less results sent, two threads ended one test
  lostMessage,   \* history: a message found no place
  orders    \* used up of the bound

stVars == <<test, stBox, ignition, ecall, routine, told, lostMessage, orders>>
selfTestVars == <<toneVars, stVars>>

TASK == "task"
ECALL == "ecall"
AllStarts == {"START_TESTING", "START_TEST_MD_ONLY", "START_TEST_CALL_ONLY"}
Messages == (Starts \X BOOLEAN) \cup
            ({"TEST_FORCED_STOP", "CONFIRMATION_DONE", "CONFIRM_TIMER"} \X {FALSE}) \cup
            ({"IGNITION_STATE"} \X BOOLEAN)
TestTones == {"START", "SELF_TEST", "FILES_OK", "FILES_ERROR", "NO_SATTELITIES", "MD_TEST",
              "SAY_PHRASE", "PLAY_PHRASE", "BY_SOS", "OK", "ERROR", "TEST_CALL",
              "NO_TEST_CALL", "WAITING_CALLBACK", "CRITICAL_ERR", "FINISH"}

ASSUME StAssumption ==
  /\ Starts \subseteq AllStarts /\ Tones = TestTones /\ Requesters = {"task", "ecall"}
  /\ {StMbox, MaxOrders} \subseteq Nat

OwnSteps == {"recording", "ending", "confirming", "expired"}

Working == test.state = "STARTED"

NoTest == [state |-> "IDLE", client |-> FALSE, ignListening |-> FALSE, onlyMd |-> FALSE,
           confirming |-> FALSE, confirmT |-> FALSE]

\* No test has been made yet, or one that diagnostics started awaits its confirmation.
StInit ==
  /\ TpInitTones
  /\ \/ test = NoTest /\ routine = "OVER"
     \/ /\ test = [NoTest EXCEPT !.state = "STARTED", !.client = TRUE, !.ignListening = TRUE,
                                !.confirming = TRUE, !.confirmT = TRUE]
        /\ routine = "RUN"
  /\ told = [due |-> IF test.state = "IDLE" THEN 0 ELSE 1, twice |-> FALSE]
  /\ stBox = <<>> /\ ignition = TRUE /\ ecall = FALSE
  /\ lostMessage = FALSE /\ orders = 0

\* Mutant of PostTest: a mailbox without end.
PostTestUnlimited(box, m) == stBox' = Append(box, m) /\ UNCHANGED lostMessage

PostTest(box, m) ==
  /\ stBox' = IF Len(box) < StMbox THEN Append(box, m) ELSE box
  /\ lostMessage' = (lostMessage \/ Len(box) >= StMbox)

\* The result of a test or of a request reaches whoever is registered.
Told == routine' = IF test.client THEN "OVER" ELSE routine

----------------------------------------------------------------------------
(* The callbacks of the tones.                                             *)

\* The next tone of each tone that only has a next one; the reproduction of the phrase and
\* the question for the result are two more of them, between PLAY_PHRASE and BY_SOS.
NextTone == [START |-> "SELF_TEST", MD_TEST |-> "SAY_PHRASE", PLAY_PHRASE |-> "BY_SOS"]

Proceed(t) ==
  /\ Is(t, "calls") /\ at[t].tone \in DOMAIN NextTone
  /\ IF Working THEN Wants(t, NextTone[at[t].tone]) ELSE Idle(t)
  /\ UNCHANGED <<tone, stVars>>

\* Files and failures are looked at; then the satellites.
CheckFiles(t) ==
  /\ Called(t, "SELF_TEST")
  /\ IF Working THEN \E c \in {"FILES_OK", "FILES_ERROR"} : Wants(t, c) ELSE Idle(t)
  /\ UNCHANGED <<tone, stVars>>
CheckGnss(t) ==
  /\ Called(t, "FILES_OK")
  /\ \/ Working /\ Wants(t, "NO_SATTELITIES") /\ UNCHANGED test
     \/ Working /\ Wants(t, "MD_TEST") /\ test' = [test EXCEPT !.onlyMd = FALSE]
     \/ ~Working /\ Idle(t) /\ UNCHANGED test
  /\ UNCHANGED <<tone, stBox, ignition, ecall, routine, told, lostMessage, orders>>
NoSatellites(t) ==
  /\ Called(t, "NO_SATTELITIES")
  /\ IF Working THEN Wants(t, "MD_TEST") /\ test' = [test EXCEPT !.onlyMd = FALSE]
     ELSE Idle(t) /\ UNCHANGED test
  /\ UNCHANGED <<tone, stBox, ignition, ecall, routine, told, lostMessage, orders>>

\* Five seconds of recording, after which the test may be over.
Record(t) ==
  /\ Called(t, "SAY_PHRASE")
  /\ IF Working THEN Goes(t, "recording", NoTone) ELSE Idle(t)
  /\ UNCHANGED <<tone, stVars>>
Recorded(t) ==
  /\ Is(t, "recording")
  /\ IF Working THEN Wants(t, "PLAY_PHRASE") \/ Goes(t, "ending", "CRITICAL_ERR") ELSE Idle(t)
  /\ UNCHANGED <<tone, stVars>>

WaitConfirm(t) ==
  /\ Called(t, "BY_SOS") /\ Idle(t)
  /\ test' = IF Working THEN [test EXCEPT !.confirming = TRUE, !.confirmT = TRUE] ELSE test
  /\ UNCHANGED <<tone, stBox, ignition, ecall, routine, told, lostMessage, orders>>

\* finish_testing looks at the state first and sets it then.
FinishTesting(t, c) == IF Working THEN Goes(t, "ending", c) ELSE Idle(t)

Confirmed(t) ==
  /\ Called(t, "OK") \/ Called(t, "ERROR")
  /\ IF test.onlyMd THEN FinishTesting(t, "FINISH")
     ELSE IF Working THEN Wants(t, "TEST_CALL") ELSE Idle(t)
  /\ UNCHANGED <<tone, stVars>>

\* start_test_call: once in a period, and not while a call of the operator is awaited.
StartTestCall(t) ==
  /\ Called(t, "TEST_CALL")
  /\ IF ~Working THEN Idle(t) /\ UNCHANGED ecall
     ELSE \/ Wants(t, "NO_TEST_CALL") /\ UNCHANGED ecall
          \/ Idle(t) /\ ecall' = TRUE
  /\ UNCHANGED <<tone, test, stBox, ignition, routine, told, lostMessage, orders>>

LastTone(t) ==
  /\ Called(t, "FILES_ERROR") \/ Called(t, "NO_TEST_CALL")
  /\ FinishTesting(t, "FINISH")
  /\ UNCHANGED <<tone, stVars>>
CriticalTone(t) ==
  /\ Called(t, "CRITICAL_ERR") /\ Wants(t, "FINISH")
  /\ UNCHANGED <<tone, stVars>>
WaitingTone(t) ==
  /\ Called(t, "WAITING_CALLBACK") /\ Idle(t) /\ Told
  /\ UNCHANGED <<tone, test, stBox, ignition, ecall, told, lostMessage, orders>>

\* Mutant of Ending: the state is left as it is.
EndingStarted(t) ==
  /\ Is(t, "ending")
  /\ Wants(t, at[t].tone)
  /\ UNCHANGED <<tone, stVars>>

Ending(t) ==
  /\ Is(t, "ending")
  /\ test' = [test EXCEPT !.state = "STOPPING"] /\ Wants(t, at[t].tone)
  /\ told' = [told EXCEPT !.twice = @ \/ ~Working]
  /\ UNCHANGED <<tone, stBox, ignition, ecall, routine, lostMessage, orders>>

\* final_job with finalization.
FinalJob(t) ==
  /\ Called(t, "FINISH") /\ Idle(t)
  /\ test' = [test EXCEPT !.state = "IDLE", !.ignListening = FALSE]
  /\ Told
  /\ told' = [told EXCEPT !.due = @ - 1]
  /\ UNCHANGED <<tone, stBox, ignition, ecall, lostMessage, orders>>

Callback(t) ==
  \/ Proceed(t) \/ CheckFiles(t) \/ CheckGnss(t) \/ NoSatellites(t) \/ Record(t) \/ Recorded(t)
  \/ WaitConfirm(t) \/ Confirmed(t) \/ StartTestCall(t) \/ LastTone(t) \/ CriticalTone(t)
  \/ WaitingTone(t) \/ Ending(t) \/ FinalJob(t)

----------------------------------------------------------------------------
(* TESTING_task, in its thread.                                            *)

Taken(order) == /\ Is(TASK, "idle") /\ stBox # <<>> /\ Head(stBox)[1] = order
                /\ stBox' = Tail(stBox)
StartsTone(order) == CASE order = "START_TESTING" -> "START"
                       [] order = "START_TEST_MD_ONLY" -> "MD_TEST"
                       [] order = "START_TEST_CALL_ONLY" -> "TEST_CALL"

\* A start that is not even looked at, and one that is refused: by a call or a test that is
\* stopping at once, for the awaited call of the operator after a tone.
StartIgnored(order) ==
  /\ Taken(order) /\ (Working \/ ~ignition)
  /\ UNCHANGED <<toneVars, test, ignition, ecall, routine, told, lostMessage, orders>>
StartRefused(order) ==
  /\ Taken(order) /\ ~Working /\ ignition
  /\ LET client == Head(stBox)[2] IN
     /\ test' = [test EXCEPT !.client = client]
     /\ \/ routine' = (IF client THEN "OVER" ELSE routine) /\ UNCHANGED at
        \/ test.state = "IDLE" /\ Wants(TASK, "WAITING_CALLBACK") /\ UNCHANGED routine
  /\ UNCHANGED <<tone, ignition, ecall, told, lostMessage, orders>>

\* start, with a codec that works or not.
StartTest(order) ==
  /\ Taken(order) /\ test.state = "IDLE" /\ ignition
  /\ test' = [test EXCEPT !.client = Head(stBox)[2], !.state = "STARTED", !.ignListening = TRUE,
                          !.onlyMd = CASE order = "START_TEST_CALL_ONLY" -> @
                                       [] order = "START_TEST_MD_ONLY" -> TRUE
                                       [] OTHER -> FALSE]
  /\ told' = [told EXCEPT !.due = @ + 1]
  /\ Wants(TASK, StartsTone(order)) \/ Goes(TASK, "ending", "CRITICAL_ERR")
  /\ UNCHANGED <<tone, ignition, ecall, routine, lostMessage, orders>>

\* The ignition went off: the task orders itself to stop.
IgnitionState ==
  /\ Is(TASK, "idle") /\ stBox # <<>> /\ Head(stBox)[1] = "IGNITION_STATE"
  /\ IF test.ignListening /\ ~Head(stBox)[2]
     THEN PostTest(Tail(stBox), <<"TEST_FORCED_STOP", FALSE>>)
     ELSE stBox' = Tail(stBox) /\ UNCHANGED lostMessage
  /\ UNCHANGED <<toneVars, test, ignition, ecall, routine, told, orders>>
TestForcedStop ==
  /\ Taken("TEST_FORCED_STOP") /\ FinishTesting(TASK, "FINISH")
  /\ UNCHANGED <<tone, test, ignition, ecall, routine, told, lostMessage, orders>>

\* test_confirmation_done up to deinit_timer, and from there on.
ConfirmationDone ==
  /\ Taken("CONFIRMATION_DONE")
  /\ IF test.confirming
     THEN test' = [test EXCEPT !.confirming = FALSE] /\ Goes(TASK, "confirming", NoTone)
     ELSE UNCHANGED <<test, at>>
  /\ UNCHANGED <<tone, ignition, ecall, routine, told, lostMessage, orders>>
ConfirmationTaken ==
  /\ Is(TASK, "confirming")
  /\ test' = [test EXCEPT !.confirmT = FALSE] /\ Wants(TASK, "OK")
  /\ UNCHANGED <<tone, stBox, ignition, ecall, routine, told, lostMessage, orders>>

\* Mutant of ConfirmTimer: nothing is played.
ConfirmTimerSilent ==
  /\ Taken("CONFIRM_TIMER")
  /\ test' = [test EXCEPT !.confirming = FALSE] /\ UNCHANGED at
  /\ UNCHANGED <<tone, ignition, ecall, routine, told, lostMessage, orders>>

\* confirm_timer_expired, also for a test that is over.
ConfirmTimer ==
  /\ Taken("CONFIRM_TIMER")
  /\ test' = [test EXCEPT !.confirming = FALSE] /\ Wants(TASK, "ERROR")
  /\ UNCHANGED <<tone, ignition, ecall, routine, told, lostMessage, orders>>

TaskNext ==
  \/ \E o \in Starts : StartIgnored(o) \/ StartRefused(o) \/ StartTest(o)
  \/ IgnitionState \/ TestForcedStop \/ ConfirmationDone \/ ConfirmationTaken \/ ConfirmTimer

----------------------------------------------------------------------------
(* The timers, ECALL and whoever gives orders.                             *)

\* test_help_timer_handler: confirm_t, then its message.
ConfirmExpires ==
  /\ test.confirmT /\ Is(TIMER, "idle") /\ Goes(TIMER, "expired", NoTone)
  /\ test' = [test EXCEPT !.confirmT = FALSE, !.confirming = FALSE]
  /\ UNCHANGED <<tone, stBox, ignition, ecall, routine, told, lostMessage, orders>>
ConfirmMessage ==
  /\ Is(TIMER, "expired") /\ Idle(TIMER)
  /\ PostTest(stBox, <<"CONFIRM_TIMER", FALSE>>)
  /\ UNCHANGED <<tone, test, ignition, ecall, routine, told, orders>>

\* test_ecall_result_cb: SelfTestEnds of EmergencyCall promises it.
EcallResult ==
  /\ ecall /\ Is(ECALL, "idle") /\ ecall' = FALSE
  /\ FinishTesting(ECALL, "FINISH")
  /\ UNCHANGED <<tone, test, stBox, ignition, routine, told, lostMessage, orders>>

Order == orders < MaxOrders /\ orders' = orders + 1
OrderUnchanged == UNCHANGED <<toneVars, test, ecall, told>>

\* The service button or a command; diagnostics, which it can start while r_SelfTest is
\* not RUN and stop while it works.
Button(m) ==
  /\ Order /\ PostTest(stBox, m) /\ UNCHANGED <<ignition, routine>> /\ OrderUnchanged
StartSelfTest(o) ==
  /\ Order /\ routine # "RUN" /\ ~Working
  /\ routine' = "RUN" /\ PostTest(stBox, <<o, TRUE>>)
  /\ UNCHANGED ignition /\ OrderUnchanged
StopSelfTest ==
  /\ Order /\ Working
  /\ routine' = "OVER" /\ PostTest(stBox, <<"TEST_FORCED_STOP", FALSE>>)
  /\ UNCHANGED ignition /\ OrderUnchanged
IgnitionTurns ==
  /\ Order /\ ignition' = ~ignition
  /\ PostTest(stBox, <<"IGNITION_STATE", ignition'>>)
  /\ UNCHANGED routine /\ OrderUnchanged

OrdersNext ==
  \/ \E o \in Starts : Button(<<o, FALSE>>) \/ StartSelfTest(o)
  \/ Working /\ Button(<<"TEST_FORCED_STOP", FALSE>>)
  \/ Button(<<"CONFIRMATION_DONE", FALSE>>)
  \/ StopSelfTest \/ IgnitionTurns

\* What each thread goes on with by itself; a player that is free is not refused.
TonesGoOn(t) ==
  \/ ToneOn(t) \/ ToneStarts(t) \/ ToneFails(t)
  \/ ~(tone = NoTone /\ \A u \in Threads : ~Is(u, "starts")) /\ ToneRefused(t)
StThread(t) ==
  \/ TonesGoOn(t) /\ UNCHANGED stVars
  \/ Callback(t)
  \/ t = TASK /\ TaskNext
  \/ t = ECALL /\ EcallResult
  \/ t = TIMER /\ ConfirmMessage
StReports == (\E t \in Threads : ToneEnds(t)) /\ UNCHANGED stVars
StRefused == (\E t \in Threads : ToneRefused(t)) /\ UNCHANGED stVars

StNext ==
  (\E t \in Threads : StThread(t)) \/ StReports \/ StRefused \/ ConfirmExpires \/ OrdersNext
StSpec == StInit /\ [][StNext]_selfTestVars

----------------------------------------------------------------------------
(* Properties.                                                             *)

StTypeOK ==
  /\ tone \in Tones \cup {NoTone}
  /\ at \in [Threads -> [step : {"idle", "wants", "starts", "calls"} \cup OwnSteps,
                        tone : Tones \cup {NoTone}]]
  /\ test \in [state : {"IDLE", "STARTED", "STOPPING"}, client : BOOLEAN, ignListening : BOOLEAN,
               onlyMd : BOOLEAN, confirming : BOOLEAN, confirmT : BOOLEAN]
  /\ stBox \in Seq(Messages) /\ Len(stBox) <= StMbox
  /\ routine \in {"RUN", "OVER"}
  /\ told \in [due : Int, twice : BOOLEAN]
  /\ {ignition, ecall, lostMessage} \subseteq BOOLEAN /\ orders \in 0..MaxOrders

\* Every test gives exactly one result: none is due when no test runs, and one while it
\* does, whatever chains of an earlier test are still about, unless two threads ended a
\* test at once (testing.c:98-99).
OneResultPerTest ==
  ~told.twice => told.due = (IF test.state = "IDLE" THEN 0 ELSE 1)

\* Every test comes to an end.
TestEnds == []<>(test.state = "IDLE" \/ lostMessage)

=============================================================================
