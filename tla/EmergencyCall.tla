--------------------------- MODULE EmergencyCall ---------------------------
(***************************************************************************)
(* The whole emergency call: ECALL (Ecall.tla) with the ERA_ACTION service *)
(* it relies on (CallService.tla, which DialService.tla shows era_action.c *)
(* to implement), and with whoever sends ECALL messages: the SOS button,   *)
(* the crash sensors, the self-test, the commands that stop a call, the    *)
(* SMS task and the modem.                                                 *)
(***************************************************************************)
EXTENDS Ecall

CONSTANTS
  Inputs,         \* what ECALL is sent: a subset of AllInputs
  BootWithMsd,    \* the unit may have booted with an undelivered in-band MSD
  MaxInputs       \* bound: messages sent

AllInputs == Events \cup UrcKinds \cup
             {"SOS_PRESSED", "FORCED_STOP", "SMS_REQUEST", "SMS_SENT", "DEREGISTRATION"}

ASSUME InputsAssumption == Inputs \subseteq AllInputs
ASSUME BootAssumption == BootWithMsd \in BOOLEAN
ASSUME BoundAssumption == MaxInputs \in Nat

VARIABLES
  inputs,      \* messages sent, counted for the bound
  cancelled    \* history: somebody has pressed the button or stopped a call

vars == <<ecallVars, serviceVars, inputs, cancelled>>

\* The unit has booted; M2MB_main requests the call of the MSD it has found.
Init ==
  /\ ServiceIdle /\ EcallInit
  /\ \/ buf = <<>> /\ ecallQ = <<>> /\ msds = 0
     \/ /\ BootWithMsd
        /\ buf = <<[id |-> 1, flag |-> "INBAND"]>> /\ msds = 1
        /\ \E e \in {"MANUAL_SOS", "AUTO"} : ecallQ = <<Request(e, "resumed")>>
  /\ inputs = 0 /\ cancelled = FALSE

----------------------------------------------------------------------------
(* The senders.                                                            *)

Sends(kind, m) ==
  /\ up /\ kind \in Inputs
  /\ inputs < MaxInputs /\ inputs' = inputs + 1
  /\ ecallQ' = Append(ecallQ, m)
  /\ UNCHANGED <<ec, th, timers, playing, msds, smsReq, inbox, buf, up>> /\ Others

CallRequested ==
  /\ \E event \in {"MANUAL_SOS", "AUTO"} : Sends(event, Request(event, "fresh"))
  /\ UNCHANGED <<testing, cancelled>>

\* testing.c and test_helper.c look at the device mode and at is_waiting_call().
TestRequested ==
  /\ ~testing /\ ec.mode # "ECALL" /\ ~ec.auto_answer
  /\ Sends("TEST", Request("TEST", "tested"))
  /\ testing' = TRUE
  /\ UNCHANGED cancelled

\* The ignition is switched off: the self-test ends, its call goes on.
TestAbandoned ==
  /\ up /\ testing /\ testing' = FALSE
  /\ UNCHANGED <<ec, th, timers, playing, msds, smsReq, serviceVars, inputs, cancelled>>

\* The button cancels; a command or a UDS service stops the call if
\* is_ecall_in_progress().
CancelRequested ==
  /\ \/ Sends("SOS_PRESSED", Plain("SOS_PRESSED"))
     \/ ec.step # "IDLE" /\ Sends("FORCED_STOP", Plain("FORCED_STOP"))
  /\ cancelled' = TRUE
  /\ UNCHANGED testing

\* URCs, the SMS task, the platform (egts.c) and the call by SMS.
Reported ==
  /\ \E kind \in UrcKinds \cup {"SMS_REQUEST", "SMS_SENT", "DEREGISTRATION"} :
       Sends(kind, Plain(kind))
  /\ UNCHANGED <<testing, cancelled>>

SendersNext ==
  CallRequested \/ TestRequested \/ TestAbandoned \/ CancelRequested \/ Reported

----------------------------------------------------------------------------
\* The service steps; its tones and those of ECALL share one player.
ServiceStep ==
  /\ \/ TakeStart \/ TakeStop \/ HandOver \/ (\E r \in Endings : End(r))
     \/ ToneStarts /\ (tone' # tone => playing = Silence)
     \/ ToneEnds
  /\ smsReq' = IF buf' # buf /\ running' THEN "send" ELSE smsReq
  /\ UNCHANGED <<ec, th, timers, playing, msds, testing, inputs, cancelled>>

TaskStep ==
  /\ \/ Start \/ Refuse \/ SosPressed \/ ForcedStop \/ Stopped \/ ResultReceived
     \/ UrcRing \/ UrcNoCarrier \/ UrcDisconnected \/ UrcCreg \/ UrcConnected \/ Dereg
     \/ SmsRequest \/ SmsSent
     \/ ThreadNext("task")
  /\ UNCHANGED <<inputs, cancelled>>

PlayerStep == (ToneOver \/ ThreadNext("player")) /\ UNCHANGED <<inputs, cancelled>>
TimerStep == (DeregExpires \/ CallAnswerExpires) /\ UNCHANGED <<inputs, cancelled>>

Next == TaskStep \/ PlayerStep \/ TimerStep \/ ServiceStep \/ SendersNext

\* The threads run; ERA_ACTION ends every call it makes (CallerIsAnswered of
\* DialService.tla); a timer that is left alone expires.
Fairness ==
  /\ WF_vars(TaskStep) /\ WF_vars(PlayerStep) /\ WF_vars(TimerStep)
  /\ WF_vars(ServiceStep /\ (running => ~running'))

Spec == Init /\ [][Next]_vars /\ Fairness

----------------------------------------------------------------------------
Count(q, ev) == Cardinality({i \in 1..Len(q) : q[i].ev = ev})

\* What ERA_ACTION has been asked to do and ECALL has not had the answer to.
Outstanding ==
  Count(inbox, "START") + (IF running THEN 1 ELSE 0) + (IF closing THEN 1 ELSE 0)
  + (IF tone = "none" THEN 0 ELSE 1) + Count(ecallQ, "ERA_A_CALLBACK")

\* The two tasks agree: as long as no command stops a call, ERA_ACTION has at
\* most one call in all its stages together, and exactly while ECALL is CALLING,
\* however the prompts, a cancellation and the next request interleave.
OneCallAtATime ==
  up => Outstanding <= 1 /\ (Outstanding = 1 => ec.step = "CALLING" /\ ~ec.stopped)

\* While ECALL takes itself for idle, ERA_ACTION makes no call, or the last thing
\* it has been sent is the order to stop: ecall.h:37 calls ECALL_FORCED_STOP the
\* command of unconditional termination of a call.
NoCallBehindItsBack ==
  (up /\ ec.step = "IDLE" /\ \A t \in Threads : th[t] = Ready)
    => IF inbox = <<>> THEN ~running ELSE Last(inbox) = StopMsg

\* The MSD of a call that is being made is in the storage until ERA_ACTION ends
\* the call: nothing ECALL does for another call or for a tone drops it, as long
\* as nobody cancels or stops a call (finish() of a cancelled call deletes the
\* first in-band MSD three seconds later, when the next call may have saved one).
MsdOfCallKept ==
  (up /\ running /\ ec.event # "TEST" /\ ~cancelled)
    => \E i \in 1..Len(buf) : buf[i].id = msds /\ buf[i].flag # "SAVED"

\* In a call ECALL does not answer the phone, which is then up to ERA_ACTION, and
\* no timer of the wait after an earlier call is left to switch the unit off: a
\* wait that finish() begins three seconds after the call was over never begins
\* in the next call.
NoWaitingInCall ==
  (up /\ (Outstanding > 0 \/ ec.step # "IDLE")) => ~ec.auto_answer /\ timers = {}

\* Every call ends, with the commands to stop it and the results of the calls
\* before it arriving in any order.
CallEnds == (up /\ ec.step # "IDLE") ~> (ec.step = "IDLE" \/ ~up)

\* A self-test hears of its call in the end, made or refused: it would otherwise
\* go on forbidding emergency calls.
SelfTestEnds == testing ~> (~testing \/ ~up)

\* The time in which the unit answers calls comes to an end (params.h:22-24, the
\* interval CALL_AUTO_ANSWER_TIME after a call).
WaitingEnds == ec.auto_answer ~> (~ec.auto_answer \/ ~up)
=============================================================================
