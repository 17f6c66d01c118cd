------------------------------- MODULE Ecall -------------------------------
(***************************************************************************)
(* The ECALL task of era/src/ecall.c: it prepares an emergency call (MSD,  *)
(* prompt), hands it to ERA_ACTION, and when the result is back waits for  *)
(* the operator to call the unit.  ERA_ACTION is what CallService.tla      *)
(* promises; its mailbox, tone and results are the variables of that       *)
(* module, and ecallQ is the whole mailbox of ECALL.                       *)
(*                                                                         *)
(* Two threads run the code of ecall.c: the task, and the thread that      *)
(* calls ecall_player_result_cb when a tone is over (that of the URCs or   *)
(* of the timers).  Both read and write the same variables without a lock, *)
(* so a function is split wherever it sleeps or plays a tone, and between  *)
(* its look at `stopped' and what it does next.                            *)
(***************************************************************************)
EXTENDS CallService

CONSTANT OneAndOne      \* is_one_and_one(): the prompt comes before the MSD

ASSUME OneAndOneAssumption == OneAndOne \in BOOLEAN

VARIABLES
  ec,        \* the static variables of ecall.c
  th,        \* what each thread is doing
  timers,    \* dereg_t and call_answer_t, when running
  playing,   \* the tone of ECALL the player plays, with its context
  msds,      \* MSDs created; the newest has this id
  smsReq,    \* the last request sent to the SMS task
  testing    \* is_testing_working(): a self-test waits for its test call

ecallVars == <<ec, th, timers, playing, msds, smsReq, testing>>

Events == {"MANUAL_SOS", "TEST", "AUTO"}

\* A request to call: from the button, the vehicle or a command ("fresh"), at
\* boot after a call was interrupted ("resumed"), or from the self-test, which
\* passes a callback ("tested").
Origins == {"fresh", "resumed", "tested"}
Request(event, origin) == [ev |-> event, arg |-> origin]

Plain(ev) == [ev |-> ev, arg |-> "none"]
UrcKinds == {"URC_RING", "URC_NO_CARRIER", "URC_CREG", "URC_CONNECTED", "URC_DISCONNECTED"}

\* Contexts of the prompts (A_ONE_TONE_1 and A_ECALL lead to the same code).
Contexts == {"A_ECALL", "A_ONE_TONE_2", "A_ONE_TONE_3", "A_ONE_TONE_4", "A_ECALL_END"}
Tone(ctx, res) == [ctx |-> ctx, res |-> res]
Silence == Tone("none", "none")

\* finish() is called with one of these.
FinishResults == {"SUCCESS", "MANUAL_CANCEL", "FORCED_STOP", "FAULT_CALLING"}
Dropping == {"MANUAL_CANCEL", "FORCED_STOP"}

Threads == {"task", "player"}

\* Where a thread is: ready; in starting_continue; past the checks of `stopped'
\* in check_manual_cancel; entering finish; in the sleep of finish; in the sleep
\* of ECALL_FORCED_STOP; about to answer a call; in ecall_player_result_cb.
Places == {"ready", "continue", "commit", "finish", "closing", "stopping", "answer", "cb"}
At(place, ctx, res) == [at |-> place, ctx |-> ctx, res |-> res]
Ready == At("ready", "none", "none")

EcallInit ==
  /\ ec = [step |-> "IDLE", stopped |-> TRUE, event |-> "MANUAL_SOS", resumed |-> FALSE,
           sos_pressed |-> FALSE, auto_answer |-> FALSE, incoming_call |-> FALSE,
           urc_listening |-> FALSE, sms_ecall_request |-> FALSE, mode |-> "ERA",
           callback |-> "none"]
  /\ th = [t \in Threads |-> Ready]
  /\ timers = {} /\ playing = Silence /\ smsReq = "none"
  /\ testing = FALSE

----------------------------------------------------------------------------
\* ECALL does nothing to the state of ERA_ACTION but send to its mailbox.
Others == UNCHANGED <<running, closing, result, tone>>

Goto(t, where) == th' = [th EXCEPT ![t] = where]

\* play_audio_file(): the tone starts if the player is free; if it stays busy, or
\* the codec fails, the callback runs at once, in the thread that asked.
Play(t, ctx, res) ==
  \/ /\ playing = Silence /\ tone = "none"
     /\ playing' = Tone(ctx, res) /\ Goto(t, Ready)
  \/ Goto(t, At("cb", ctx, res)) /\ UNCHANGED playing

\* Mutant of Report: the callback is not called.
ReportNothing == testing' = testing

\* callback(result): the self-test is over whatever the result.
Report == testing' = (testing /\ ec.callback # "tester")

Receive(ev) == up /\ th["task"] = Ready /\ ecallQ # <<>> /\ Head(ecallQ).ev = ev

\* The task is done with the message at once.
Handled == ecallQ' = Tail(ecallQ)
Idle == UNCHANGED <<smsReq, th, timers, playing, msds, testing, inbox, buf, up>> /\ Others

----------------------------------------------------------------------------
(* Making the call.                                                        *)

\* Mutant of NewCall: the unit goes on answering calls.
NewCallStillWaiting(event, origin) ==
  [ec EXCEPT !.step = "PREPARE", !.stopped = FALSE, !.event = event,
             !.resumed = (origin = "resumed"), !.sos_pressed = FALSE,
             !.mode = IF event = "TEST" THEN "TEST" ELSE "ECALL",
             !.callback = IF origin = "tested" THEN "tester" ELSE "none"]

NewCall(event, origin) ==
  [ec EXCEPT !.step = "PREPARE", !.stopped = FALSE, !.event = event,
             !.resumed = (origin = "resumed"), !.sos_pressed = FALSE,
             !.auto_answer = FALSE,
             !.mode = IF event = "TEST" THEN "TEST" ELSE "ECALL",
             !.callback = IF origin = "tested" THEN "tester" ELSE "none"]

\* start(): a new call is set up; with one_and_one the prompt comes first.
Start ==
  \E event \in Events, origin \in Origins :
    /\ Receive(event) /\ Head(ecallQ).arg = origin
    /\ ec.step = "IDLE" /\ ~(testing /\ event # "TEST")
    /\ Handled
    /\ ec' = NewCall(event, origin)
    /\ timers' = {} /\ smsReq' = "stop"
    /\ up' \in BOOLEAN                    \* the codec may fail: restart
    /\ IF OneAndOne THEN Play("task", "A_ECALL", "none")
       ELSE Goto("task", At("continue", "none", "none")) /\ UNCHANGED playing
    /\ UNCHANGED <<msds, testing, inbox, buf>> /\ Others

\* A request during a call, or during a self-test that did not make it.
Refuse ==
  \E event \in Events, origin \in Origins :
    /\ Receive(event) /\ Head(ecallQ).arg = origin
    /\ (testing /\ event # "TEST") \/ ec.step # "IDLE"
    /\ Handled
    /\ testing' = (testing /\ origin # "tested")
    /\ UNCHANGED <<smsReq, ec, th, timers, playing, msds, inbox, buf, up>> /\ Others

\* Mutant of NewMsdNeeded: only for a test call.
NewMsdForTest == ec.event = "TEST" /\ ~(ec.resumed /\ FindNumb(buf, "INBAND") # NoMsd)

NewMsdNeeded == ec.event # "TEST" /\ ~(ec.resumed /\ FindNumb(buf, "INBAND") # NoMsd)

\* starting_continue(): the MSD is made and saved, unless one is found that was
\* not delivered before a restart; a modem that refuses a command is restarted.
Continue(t) ==
  /\ up /\ th[t].at = "continue"
  /\ IF NewMsdNeeded
       THEN /\ msds' = msds + 1
            /\ buf' = SaveBuf(buf, [id |-> msds', flag |-> "INBAND"])
       ELSE UNCHANGED <<msds, buf>>
  /\ up' \in BOOLEAN
  /\ IF ~OneAndOne THEN Play(t, "A_ECALL", "none")
     ELSE Goto(t, IF ec.stopped THEN Ready ELSE At("commit", "none", "none")) /\ UNCHANGED playing
  /\ UNCHANGED <<smsReq, ec, timers, testing, inbox, ecallQ>> /\ Others

\* Mutant of Commit: a cancelled call is handed over all the same.
CommitBoth(t) ==
  /\ up /\ th[t].at = "commit"
  /\ ec' = [ec EXCEPT !.step = "CALLING", !.urc_listening = FALSE]
  /\ inbox' = Append(inbox, StartMsg(ec.event))
  /\ Goto(t, IF ec.sos_pressed THEN At("finish", "none", "MANUAL_CANCEL") ELSE Ready)
  /\ UNCHANGED <<smsReq, timers, playing, msds, testing, ecallQ, buf, up>> /\ Others

\* check_manual_cancel(): the call is handed to ERA_ACTION or dropped.
Commit(t) ==
  /\ up /\ th[t].at = "commit"
  /\ IF ec.sos_pressed
       THEN /\ ec' = [ec EXCEPT !.step = "CALLING"]
            /\ Goto(t, At("finish", "none", "MANUAL_CANCEL"))
            /\ UNCHANGED inbox
       ELSE /\ ec' = [ec EXCEPT !.step = "CALLING", !.urc_listening = FALSE]
            /\ inbox' = Append(inbox, StartMsg(ec.event))
            /\ Goto(t, Ready)
  /\ UNCHANGED <<smsReq, timers, playing, msds, testing, ecallQ, buf, up>> /\ Others

SosPressed ==
  /\ Receive("SOS_PRESSED") /\ Handled
  /\ ec' = [ec EXCEPT !.sos_pressed = @ \/ (ec.step = "PREPARE" /\ ~testing)]
  /\ Idle

\* ECALL_FORCED_STOP: ERA_ACTION is told, and the call finished 1.5 s later.
ForcedStop ==
  /\ Receive("FORCED_STOP") /\ Handled
  /\ IF ec.step = "IDLE" THEN UNCHANGED <<th, inbox>>
     ELSE inbox' = Append(inbox, StopMsg) /\ Goto("task", At("stopping", "none", "FORCED_STOP"))
  /\ UNCHANGED <<smsReq, ec, timers, playing, msds, testing, buf, up>> /\ Others

Stopped ==
  /\ up /\ th["task"].at = "stopping"
  /\ Goto("task", [th["task"] EXCEPT !.at = "finish"])
  /\ UNCHANGED <<smsReq, ec, timers, playing, msds, testing, inbox, ecallQ, buf, up>> /\ Others

FinishResult(r) ==
  IF r \in {"SUCCESS", "CCFT_TIMER"} THEN "SUCCESS"
  ELSE IF r \in Dropping THEN r ELSE "FAULT_CALLING"

\* ECALL_ERA_A_CALLBACK: whichever call the result belongs to.
ResultReceived ==
  /\ Receive("ERA_A_CALLBACK") /\ Handled
  /\ Goto("task", At("finish", "none", FinishResult(Head(ecallQ).arg)))
  /\ UNCHANGED <<smsReq, ec, timers, playing, msds, testing, inbox, buf, up>> /\ Others

----------------------------------------------------------------------------
(* finish(), up to its sleep of three seconds and after it.                *)

\* Mutant of Finish: step is reset after the look at `stopped', not before it.
FinishStaysCalling(t) ==
  /\ up /\ th[t].at = "finish"
  /\ IF ec.stopped
       THEN UNCHANGED ec /\ Goto(t, Ready)
       ELSE /\ ec' = [ec EXCEPT !.step = "IDLE", !.stopped = TRUE, !.mode = "ERA"]
            /\ Goto(t, [th[t] EXCEPT !.at = "closing"])
  /\ UNCHANGED <<smsReq, timers, playing, msds, testing, inbox, ecallQ, buf, up>> /\ Others

Finish(t) ==
  /\ up /\ th[t].at = "finish"
  /\ IF ec.stopped
       THEN ec' = [ec EXCEPT !.step = "IDLE"] /\ Goto(t, Ready)
       ELSE /\ ec' = [ec EXCEPT !.step = "IDLE", !.stopped = TRUE, !.mode = "ERA"]
            /\ Goto(t, [th[t] EXCEPT !.at = "closing"])
  /\ UNCHANGED <<smsReq, timers, playing, msds, testing, inbox, ecallQ, buf, up>> /\ Others

\* The MSDs left in the storage are sent by SMS, but not after a test call.
SendStored == smsReq' = IF ec.event = "TEST" THEN smsReq ELSE "send"

\* A call that was made: the unit waits for the operator to call.
CloseMade(t) ==
  /\ up /\ th[t].at = "closing" /\ th[t].res \notin Dropping
  /\ ec' = [ec EXCEPT !.auto_answer = TRUE, !.urc_listening = TRUE]
  /\ timers' = {"call_answer", "dereg"}
  /\ Report /\ SendStored
  /\ Goto(t, Ready)
  /\ UNCHANGED <<playing, msds, inbox, ecallQ, buf, up>> /\ Others

\* A call that was dropped: its MSD goes, a prompt says so.
CloseDropped(t) ==
  /\ up /\ th[t].at = "closing" /\ th[t].res \in Dropping
  /\ buf' = DeleteBuf(buf, FindNumb(buf, "INBAND"))
  /\ SendStored
  /\ Play(t, "A_ECALL_END", th[t].res)
  /\ IF th[t].res = "FORCED_STOP" THEN Report ELSE UNCHANGED testing
  /\ UNCHANGED <<ec, timers, msds, inbox, ecallQ, up>> /\ Others

----------------------------------------------------------------------------
(* ecall_player_result_cb.                                                 *)

\* A tone of ECALL is over; the thread of the player calls back.
ToneOver ==
  /\ up /\ playing # Silence /\ th["player"] = Ready
  /\ playing' = Silence
  /\ Goto("player", At("cb", playing.ctx, playing.res))
  /\ UNCHANGED <<smsReq, ec, timers, msds, testing, inbox, ecallQ, buf, up>> /\ Others

CallPrompted(t) ==
  /\ up /\ th[t].at = "cb" /\ th[t].ctx = "A_ECALL"
  /\ Goto(t, IF OneAndOne THEN At("continue", "none", "none")
             ELSE IF ec.stopped THEN Ready ELSE At("commit", "none", "none"))
  /\ UNCHANGED <<smsReq, ec, timers, playing, msds, testing, inbox, ecallQ, buf, up>> /\ Others

RingPrompted(t) ==
  /\ up /\ th[t].at = "cb" /\ th[t].ctx \in {"A_ONE_TONE_2", "A_ONE_TONE_3", "A_ONE_TONE_4"}
  /\ ec' = [ec EXCEPT !.incoming_call = @ /\ th[t].ctx # "A_ONE_TONE_3"]
  /\ Goto(t, IF th[t].ctx = "A_ONE_TONE_2" /\ ec.auto_answer THEN At("answer", "none", "none")
             ELSE Ready)
  /\ UNCHANGED <<smsReq, timers, playing, msds, testing, inbox, ecallQ, buf, up>> /\ Others

\* ATA, 0.9 s after the look at auto_answer.
Answer(t) ==
  /\ up /\ th[t].at = "answer"
  /\ Goto(t, Ready)
  /\ UNCHANGED <<smsReq, ec, timers, playing, msds, testing, inbox, ecallQ, buf, up>> /\ Others

EndPrompted(t) ==
  /\ up /\ th[t].at = "cb" /\ th[t].ctx = "A_ECALL_END"
  /\ Report /\ Goto(t, Ready)
  /\ UNCHANGED <<smsReq, ec, timers, playing, msds, inbox, ecallQ, buf, up>> /\ Others

----------------------------------------------------------------------------
(* Waiting for the operator: URCs, timers, deregistration.                 *)

\* RING: a prompt, then the call is answered; one call at a time.
UrcRing ==
  /\ Receive("URC_RING") /\ Handled
  /\ IF ec.urc_listening /\ ec.auto_answer /\ ~ec.incoming_call
       THEN ec' = [ec EXCEPT !.incoming_call = TRUE] /\ Play("task", "A_ONE_TONE_2", "none")
       ELSE UNCHANGED <<ec, th, playing>>
  /\ UNCHANGED <<smsReq, timers, msds, testing, inbox, buf, up>> /\ Others

UrcNoCarrier ==
  /\ Receive("URC_NO_CARRIER") /\ Handled
  /\ IF ec.urc_listening THEN Play("task", "A_ONE_TONE_3", "none") ELSE UNCHANGED <<th, playing>>
  /\ UNCHANGED <<smsReq, ec, timers, msds, testing, inbox, buf, up>> /\ Others

UrcDisconnected ==
  /\ Receive("URC_DISCONNECTED") /\ Handled
  /\ IF ec.urc_listening /\ ec.incoming_call
       THEN ec' = [ec EXCEPT !.incoming_call = FALSE] /\ Play("task", "A_ONE_TONE_4", "none")
       ELSE UNCHANGED <<ec, th, playing>>
  /\ UNCHANGED <<smsReq, timers, msds, testing, inbox, buf, up>> /\ Others

\* +CREG: 0 or 4, the unit is no longer registered (URC_CONNECTED and the other
\* registration states only concern the indication).
UrcCreg ==
  /\ Receive("URC_CREG") /\ Handled
  /\ IF ec.urc_listening THEN ec' = [ec EXCEPT !.urc_listening = FALSE] /\ timers' = {}
     ELSE UNCHANGED <<ec, timers>>
  /\ UNCHANGED <<smsReq, th, playing, msds, testing, inbox, buf, up>> /\ Others

UrcConnected == Receive("URC_CONNECTED") /\ Handled /\ UNCHANGED ec /\ Idle

DeregExpires ==
  /\ up /\ "dereg" \in timers /\ timers' = timers \ {"dereg"}
  /\ ecallQ' = Append(ecallQ, Plain("DEREGISTRATION"))
  /\ UNCHANGED <<smsReq, ec, th, playing, msds, testing, inbox, buf, up>> /\ Others

CallAnswerExpires ==
  /\ up /\ "call_answer" \in timers /\ timers' = timers \ {"call_answer"}
  /\ ec' = [ec EXCEPT !.auto_answer = FALSE]
  /\ UNCHANGED <<smsReq, th, playing, msds, testing, inbox, ecallQ, buf, up>> /\ Others

\* dereg() and to_sleep(): without ignition the unit switches itself off.
Dereg ==
  /\ Receive("DEREGISTRATION") /\ Handled
  /\ IF ec.step # "IDLE" \/ ~ec.stopped THEN UNCHANGED <<ec, timers, up>>
     ELSE /\ ec' = [ec EXCEPT !.urc_listening = FALSE, !.auto_answer = FALSE]
          /\ timers' = timers \ {"call_answer"}
          /\ up' \in {TRUE, ec.mode # "ERA"}
  /\ UNCHANGED <<smsReq, th, playing, msds, testing, inbox, buf>> /\ Others

----------------------------------------------------------------------------
(* A call requested by SMS is made once the answer to that SMS was sent.   *)

SmsRequest ==
  /\ Receive("SMS_REQUEST") /\ Handled
  /\ ec' = [ec EXCEPT !.sms_ecall_request = TRUE]
  /\ Idle

SmsSent ==
  /\ Receive("SMS_SENT")
  /\ ecallQ' = Tail(ecallQ) \o
               (IF ec.sms_ecall_request THEN <<Request("MANUAL_SOS", "fresh")>> ELSE <<>>)
  /\ ec' = [ec EXCEPT !.sms_ecall_request = FALSE]
  /\ Idle

ThreadNext(t) ==
  \/ Continue(t) \/ Commit(t) \/ Finish(t) \/ CloseMade(t) \/ CloseDropped(t)
  \/ CallPrompted(t) \/ RingPrompted(t) \/ EndPrompted(t) \/ Answer(t)

EcallNext ==
  \/ Start \/ Refuse \/ SosPressed \/ ForcedStop \/ Stopped \/ ResultReceived
  \/ UrcRing \/ UrcNoCarrier \/ UrcDisconnected \/ UrcCreg \/ UrcConnected \/ Dereg
  \/ SmsRequest \/ SmsSent
  \/ ToneOver \/ DeregExpires \/ CallAnswerExpires
  \/ \E t \in Threads : ThreadNext(t)
=============================================================================
