----------------------------- MODULE EraAction -----------------------------
(***************************************************************************)
(* The ERA_ACTION task of era/src/era_action.c: it dials the emergency     *)
(* number, redials, follows the URCs (unsolicited result codes) of the     *)
(* modem and, when the call is over, disposes of the in-band MSD, plays a  *)
(* tone and returns the result to the ECALL task.                          *)
(*                                                                         *)
(* The task takes one message at a time from its mailbox.  Its timers and  *)
(* the audio player run in other threads and only meet it through the      *)
(* mailbox and the flags they share (dial_duration_expired, voice_active). *)
(* One handler is one action, except disconnected(), which sleeps between  *)
(* looking at dial_duration_expired and acting on the CEER cause.          *)
(*                                                                         *)
(* External, modelled from how the code uses it: the modem's call line,    *)
(* the URCs, the outcome of an AT command, the audio player.               *)
(***************************************************************************)
EXTENDS MsdBuffer

CONSTANTS
  ManualAttempts,   \* get_manual_dial_attempts()
  AutoAttempts,     \* get_auto_dial_attempts()
  OneAndOne,        \* is_one_and_one()
  To112,            \* is_ecall_to_112(): the real number, not the debug one
  CanCancel,        \* get_manual_can_cancel() = 1
  MailboxSize,      \* MBOX_S, tasks.c
  MaxRestartNumber  \* MAX_RESTART_NUMBER, app_cfg.h

ASSUME AttemptsAssumption == {ManualAttempts, AutoAttempts} \subseteq Nat \ {0}
ASSUME ModeAssumption == {OneAndOne, To112, CanCancel} \subseteq BOOLEAN
ASSUME SizeAssumption == {MailboxSize, MaxRestartNumber} \subseteq Nat \ {0}

VARIABLES
  ea,          \* the static variables of era_action.c
  armed,       \* the timers of era_action.c that are running
  paused,      \* disconnected() is in its sleep
  eaQ,         \* the mailbox of ERA_ACTION
  tone,        \* EA_ONE_TONE_1 is playing: the result its callback will send
  ecallQ,      \* ECALL_ERA_A_CALLBACK results sent to the mailbox of ECALL
  line,        \* external: the call of the modem
  smsReq,      \* the last request sent to the SMS task
  eraRestart,  \* era_restart, kept in sys_param (flash)
  up,          \* the unit runs; FALSE once restart() was called
  buf          \* the MSD storage

eaVars == <<ea, armed, paused, eaQ, tone, ecallQ, line, smsReq, eraRestart, up, buf>>

\* The calls, as ECALL_TASK_EVENT: AUTO stands for the nine automatic ones,
\* which era_action.c does not tell apart.
Events == {"MANUAL_SOS", "TEST", "AUTO"}

Results == {"SUCCESS", "MANUAL_CANCEL", "ATTEMPTS_ENDED", "DIAL_DURATION",
            "CCFT_TIMER", "FORCED_STOP"}

Timers == {"dial_dur", "conn_wait", "dials_delay", "ccft", "finish"}

\* CEER_CALL_STATUS, as far as the code distinguishes: normal clearing (or
\* normal unspecified), disconnected or offline, any other, unknown.
CeerStates == {"NORMAL", "DISCONNECTED", "OTHER", "UNKNOWN"}

Msg(ev) == [ev |-> ev, arg |-> "none"]
Start(event) == [ev |-> "START", arg |-> event]

Urcs == {"URC_RING", "URC_CONNECTED", "URC_BUSY", "URC_NO_CARRIER",
         "URC_DISCONNECTED"}
\* #ECALLEV URCs by what the handler does with them (p1 and p2): 0, 1, 2 with
\* p2 = 0, 2 with another p2, 5 to 7, 12, and a number it does not know.
EcallEvs == {"EV_START", "EV_LL_ACK", "EV_AL_ACK", "EV_CLEAR_DOWN",
             "EV_TIMEOUT", "EV_VOICE", "EV_UNKNOWN"}

Commands == {"FORCED_STOP", "SOS_PRESSED", "DIAL_DUR_T", "CALL_FAILED",
             "MAKE_CALL", "CCFT_T"}

\* ECALL_ERA_A_CALLBACK, as ECALL receives it.
ResultMsg(r) == [ev |-> "ERA_A_CALLBACK", arg |-> r]

Messages == {Start(e) : e \in Events} \cup
            {Msg(m) : m \in Urcs \cup EcallEvs \cup Commands}

EaStates ==
  [event : Events, stopped : BOOLEAN, urc_listening : BOOLEAN,
   pull_mode : BOOLEAN, call_attempts : Nat, msd_decoded : BOOLEAN,
   voice_active : BOOLEAN, can_be_canceled : BOOLEAN,
   dial_duration_expired : BOOLEAN, finished : BOOLEAN,
   SOS_pressed_numb : 0..3, sos_button_listen : BOOLEAN,
   result_action : Results]

Lines == {"idle", "dialing", "talking", "ringing", "answering"}

EaTypeOK ==
  /\ ea \in EaStates
  /\ armed \subseteq Timers
  /\ paused \in BOOLEAN
  /\ eaQ \in Seq(Messages) /\ Len(eaQ) <= MailboxSize
  /\ tone \in Results \cup {"none"}
  /\ ecallQ \in Seq({ResultMsg(r) : r \in Results})
  /\ line \in Lines
  /\ smsReq \in {"none", "send", "stop"}
  /\ eraRestart \in 0..MaxRestartNumber
  /\ up \in BOOLEAN

EaInit ==
  /\ ea = [event |-> "MANUAL_SOS", stopped |-> TRUE, urc_listening |-> FALSE,
           pull_mode |-> FALSE, call_attempts |-> 0, msd_decoded |-> FALSE,
           voice_active |-> FALSE, can_be_canceled |-> TRUE,
           dial_duration_expired |-> FALSE, finished |-> FALSE,
           SOS_pressed_numb |-> 0, sos_button_listen |-> FALSE,
           result_action |-> "SUCCESS"]
  /\ armed = {} /\ paused = FALSE
  /\ eaQ = <<>> /\ tone = "none" /\ ecallQ = <<>>
  /\ line = "idle" /\ smsReq = "none"
  /\ eraRestart = 0 /\ up = TRUE

----------------------------------------------------------------------------
(* Mailboxes and the dispatch of messages.                                 *)

\* Mutant of Sent: a mailbox without a limit.
SentAlways(q, m) == Append(q, m)

\* azx_tasks sends without waiting: a full mailbox loses the message.
Sent(q, m) == IF Len(q) < MailboxSize THEN Append(q, m) ELSE q

\* ERA_ACTION_task is called with the first message, of kind ev.
Take(ev) == up /\ ~paused /\ eaQ # <<>> /\ Head(eaQ).ev = ev

\* A URC is dropped unless the task listens for URCs.
TakeUrc(ev) == Take(ev) /\ ea.urc_listening

Rest == Tail(eaQ)

\* The limit call_failed() works with.
AttemptsLimit(event) ==
  IF event = "TEST" THEN 1
  ELSE IF OneAndOne THEN 2
  ELSE IF event = "MANUAL_SOS" THEN ManualAttempts ELSE AutoAttempts

----------------------------------------------------------------------------
(* finish(): e and a are the state and the timers the handler has reached, *)
(* q the mailbox it leaves, ln the line.  A second finish() of the same    *)
(* call does nothing.                                                      *)

FinishedState(e, result) ==
  [e EXCEPT !.stopped = TRUE, !.urc_listening = FALSE,
            !.sos_button_listen = FALSE, !.result_action = result]

\* Mutant of FinishedBuf: decoded and undelivered confused.
FinishedBufSwapped(e, result) ==
  IF e.msd_decoded THEN MoveBuf(buf, "INBAND", "SMS")
  ELSE DeleteBuf(buf, FindNumb(buf, "INBAND"))

\* What happens to the in-band MSD: a decoded one is deleted, an undelivered
\* one moves to SMS; after a forced stop or a cancellation ecall.c sees to it.
FinishedBuf(e, result) ==
  IF result = "FORCED_STOP" \/ e.event = "TEST" THEN buf
  ELSE IF e.msd_decoded THEN DeleteBuf(buf, FindNumb(buf, "INBAND"))
  ELSE IF result = "MANUAL_CANCEL" THEN buf
  ELSE MoveBuf(buf, "INBAND", "SMS")

\* Mutant of Finish: a call may finish twice.
FinishAgain(e, a, q, ln, result) ==
  /\ eaQ' = q
  /\ ea' = FinishedState(e, result)
  /\ armed' = {"finish"} /\ line' = ln
  /\ buf' = FinishedBuf(e, result)
  /\ UNCHANGED <<paused, tone, ecallQ, smsReq, eraRestart, up>>

Finish(e, a, q, ln, result) ==
  /\ eaQ' = q
  /\ IF e.stopped
       THEN /\ ea' = e /\ armed' = a /\ line' = ln
            /\ UNCHANGED buf
       ELSE /\ ea' = FinishedState(e, result)
            /\ armed' = {"finish"}
            /\ line' = IF result = "FORCED_STOP" THEN "idle" ELSE ln
            /\ buf' = FinishedBuf(e, result)
  /\ UNCHANGED <<paused, tone, ecallQ, smsReq, eraRestart, up>>

\* restart_from_reason(): the modem reboots unless it already did so too often;
\* then the function just returns, and so does its caller.
RestartFromReason ==
  IF eraRestart < MaxRestartNumber
    THEN eraRestart' = eraRestart + 1 /\ up' = FALSE
    ELSE UNCHANGED <<eraRestart, up>>

----------------------------------------------------------------------------
(* make_call(), send_CECALL() and start().                                 *)

\* Mutant of StillWanted: send_CECALL does not look.
AlwaysWanted(e) == TRUE

\* send_CECALL returns if the call was stopped while make_call() prepared it.
StillWanted(e) == ~e.stopped

\* make_call: hang up, set PUSH mode unless the MSD is to be pulled, set the
\* number, arm the timer of the connection and dial.  e and a are the state and
\* the timers it starts from, q the mailbox.
MakeCall(e, a, q) ==
  /\ ea' = e
  /\ \/ \* AT#MSDPUSH fails
        /\ ~e.pull_mode
        /\ armed' = a /\ line' = "idle" /\ eaQ' = q
        /\ RestartFromReason
     \/ \* AT#TESTNUM fails (a test call, or a call to the debug number)
        /\ e.event = "TEST" \/ ~To112
        /\ armed' = a \cup {"conn_wait"} /\ line' = "idle" /\ eaQ' = q
        /\ RestartFromReason
     \/ \* the call was stopped meanwhile: send_CECALL returns
        /\ ~StillWanted(e)
        /\ armed' = a \cup {"conn_wait"} /\ line' = "idle" /\ eaQ' = q
        /\ UNCHANGED <<eraRestart, up>>
     \/ \* #MONI sees a cell: AT+CECALL
        /\ StillWanted(e)
        /\ armed' = a \cup {"conn_wait"} /\ line' = "dialing" /\ eaQ' = q
        /\ UNCHANGED <<eraRestart, up>>
     \/ \* #MONI sees no cell: the attempt has failed
        /\ StillWanted(e)
        /\ armed' = a \ {"conn_wait"} /\ line' = "idle"
        /\ eaQ' = Sent(q, Msg("CALL_FAILED"))
        /\ UNCHANGED <<eraRestart, up>>
  /\ UNCHANGED <<paused, tone, ecallQ, smsReq, buf>>

StartCall ==
  \E event \in Events :
    /\ Take("START") /\ Head(eaQ).arg = event
    /\ MakeCall([ea EXCEPT !.event = event, !.stopped = FALSE,
                           !.pull_mode = FALSE, !.call_attempts = 0,
                           !.msd_decoded = FALSE, !.voice_active = FALSE,
                           !.can_be_canceled = CanCancel,
                           !.dial_duration_expired = FALSE,
                           !.finished = FALSE, !.SOS_pressed_numb = 0,
                           !.sos_button_listen = IF event # "TEST" THEN TRUE ELSE @,
                           !.urc_listening = TRUE],
                (armed \ {"finish"}) \cup {"dial_dur"},
                Rest)

MakeCallAgain == Take("MAKE_CALL") /\ MakeCall(ea, armed, Rest)

----------------------------------------------------------------------------
(* call_failed(): hang up and count the attempt; give up or wait a while.  *)

Exhausted(e) == e.call_attempts >= AttemptsLimit(e.event)

CallFailed(e, q) ==
  LET counted == [e EXCEPT !.call_attempts = @ + 1] IN
  IF Exhausted(counted)
    THEN \/ Finish(counted, armed \ {"conn_wait"}, q, "idle", "ATTEMPTS_ENDED")
         \/ \* the modem does not answer AT twice: reboot, if still allowed
            /\ eraRestart < MaxRestartNumber
            /\ ea' = counted /\ eaQ' = q /\ line' = "idle"
            /\ armed' = armed \ {"conn_wait"}
            /\ RestartFromReason
            /\ UNCHANGED <<paused, tone, ecallQ, smsReq, buf>>
  ELSE IF e.dial_duration_expired
    THEN Finish(counted, armed \ {"conn_wait"}, q, "idle", "DIAL_DURATION")
  ELSE /\ ea' = counted /\ eaQ' = q /\ line' = "idle"
       /\ armed' = (armed \ {"conn_wait"}) \cup {"dials_delay"}
       /\ UNCHANGED <<paused, tone, ecallQ, smsReq, eraRestart, up, buf>>

CallFailedMsg == Take("CALL_FAILED") /\ CallFailed(ea, Rest)
UrcBusy == TakeUrc("URC_BUSY") /\ CallFailed(ea, Rest)
EvUnknown == TakeUrc("EV_UNKNOWN") /\ CallFailed(ea, Rest)

----------------------------------------------------------------------------
(* disconnected(): URC NO CARRIER or DISCONNECTED.                         *)

Disconnected ==
  /\ TakeUrc("URC_NO_CARRIER") \/ TakeUrc("URC_DISCONNECTED")
  /\ LET e == [ea EXCEPT !.SOS_pressed_numb = 0, !.voice_active = FALSE] IN
     IF ~e.finished /\ e.dial_duration_expired
       THEN Finish([e EXCEPT !.finished = TRUE], armed, Rest, line, "DIAL_DURATION")
     ELSE /\ ea' = e /\ eaQ' = Rest
          /\ paused' = ~e.finished
          /\ UNCHANGED <<armed, tone, ecallQ, line, smsReq, eraRestart, up, buf>>

\* After the sleep: the cause of the disconnection decides.  An unknown cause
\* is asked for once more and then taken for a failure.
CauseRead ==
  /\ up /\ paused /\ paused' = FALSE
  /\ \E ceer \in CeerStates :
       IF ceer = "NORMAL"
         THEN /\ ea' = IF ea.stopped THEN [ea EXCEPT !.finished = TRUE]
                       ELSE FinishedState([ea EXCEPT !.finished = TRUE], "SUCCESS")
              /\ eaQ' = eaQ
              /\ IF ea.stopped THEN UNCHANGED <<armed, buf>>
                 ELSE armed' = {"finish"} /\ buf' = FinishedBuf(ea, "SUCCESS")
         ELSE /\ eaQ' = Sent(eaQ, Msg("CALL_FAILED"))
              /\ UNCHANGED <<ea, armed, buf>>
  /\ UNCHANGED <<tone, ecallQ, line, smsReq, eraRestart, up>>

----------------------------------------------------------------------------
(* The other URCs.                                                         *)

Quiet == UNCHANGED <<paused, tone, ecallQ, smsReq, eraRestart, up, buf>>

\* RING: somebody calls while a call is being made; the unit answers.
UrcRing ==
  /\ TakeUrc("URC_RING")
  /\ eaQ' = Rest
  /\ IF ea.event = "TEST"
       THEN UNCHANGED <<ea, armed, line>>
       ELSE /\ armed' = armed \ {"conn_wait", "dials_delay"}
            /\ line' = IF line = "ringing" THEN "answering" ELSE line
            /\ UNCHANGED ea
  /\ Quiet

UrcConnected ==
  /\ TakeUrc("URC_CONNECTED")
  /\ eaQ' = Rest
  /\ armed' = (armed \ {"conn_wait", "dials_delay"}) \cup {"ccft"}
  /\ eraRestart' = 0
  /\ UNCHANGED <<ea, paused, tone, ecallQ, line, smsReq, up, buf>>

EvStart == TakeUrc("EV_START") /\ eaQ' = Rest /\ UNCHANGED <<ea, armed, line>> /\ Quiet

EvAck ==
  \E ev \in {"EV_LL_ACK", "EV_AL_ACK", "EV_CLEAR_DOWN"} :
    /\ TakeUrc(ev)
    /\ eaQ' = Rest
    /\ ea' = [ea EXCEPT !.msd_decoded = @ \/ ev # "EV_CLEAR_DOWN",
                        !.pull_mode = @ \/ ev # "EV_LL_ACK"]
    /\ UNCHANGED <<armed, line>> /\ Quiet

\* Mutant of EvTimeout: it is not looked whether the task still listens.
EvTimeoutUnheard ==
  /\ Take("EV_TIMEOUT")
  /\ eaQ' = Rest
  /\ ea' = [ea EXCEPT !.pull_mode = TRUE]
  /\ buf' = MoveBuf(buf, "INBAND", "SMS")
  /\ smsReq' = "send"
  /\ UNCHANGED <<armed, line, paused, tone, ecallQ, eraRestart, up>>

\* T5, T6 or T7 expired: the MSD goes by SMS, the next attempt is a pull.
EvTimeout ==
  /\ TakeUrc("EV_TIMEOUT")
  /\ eaQ' = Rest
  /\ IF ea.msd_decoded THEN UNCHANGED <<ea, buf, smsReq>>
     ELSE /\ ea' = [ea EXCEPT !.pull_mode = TRUE]
          /\ buf' = MoveBuf(buf, "INBAND", "SMS")
          /\ smsReq' = IF ea.event # "TEST" THEN "send" ELSE smsReq
  /\ UNCHANGED <<armed, line, paused, tone, ecallQ, eraRestart, up>>

\* The voice channel opens; catch_disconnect() then asks the modem whether the
\* call is over already.
EvVoice ==
  /\ TakeUrc("EV_VOICE")
  /\ LET e == [ea EXCEPT !.voice_active = TRUE,
                         !.can_be_canceled = @ /\ ~(ea.msd_decoded \/ ea.pull_mode)]
     IN \/ Finish([e EXCEPT !.finished = TRUE], armed, Rest, line, "SUCCESS")
        \/ ea' = e /\ eaQ' = Rest /\ UNCHANGED <<armed, line>> /\ Quiet

\* A URC nobody listens for.
UrcIgnored ==
  /\ ~ea.urc_listening
  /\ \E ev \in Urcs \cup EcallEvs : Take(ev)
  /\ eaQ' = Rest
  /\ UNCHANGED <<ea, armed, line>> /\ Quiet

----------------------------------------------------------------------------
(* Commands and timer messages.                                            *)

SosPressed ==
  /\ Take("SOS_PRESSED")
  /\ IF /\ ea.sos_button_listen /\ ~ea.voice_active /\ ea.event = "MANUAL_SOS"
        /\ ea.can_be_canceled /\ ~ea.finished
       THEN Finish([ea EXCEPT !.finished = TRUE], armed, Rest, "idle", "MANUAL_CANCEL")
       ELSE /\ ea' = IF ea.sos_button_listen /\ ea.voice_active /\ ea.SOS_pressed_numb < 3
                       THEN [ea EXCEPT !.SOS_pressed_numb = @ + 1]   \* a DTMF tone
                       ELSE ea
            /\ eaQ' = Rest
            /\ UNCHANGED <<armed, line>> /\ Quiet

DialDurMsg == Take("DIAL_DUR_T") /\ Finish(ea, armed, Rest, line, "DIAL_DURATION")
CcftMsg == Take("CCFT_T") /\ Finish([ea EXCEPT !.finished = TRUE], armed, Rest, "idle", "CCFT_TIMER")
ForcedStop == Take("FORCED_STOP") /\ Finish(ea, armed, Rest, line, "FORCED_STOP")

TaskNext ==
  \/ StartCall \/ MakeCallAgain
  \/ CallFailedMsg \/ UrcBusy \/ EvUnknown
  \/ Disconnected \/ CauseRead
  \/ UrcRing \/ UrcConnected \/ EvStart \/ EvAck \/ EvTimeout \/ EvVoice \/ UrcIgnored
  \/ SosPressed \/ DialDurMsg \/ CcftMsg \/ ForcedStop

----------------------------------------------------------------------------
(* e_action_timer_handler, in the thread of the timers, and the callback of *)
(* the audio player.                                                       *)

\* Mutant of DialDurExpires: the flag is only set during a conversation.
DialDurExpiresUnnoticed ==
  /\ up /\ "dial_dur" \in armed
  /\ armed' = armed \ {"dial_dur"}
  /\ ea' = [ea EXCEPT !.dial_duration_expired = ea.voice_active]
  /\ eaQ' = IF ea.voice_active THEN eaQ ELSE Sent(eaQ, Msg("DIAL_DUR_T"))
  /\ UNCHANGED line /\ Quiet

DialDurExpires ==
  /\ up /\ "dial_dur" \in armed
  /\ armed' = armed \ {"dial_dur"}
  /\ ea' = [ea EXCEPT !.dial_duration_expired = TRUE]
  /\ eaQ' = IF ea.voice_active THEN eaQ ELSE Sent(eaQ, Msg("DIAL_DUR_T"))
  /\ UNCHANGED line /\ Quiet

TimerMessage == [conn_wait |-> "CALL_FAILED", dials_delay |-> "MAKE_CALL", ccft |-> "CCFT_T"]

TimerExpires(t) ==
  /\ up /\ t \in armed
  /\ armed' = armed \ {t}
  /\ eaQ' = Sent(eaQ, Msg(TimerMessage[t]))
  /\ UNCHANGED <<ea, line>> /\ Quiet

\* Mutant of FinishExpires: no result when the tone cannot be played.
FinishUnplayed ==
  /\ up /\ "finish" \in armed
  /\ armed' = armed \ {"finish"}
  /\ tone' \in {tone, ea.result_action}
  /\ UNCHANGED <<ecallQ, ea, paused, eaQ, line, smsReq, eraRestart, up, buf>>

\* finish_t: the last tone is played; a busy or failing player calls back at once.
FinishExpires ==
  /\ up /\ "finish" \in armed
  /\ armed' = armed \ {"finish"}
  /\ \/ tone = "none" /\ tone' = ea.result_action /\ UNCHANGED ecallQ
     \/ ecallQ' = Append(ecallQ, ResultMsg(ea.result_action)) /\ UNCHANGED tone
  /\ UNCHANGED <<ea, paused, eaQ, line, smsReq, eraRestart, up, buf>>

\* era_a_player_result_cb: the tone is over, the result goes to ECALL.
ToneEnds ==
  /\ up /\ tone # "none"
  /\ tone' = "none"
  /\ ecallQ' = Append(ecallQ, ResultMsg(tone))
  /\ UNCHANGED <<ea, armed, paused, eaQ, line, smsReq, eraRestart, up, buf>>

TimersNext ==
  \/ DialDurExpires \/ FinishExpires \/ ToneEnds
  \/ \E t \in DOMAIN TimerMessage : TimerExpires(t)

----------------------------------------------------------------------------
(* The modem, external: what it reports while it has a call.               *)

\* URCs arrive together; those the mailbox has no room for are lost.
Delivered(q, us) == q \o SubSeq(us, 1, Min({Len(us), MailboxSize - Len(q)}))

ModemReports(ln, us) ==
  /\ up
  /\ line' = ln
  /\ eaQ' = Delivered(eaQ, us)
  /\ UNCHANGED <<ea, armed>> /\ Quiet

ModemConnects ==
  line \in {"dialing", "answering"} /\ ModemReports("talking", <<Msg("URC_CONNECTED")>>)

ModemBusy == line = "dialing" /\ ModemReports("idle", <<Msg("URC_BUSY")>>)

\* The call ends at the other side or in the network: DISCONNECTED (#DIALMODE),
\* NO CARRIER, or both.
ModemReleases ==
  /\ line \in {"dialing", "talking", "answering"}
  /\ \E us \in {<<Msg("URC_DISCONNECTED")>>, <<Msg("URC_NO_CARRIER")>>,
               <<Msg("URC_DISCONNECTED"), Msg("URC_NO_CARRIER")>>} :
       ModemReports("idle", us)

\* The in-band modem reports the progress of the transmission (#ECALLEV).
ModemEcallEv == line = "talking" /\ \E ev \in EcallEvs : ModemReports(line, <<Msg(ev)>>)

\* Somebody calls the unit, the PSAP for instance.
ModemRings == line = "idle" /\ ModemReports("ringing", <<Msg("URC_RING")>>)

ModemNext ==
  ModemConnects \/ ModemBusy \/ ModemReleases \/ ModemEcallEv \/ ModemRings
=============================================================================
