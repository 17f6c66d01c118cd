---------------------------- MODULE DialService ----------------------------
(***************************************************************************)
(* The ERA_ACTION task (EraAction.tla) driven by the most general caller   *)
(* that keeps to what era/src/ecall.c does: it starts a call only when it  *)
(* believes none is running, may stop it by force at any time, and takes   *)
(* whatever result arrives.  Ecall.tla is the real caller; this one has no *)
(* audio and no preparation, so that long runs of the dialling service     *)
(* itself stay within reach.                                               *)
(***************************************************************************)
EXTENDS EraAction

CONSTANTS
  CallEvents,  \* the events calls are made for: a subset of Events
  MaxCalls,    \* bound: calls started
  MaxReports,  \* bound: reports of the modem
  MaxPresses   \* bound: presses of the SOS button

ASSUME CallEventsAssumption == CallEvents \subseteq Events
ASSUME BoundsAssumption == {MaxCalls, MaxReports, MaxPresses} \subseteq Nat

VARIABLES
  caller,      \* ecall.c: "idle", "waiting" for a result, or "stopping" by force
  calls,       \* calls started by the caller; also the id of the newest MSD
  reports, presses,   \* counters of the bounds
  current,     \* history: the call START was last processed for
  answered,    \* history: results sent to ECALL
  dropped      \* history: calls the caller stopped by force or saw cancelled

vars == <<eaVars, caller, calls, reports, presses, current, answered, dropped>>

callerVars == <<caller, calls, presses>>

TypeOK ==
  /\ EaTypeOK
  /\ caller \in {"idle", "waiting", "stopping"}
  /\ calls \in 0..MaxCalls
  /\ reports \in 0..MaxReports /\ presses \in 0..MaxPresses
  /\ {current, answered} \subseteq Nat
  /\ dropped \subseteq 1..MaxCalls
  /\ buf \in Seq(Records(1..MaxCalls)) /\ Len(buf) <= MAX_NUMBER_MSD

Init ==
  /\ EaInit /\ buf = <<>>
  /\ caller = "idle" /\ calls = 0 /\ reports = 0 /\ presses = 0
  /\ current = 0 /\ answered = 0
  /\ dropped = {}

----------------------------------------------------------------------------
(* The caller.                                                             *)

\* The caller ignores that a full mailbox loses START or FORCED_STOP, and would
\* then wait in vain: here it only sends them when there is room.
HasRoom == Len(eaQ) < MailboxSize

\* ecall.c start() and check_manual_cancel(): the MSD is saved, unless the call
\* is a test, and START sent.
CallerStarts(event) ==
  /\ up /\ caller = "idle" /\ calls < MaxCalls /\ HasRoom
  /\ caller' = "waiting" /\ calls' = calls + 1
  /\ eaQ' = Sent(eaQ, Start(event))
  /\ buf' = IF event = "TEST" THEN buf
            ELSE SaveBuf(buf, [id |-> calls + 1, flag |-> "INBAND"])
  /\ smsReq' = "stop"
  /\ UNCHANGED <<ea, armed, paused, tone, ecallQ, line, eraRestart, up,
                 reports, presses, current, answered, dropped>>

\* ECALL_FORCED_STOP: FORCED_STOP is sent, and 1.5 s later the caller considers
\* the call over.
CallerStops ==
  /\ up /\ caller = "waiting" /\ HasRoom
  /\ caller' = "stopping" /\ dropped' = dropped \cup {calls}
  /\ eaQ' = Sent(eaQ, Msg("FORCED_STOP"))
  /\ UNCHANGED <<ea, armed, paused, tone, ecallQ, line, smsReq, eraRestart, up, buf,
                 calls, reports, presses, current, answered>>

InbandDeleted == DeleteBuf(buf, FindNumb(buf, "INBAND"))

CallerStopped ==
  /\ up /\ caller = "stopping"
  /\ caller' = "idle" /\ buf' = InbandDeleted
  /\ UNCHANGED <<ea, armed, paused, eaQ, tone, ecallQ, line, smsReq, eraRestart, up,
                 calls, reports, presses, current, answered, dropped>>

\* ECALL_ERA_A_CALLBACK: whichever call the result belongs to, it ends this one.
CallerTakesResult ==
  /\ up /\ caller # "stopping" /\ ecallQ # <<>>
  /\ ecallQ' = Tail(ecallQ)
  /\ caller' = "idle"
  /\ IF caller = "waiting" /\ Head(ecallQ).arg \in {"MANUAL_CANCEL", "FORCED_STOP"}
       THEN buf' = InbandDeleted /\ dropped' = dropped \cup {calls}
       ELSE UNCHANGED <<buf, dropped>>
  /\ UNCHANGED <<ea, armed, paused, eaQ, tone, line, smsReq, eraRestart, up,
                 calls, reports, presses, current, answered>>

SosButton ==
  /\ up /\ presses < MaxPresses /\ presses' = presses + 1
  /\ eaQ' = Sent(eaQ, Msg("SOS_PRESSED"))
  /\ UNCHANGED <<ea, armed, paused, tone, ecallQ, line, smsReq, eraRestart, up, buf,
                 caller, calls, reports, current, answered, dropped>>

CallerNext ==
  \/ \E event \in CallEvents : CallerStarts(event)
  \/ CallerStops \/ CallerStopped \/ CallerTakesResult \/ SosButton

----------------------------------------------------------------------------
(* Steps of the task, with the history they leave.                         *)

TaskStep ==
  \/ /\ StartCall
     /\ current' = current + 1
     /\ UNCHANGED <<callerVars, reports, answered, dropped>>
  \/ /\ MakeCallAgain \/ CallFailedMsg \/ UrcBusy \/ EvUnknown \/ Disconnected \/ CauseRead
        \/ UrcRing \/ UrcConnected \/ EvStart \/ EvAck \/ EvTimeout \/ EvVoice
        \/ UrcIgnored \/ SosPressed \/ DialDurMsg \/ CcftMsg \/ ForcedStop
     /\ UNCHANGED <<callerVars, reports, current, answered, dropped>>

TimerStep ==
  /\ TimersNext
  /\ answered' = answered + (Len(ecallQ') - Len(ecallQ))
  /\ UNCHANGED <<callerVars, reports, current, dropped>>

ModemStep ==
  /\ reports < MaxReports /\ ModemNext
  /\ reports' = reports + 1
  /\ UNCHANGED <<callerVars, current, answered, dropped>>

Next == TaskStep \/ TimerStep \/ ModemStep \/ CallerNext

\* The unit does not stand still while it has something to do: a message to
\* process, a timer to wait for, a tone to finish.  Which of these comes first
\* is left open; the modem, the user and the decision to call owe nothing.
Progress == TaskStep \/ TimerStep \/ CallerStopped \/ CallerTakesResult

Fairness == WF_vars(Progress)

Spec == Init /\ [][Next]_vars /\ Fairness

----------------------------------------------------------------------------
\* A running call is always under the dial-duration watchdog: its timer runs
\* or has already set dial_duration_expired, whatever stale messages of an
\* earlier call are processed.
WatchdogArmed ==
  up /\ ~ea.stopped => "dial_dur" \in armed \/ ea.dial_duration_expired

\* Results the service still owes.
Owed == (IF ea.stopped THEN 0 ELSE 1) + (IF "finish" \in armed THEN 1 ELSE 0)
        + (IF tone = "none" THEN 0 ELSE 1)

\* No call is ever answered twice: finish() may be reached by a timer, a URC,
\* a press and a command at once, but one result per START goes to ECALL.
OneResultPerStart == answered + Owed <= current

\* After a call has finished and until the next START nothing dials: a stale
\* MAKE_CALL or CALL_FAILED may hang up and wait, but not place a call.
NoDialWhenStopped == [][line' = "dialing" /\ line # "dialing" => ~ea'.stopped]_vars

\* The MSD of a finished call that the platform has not acknowledged is kept
\* for SMS, unless the call was a test, was cancelled or was stopped by force.
UndeliveredMsdKept ==
  /\ up /\ ea.stopped /\ current > 0 /\ dropped = {} /\ ea.event # "TEST" /\ ~ea.msd_decoded
  /\ ea.result_action # "MANUAL_CANCEL"
  => \E i \in 1..Len(buf) : buf[i] = [id |-> current, flag |-> "SMS"]

\* Whatever the modem does or fails to do, a caller that waits gets an answer,
\* or the modem is rebooted.
CallerIsAnswered == (up /\ caller = "waiting") ~> (caller # "waiting" \/ ~up)

\* The task keeps the promise ECALL relies on, step by step: its mailbox is read
\* for the two commands of the caller alone, a call runs while it is not stopped,
\* and is closing while finish_t runs.  Everything else (dialling, redialling,
\* URCs, timers, stale messages) changes nothing the caller can see.
IsCommand(m) == m.ev \in {"START", "FORCED_STOP"}

Promise == INSTANCE CallService WITH
  inbox <- SelectSeq(eaQ, IsCommand),
  running <- ~ea.stopped,
  closing <- "finish" \in armed,
  result <- ea.result_action

KeepsPromise == Promise!ServiceSpec
=============================================================================
