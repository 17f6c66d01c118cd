--------------------------- MODULE SmsManager ---------------------------
(***************************************************************************)
(* The SMS task of era/src/sms_manager.c: it sends the MSDs the in-band    *)
(* modem could not deliver.  It remembers the number of the MSD it sends   *)
(* (msd_n) across the sending and a queued result, while the calls of      *)
(* ecall.c and era_action.c, and a wipe, change the storage under it.      *)
(*                                                                         *)
(* One message of the mailbox is one handler; a handler is split where it  *)
(* gives the storage mutex back, and while an SMS is being sent            *)
(* (send_sms_pdu waits up to 40 s inside the handler and posts the result  *)
(* to the task's own mailbox).  The registration by a test call in         *)
(* sending() is part of a failed sending.                                  *)
(***************************************************************************)
EXTENDS MsdBuffer

CONSTANTS AttemptsLimit, \* INT_MEM_TRANSMIT_ATTEMPTS
          SmsMbox,       \* places in the SMS task's mailbox, MBOX_S
          MaxMsds,       \* bound: MSDs saved by calls
          MaxRequests,   \* bound: SEND_ALL messages
          MaxNoPdu,      \* bound: sendings for which no PDU can be made
          MaxWipes       \* bound: delete_all_MSDs

ASSUME SmsAssumption ==
  /\ AttemptsLimit \in 0..255 /\ SmsMbox \in Nat \ {0}
  /\ {MaxMsds, MaxRequests, MaxNoPdu, MaxWipes} \subseteq Nat

VARIABLES
  buf,       \* the storage
  smsQ,      \* mailbox of the SMS task
  sm,        \* its static variables
  phase,     \* where its handler is
  sending,   \* the MSD in the SMS being sent, 0 when none
  armed,     \* transm_t runs
  vinOk,     \* the VIN of the parameters can be encoded
  call,      \* the call, as far as it concerns the storage
  msds, requests, noPdu, wipes,   \* used up of the bounds
  sent,      \* history: MSDs sent
  lost,      \* history: MSDs the SMS task deleted though they were not sent
  confused   \* history: sendings overlapped, or the numbers shifted, see Confuses

smsVars == <<buf, smsQ, sm, phase, sending, armed, vinOk, call, msds, requests, noPdu,
             wipes, sent, lost, confused>>
callerVars == <<call, msds, requests, wipes>>

Msgs == {"SEND_ALL", "RESULT_OK", "RESULT_FAIL", "TRANSM", "STOP"}
Results == {"RESULT_OK", "RESULT_FAIL"}
Phases == {"ready", "check", "prepare", "sending", "moved"}
Calls == {"idle", "starting", "active", "cancelled", "over", "deleting"}
Posted(m) == IF Len(smsQ) < SmsMbox THEN Append(smsQ, m) ELSE smsQ
Take(m) == phase = "ready" /\ smsQ # <<>> /\ Head(smsQ) = m /\ smsQ' = Tail(smsQ)

\* Identity of the MSD with number n, 0 when there is none.
IdAt(b, n) == IF CanDelete(b, n) THEN b[n + 1].id ELSE 0

----------------------------------------------------------------------------
\* A storage may hold an MSD of an earlier life of the unit; stopped is FALSE though
\* nothing drives the task yet.
SmsInit ==
  /\ buf \in {<<>>} \cup {<<[id |-> MaxMsds + 1, flag |-> f]>> : f \in {"SMS", "SAVED"}}
  /\ smsQ = <<>>
  /\ sm = [msd_n |-> NoMsd, attempts |-> 0, stopped |-> FALSE, started |-> FALSE]
  /\ phase = "ready" /\ sending = 0 /\ armed = FALSE
  /\ vinOk \in BOOLEAN
  /\ call = "idle" /\ msds = 0 /\ requests = 0 /\ noPdu = 0 /\ wipes = 0
  /\ sent = {} /\ lost = {} /\ confused = FALSE

----------------------------------------------------------------------------
(* The callers.                                                            *)

\* The number the SMS task remembers stands for another MSD after the step.
Shifts(b) == sm.msd_n # NoMsd /\ IdAt(b, sm.msd_n) # IdAt(buf, sm.msd_n)

\* The callers change the storage to b.
Store(b) == buf' = b /\ confused' = (confused \/ Shifts(b))

\* start() of ecall.c: SMS_STOP_SENDING.
CallStarts ==
  /\ call = "idle" /\ msds < MaxMsds
  /\ smsQ' = Posted("STOP")
  /\ call' = "starting"
  /\ UNCHANGED <<buf, msds, requests, wipes, confused>>

\* The MSD of the call is saved once the prompt was played.
CallSaves ==
  /\ call = "starting"
  /\ Store(SaveBuf(buf, [id |-> msds + 1, flag |-> "INBAND"]))
  /\ msds' = msds + 1 /\ call' = "active"
  /\ UNCHANGED <<smsQ, requests, wipes>>

\* era_a_urc, T5..T7 expired: the MSD goes to SMS, SMS_SEND_ALL_FROM_STORAGE.
HandsOver ==
  /\ call = "active" /\ requests < MaxRequests
  /\ Store(MoveBuf(buf, "INBAND", "SMS"))
  /\ smsQ' = Posted("SEND_ALL") /\ requests' = requests + 1
  /\ UNCHANGED <<call, msds, wipes>>

\* finish() of era_action.c: an MSD that was decoded is deleted, another goes to SMS;
\* a call that was cancelled or stopped leaves its MSD to ecall.c.
CallEnds ==
  /\ call = "active"
  /\ \/ /\ call' = "over"
        /\ \/ Store(DeleteBuf(buf, FindNumb(buf, "INBAND")))
           \/ Store(MoveBuf(buf, "INBAND", "SMS"))
     \/ call' = "cancelled" /\ UNCHANGED <<buf, confused>>
  /\ UNCHANGED <<smsQ, msds, requests, wipes>>

\* finish() of ecall.c three seconds later: SMS_SEND_ALL_FROM_STORAGE; then, of a call
\* that was cancelled, delete_inband_msd.
CallFinishes ==
  /\ call \in {"over", "cancelled"} /\ requests < MaxRequests
  /\ smsQ' = Posted("SEND_ALL") /\ requests' = requests + 1
  /\ call' = IF call = "over" THEN "idle" ELSE "deleting"
  /\ UNCHANGED <<buf, msds, wipes, confused>>

CallDeletes ==
  /\ call = "deleting"
  /\ Store(DeleteBuf(buf, FindNumb(buf, "INBAND")))
  /\ call' = "idle"
  /\ UNCHANGED <<smsQ, msds, requests, wipes>>

\* delete_all_MSDs, by a command or a UDS routine.
Wipe ==
  /\ wipes < MaxWipes
  /\ Store(<<>>) /\ wipes' = wipes + 1
  /\ UNCHANGED <<smsQ, call, msds, requests>>

CallersNext ==
  /\ CallStarts \/ CallSaves \/ HandsOver \/ CallEnds \/ CallFinishes \/ CallDeletes \/ Wipe
  /\ UNCHANGED <<sm, phase, sending, armed, vinOk, noPdu, sent, lost>>

----------------------------------------------------------------------------
(* The SMS task.                                                           *)

\* finish(): the task stops.
Finish == sm' = [sm EXCEPT !.stopped = TRUE] /\ armed' = FALSE /\ phase' = "ready"

\* Mutant of DeleteRemembered: delete_MSD(0), as in finish() of ecall.c.
DeleteFirst(forgiven) ==
  /\ buf' = DeleteBuf(buf, 0)
  /\ lost' = lost \cup ({IdAt(buf, 0)} \ (sent \cup forgiven \cup {0}))

\* delete_MSD(msd_n), whatever stands at that number now; forgiven are the MSDs that
\* may go unsent.
DeleteRemembered(forgiven) ==
  /\ buf' = DeleteBuf(buf, sm.msd_n)
  /\ lost' = lost \cup ({IdAt(buf, sm.msd_n)} \ (sent \cup forgiven \cup {0}))

\* SMS_SEND_ALL_FROM_STORAGE: send_SMSs, which goes on in check().
TakeSendAll ==
  /\ Take("SEND_ALL")
  /\ sm' = [sm EXCEPT !.stopped = FALSE, !.started = TRUE, !.msd_n = NoMsd]
  /\ phase' = "check"
  /\ UNCHANGED <<buf, sending, armed, noPdu, sent, lost, confused>>

\* check(): the first MSD for SMS, or the end.
Check ==
  /\ phase = "check"
  /\ IF sm.stopped THEN phase' = "ready" /\ UNCHANGED <<sm, armed>>
     ELSE IF FindNumb(buf, "SMS") = NoMsd
       THEN /\ sm' = [sm EXCEPT !.stopped = TRUE, !.msd_n = NoMsd]
            /\ armed' = FALSE /\ phase' = "ready"
       ELSE /\ sm' = [sm EXCEPT !.msd_n = FindNumb(buf, "SMS"), !.attempts = 0]
            /\ phase' = "prepare" /\ UNCHANGED armed
  /\ UNCHANGED <<buf, smsQ, sending, noPdu, sent, lost, confused>>

\* A sending begins although the task was stopped, although an earlier one has its
\* result in the mailbox, or with another MSD than the one msd_n stands for.
Confuses ==
  \/ sm.stopped
  \/ \E i \in 1..Len(smsQ) : smsQ[i] \in Results
  \/ sm.msd_n # FindNumb(buf, "SMS")

\* prepare(): transm_t starts again; egts_config_msd looks the first MSD for SMS up
\* once more and encodes it.  If there is none or it cannot be encoded, the MSD
\* with the remembered number is deleted.
Prepare ==
  /\ phase = "prepare"
  /\ armed' = TRUE
  /\ confused' = (confused \/ Confuses)
  /\ IF FindNumb(buf, "SMS") # NoMsd /\ vinOk
       THEN /\ sending' = IdAt(buf, FindNumb(buf, "SMS"))
            /\ phase' = "sending"
            /\ UNCHANGED <<buf, lost>>
       ELSE /\ DeleteRemembered({IdAt(buf, FindNumb(buf, "SMS"))})
            /\ phase' = "check"
            /\ UNCHANGED sending
  /\ UNCHANGED <<smsQ, sm, noPdu, sent>>

\* sms_send, send_sms_pdu: the SMS goes out, or it does not; the result is posted.
SendingReturns ==
  /\ phase = "sending"
  /\ \/ smsQ' = Posted("RESULT_OK") /\ sent' = sent \cup {sending}
     \/ smsQ' = Posted("RESULT_FAIL") /\ UNCHANGED sent
  /\ phase' = "ready" /\ sending' = 0
  /\ UNCHANGED <<buf, sm, armed, noPdu, lost, confused>>

\* sms_create_pdu fails: no result comes, transm_t tries again.
NoPdu ==
  /\ phase = "sending" /\ noPdu < MaxNoPdu
  /\ noPdu' = noPdu + 1
  /\ phase' = "ready" /\ sending' = 0
  /\ UNCHANGED <<buf, smsQ, sm, armed, sent, lost, confused>>

\* sms_sending_handler(TRUE).
TakeResultOk ==
  /\ Take("RESULT_OK")
  /\ DeleteRemembered({})
  /\ IF CanDelete(buf, sm.msd_n) THEN phase' = "check" /\ UNCHANGED <<sm, armed>>
     ELSE Finish
  /\ UNCHANGED <<sending, noPdu, sent, confused>>

\* Mutant of TakeResultFail: failed attempts are not counted.
FailNotCounted ==
  /\ Take("RESULT_FAIL")
  /\ UNCHANGED <<buf, sm, phase, sending, armed, noPdu, sent, lost, confused>>

\* sms_sending_handler(FALSE): attempts is a UINT8; after the last one the first MSD
\* for SMS becomes SAVED.
TakeResultFail ==
  /\ Take("RESULT_FAIL")
  /\ sm' = [sm EXCEPT !.attempts = (@ + 1) % 256]
  /\ IF sm'.attempts >= AttemptsLimit
       THEN buf' = MoveBuf(buf, "SMS", "SAVED") /\ phase' = "moved"
       ELSE UNCHANGED <<buf, phase>>
  /\ UNCHANGED <<sending, armed, noPdu, sent, lost, confused>>

\* ... and the task ends if there is another one for SMS.
AfterMove ==
  /\ phase = "moved"
  /\ LET n == FindNumb(buf, "SMS") IN
       IF n # NoMsd
         THEN /\ sm' = [sm EXCEPT !.msd_n = n, !.stopped = TRUE]
              /\ armed' = FALSE /\ phase' = "ready"
         ELSE /\ UNCHANGED armed
              /\ IF sm.stopped THEN /\ sm' = [sm EXCEPT !.msd_n = n]
                                    /\ phase' = "ready"
                 ELSE /\ sm' = [sm EXCEPT !.msd_n = n, !.attempts = 0]
                      /\ phase' = "prepare"
  /\ UNCHANGED <<buf, smsQ, sending, noPdu, sent, lost, confused>>

\* SMS_TRANSM_TIMER: prepare(), whether or not the task was stopped.
TakeTransm ==
  /\ Take("TRANSM")
  /\ phase' = "prepare"
  /\ UNCHANGED <<buf, sm, sending, armed, noPdu, sent, lost, confused>>

\* SMS_STOP_SENDING.
TakeStop ==
  /\ Take("STOP")
  /\ IF sm.stopped THEN UNCHANGED <<sm, armed>>
     ELSE sm' = [sm EXCEPT !.stopped = TRUE] /\ armed' = FALSE
  /\ UNCHANGED <<buf, phase, sending, noPdu, sent, lost, confused>>

\* sms_timer_handler.  The interval is a minute or more, a sending takes less and its
\* result is waiting in the mailbox when it returns: transm_t does not overtake it.
TransmExpires ==
  /\ armed /\ phase = "ready"
  /\ \A i \in 1..Len(smsQ) : smsQ[i] \notin Results
  /\ armed' = FALSE /\ smsQ' = Posted("TRANSM")
  /\ UNCHANGED <<buf, sm, phase, sending, noPdu, sent, lost, confused>>

SmsTask == TakeSendAll \/ Check \/ Prepare \/ SendingReturns \/ NoPdu \/ TakeResultOk
           \/ TakeResultFail \/ AfterMove \/ TakeTransm \/ TakeStop

SmsNext ==
  \/ CallersNext
  \/ (SmsTask \/ TransmExpires) /\ UNCHANGED <<callerVars, vinOk>>

\* The SMS task reads its mailbox and every sending returns (it has a timeout); the
\* timer runs.  The callers owe nothing.
SmsFairness ==
  /\ WF_smsVars(SmsTask /\ UNCHANGED <<callerVars, vinOk>>)
  /\ WF_smsVars(TransmExpires /\ UNCHANGED <<callerVars, vinOk>>)

SmsSpec == SmsInit /\ [][SmsNext]_smsVars /\ SmsFairness

----------------------------------------------------------------------------

\* The task deletes what it has sent or cannot encode, by a number it looked up long
\* before (sms_manager.c:90, 115, 122), as long as sendings do not overlap and no
\* caller shifts the numbers meanwhile.
DeletedWasSent == ~confused => lost = {}

\* Sending ends: every MSD is sent, discarded or SAVED, or the task gives up.
SendingEnds == (sm.started /\ ~sm.stopped) ~> sm.stopped
=========================================================================
