---------------------------- MODULE CallService ----------------------------
(***************************************************************************)
(* What the ERA_ACTION task promises to the ECALL task, without how it     *)
(* dials: it takes START and FORCED_STOP in the order they were sent, a    *)
(* running call ends once, for some reason of its own or because it was    *)
(* stopped, and then, after a tone that takes its time, the result is      *)
(* sent.  A START that comes before the tone began cancels the report of   *)
(* the call before it.  The in-band MSD is disposed of in the step that    *)
(* ends the call.                                                          *)
(*                                                                         *)
(* DialService.tla shows that era/src/era_action.c keeps this promise;     *)
(* EmergencyCall.tla relies on it.                                         *)
(***************************************************************************)
EXTENDS MsdBuffer

VARIABLES
  inbox,     \* START and FORCED_STOP messages not yet taken
  running,   \* a call is being made
  closing,   \* the call is over, its tone is about to be played
  result,    \* how the last call ended
  tone,      \* the result whose tone is being played, or "none"
  ecallQ,    \* results sent
  buf,       \* the MSD storage
  up         \* FALSE once the modem has been told to reboot

serviceVars == <<inbox, running, closing, result, tone, ecallQ, buf, up>>

Endings == {"SUCCESS", "MANUAL_CANCEL", "ATTEMPTS_ENDED", "DIAL_DURATION",
            "CCFT_TIMER"}

StartMsg(event) == [ev |-> "START", arg |-> event]
StopMsg == [ev |-> "FORCED_STOP", arg |-> "none"]

ResultMsg(r) == [ev |-> "ERA_A_CALLBACK", arg |-> r]

\* At boot ERA_ACTION has nothing to do, whatever ECALL has been sent.
ServiceIdle ==
  /\ inbox = <<>> /\ running = FALSE /\ closing = FALSE
  /\ result = "SUCCESS" /\ tone = "none" /\ up = TRUE

ServiceInit == ServiceIdle /\ ecallQ = <<>>

\* The state the in-band MSD may be in when a call is over.
Disposed == {buf, DeleteBuf(buf, FindNumb(buf, "INBAND")), MoveBuf(buf, "INBAND", "SMS")}

\* A call starts; the unit may reboot if the modem does not obey.
TakeStart ==
  /\ up /\ inbox # <<>> /\ Head(inbox).ev = "START"
  /\ inbox' = Tail(inbox)
  /\ running' = TRUE /\ closing' = FALSE
  /\ up' \in BOOLEAN
  /\ UNCHANGED <<result, tone, ecallQ, buf>>

TakeStop ==
  /\ up /\ inbox # <<>> /\ Head(inbox).ev = "FORCED_STOP"
  /\ inbox' = Tail(inbox)
  /\ IF running
       THEN running' = FALSE /\ closing' = TRUE /\ result' = "FORCED_STOP"
       ELSE UNCHANGED <<running, closing, result>>
  /\ UNCHANGED <<tone, ecallQ, buf, up>>

\* T5, T6 or T7 of the in-band modem: the MSD is handed to the SMS task.
HandOver ==
  /\ up /\ running
  /\ buf' = MoveBuf(buf, "INBAND", "SMS")
  /\ UNCHANGED <<inbox, running, closing, result, tone, ecallQ, up>>

End(r) ==
  /\ up /\ running
  /\ running' = FALSE /\ closing' = TRUE /\ result' = r
  /\ buf' \in Disposed
  /\ UNCHANGED <<inbox, tone, ecallQ, up>>

\* The tone of the finished call starts, or cannot be played.
ToneStarts ==
  /\ up /\ closing /\ closing' = FALSE
  /\ \/ tone = "none" /\ tone' = result /\ UNCHANGED ecallQ
     \/ ecallQ' = Append(ecallQ, ResultMsg(result)) /\ UNCHANGED tone
  /\ UNCHANGED <<inbox, running, result, buf, up>>

ToneEnds ==
  /\ up /\ tone # "none" /\ tone' = "none"
  /\ ecallQ' = Append(ecallQ, ResultMsg(tone))
  /\ UNCHANGED <<inbox, running, closing, result, buf, up>>

Reboot == up /\ up' = FALSE /\ UNCHANGED <<inbox, running, closing, result, tone, ecallQ, buf>>

ServiceNext ==
  \/ TakeStart \/ TakeStop \/ HandOver \/ (\E r \in Endings : End(r))
  \/ ToneStarts \/ ToneEnds \/ Reboot

\* The other side: it sends START and FORCED_STOP, takes results, saves the MSD of a call
\* and deletes it.
ClientNext ==
  /\ up
  /\ \/ inbox' = inbox
     \/ \E m \in {StopMsg} \cup {StartMsg(e) : e \in {"MANUAL_SOS", "TEST", "AUTO"}} :
          inbox' = Append(inbox, m)
  /\ ecallQ' = ecallQ \/ (ecallQ # <<>> /\ ecallQ' = Tail(ecallQ))
  /\ \/ buf' \in {buf, DeleteBuf(buf, FindNumb(buf, "INBAND"))}
     \/ buf' # <<>> /\ buf' = SaveBuf(buf, buf'[Len(buf')])
  /\ UNCHANGED <<running, closing, result, tone, up>>

ServiceSpec == ServiceInit /\ [][ServiceNext \/ ClientNext]_serviceVars
=============================================================================
