------------------------- MODULE DialServiceProofs -------------------------
(***************************************************************************)
(* Proofs about DialService.tla for every number of calls, attempts and    *)
(* reports and every size of the mailbox: the dialling service keeps its   *)
(* types, stays under its watchdog, never answers a call twice, never      *)
(* dials for a call that is over, and keeps the MSD nobody acknowledged.   *)
(*                                                                         *)
(* The many handlers of era_action.c reduce to a few kinds of steps; which *)
(* kind each is, is shown first (StepKinds), the invariants then follow    *)
(* from the kinds alone.                                                   *)
(***************************************************************************)
EXTENDS DialService, MsdBufferProofs

----------------------------------------------------------------------------
(* The mailbox.                                                            *)

\* A mailbox of the task.
IsMailbox(q) == q \in Seq(Messages) /\ Len(q) <= MailboxSize

\* The messages the handlers and timers send are messages of the task.
LEMMA MessageTypes ==
  /\ \A e \in Events : Start(e) \in Messages
  /\ \A m \in Urcs \cup EcallEvs \cup Commands : Msg(m) \in Messages
BY DEF Messages

\* azx_tasks_sendMessageToTask (azx_tasks.c:106-153): a message is the last one or is lost.
LEMMA SentType ==
  ASSUME NEW q, IsMailbox(q), NEW m \in Messages
  PROVE  IsMailbox(Sent(q, m))
<1>1. CASE Len(q) < MailboxSize
  <2>1. Append(q, m) \in Seq(Messages) /\ Len(Append(q, m)) = Len(q) + 1 /\ Len(q) \in Nat
    BY AppendProperties, LenProperties DEF IsMailbox
  <2>2. MailboxSize \in Nat
    BY SizeAssumption
  <2> QED BY <1>1, <2>1, <2>2 DEF IsMailbox, Sent
<1>2. CASE ~(Len(q) < MailboxSize)
  BY <1>2 DEF IsMailbox, Sent
<1> QED BY <1>1, <1>2

\* Taking a message leaves a mailbox.
LEMMA RestType ==
  ASSUME IsMailbox(eaQ), eaQ # <<>>
  PROVE  IsMailbox(Rest)
<1>1. Tail(eaQ) \in Seq(Messages) /\ Len(Tail(eaQ)) = Len(eaQ) - 1 /\ Len(eaQ) \in Nat
  BY HeadTailProperties, EmptySeq, LenProperties DEF IsMailbox
<1>2. MailboxSize \in Nat
  BY SizeAssumption
<1> QED BY <1>1, <1>2 DEF IsMailbox, Rest

\* urc_str_handler (era_helper.c:86-129): of the URCs that come together the first ones
\* that fit are delivered.
LEMMA DeliveredType ==
  ASSUME NEW q, IsMailbox(q), NEW us \in Seq(Messages)
  PROVE  IsMailbox(Delivered(q, us))
<1> DEFINE room == MailboxSize - Len(q)
           n == Min({Len(us), room})
<1>1. Len(q) \in Nat /\ Len(us) \in Nat /\ MailboxSize \in Nat /\ room \in Nat
  BY LenProperties, SizeAssumption DEF IsMailbox
<1>2. n \in 0..Len(us) /\ n <= room
  <2>1. \E x \in {Len(us), room} : \A y \in {Len(us), room} : x <= y
    BY <1>1
  <2>2. n \in {Len(us), room} /\ \A y \in {Len(us), room} : n <= y
    BY <2>1 DEF Min
  <2> QED BY <1>1, <2>2
<1>3. SubSeq(us, 1, n) \in Seq(Messages) /\ Len(SubSeq(us, 1, n)) = n
  BY <1>2, PrefixProperties
<1>4. /\ q \o SubSeq(us, 1, n) \in Seq(Messages)
      /\ Len(q \o SubSeq(us, 1, n)) = Len(q) + n
  BY <1>3, ConcatProperties DEF IsMailbox
<1>5. Delivered(q, us) = q \o SubSeq(us, 1, n)
  BY DEF Delivered
<1> HIDE DEF n
<1>6. Len(q) + n <= MailboxSize
  BY <1>1, <1>2
<1> QED BY <1>4, <1>5, <1>6 DEF IsMailbox

----------------------------------------------------------------------------
(* What the handlers do, as far as the invariants look at it.              *)

\* The rest of the types.
IsBuf(b) == b \in Seq(Records(1..MaxCalls)) /\ Len(b) <= MAX_NUMBER_MSD

\* The call goes on, or goes on being over.
Stays(e, a) ==
  /\ e.stopped = ea.stopped
  /\ e.dial_duration_expired = ea.dial_duration_expired
  /\ "dial_dur" \in a <=> "dial_dur" \in armed
  /\ "finish" \in a => "finish" \in armed

\* finish() ends the call, or does nothing because it is over.
Ends(e, a) ==
  \/ ~ea.stopped /\ e.stopped /\ a = {"finish"}
  \/ Stays(e, a)

\* A call starts.
Begins(e, a) == ~e.stopped /\ "dial_dur" \in a /\ "finish" \notin a

\* finish() (era_action.c:405-433) of a call that still runs ends it; of one that is
\* over it does nothing.
LEMMA FinishedType ==
  ASSUME NEW e \in EaStates, NEW result \in Results
  PROVE  FinishedState(e, result) \in EaStates /\ FinishedState(e, result).stopped
BY DEF FinishedState, EaStates

\* delete_MSD keeps the storage a storage, whatever number it is given.
LEMMA FirstDeletedType ==
  ASSUME IsBuf(buf), NEW n \in Int
  PROVE  IsBuf(DeleteBuf(buf, n))
<1>1. Len(buf) \in Nat /\ MAX_NUMBER_MSD \in Nat
  BY LenProperties, MaxNumberAssumption DEF IsBuf
<1>2. DeleteBuf(buf, n) \in Seq(Records(1..MaxCalls))
  BY DeleteBufProperties DEF IsBuf
<1>3. Len(DeleteBuf(buf, n)) \in {Len(buf), Len(buf) - 1}
  BY DeleteBufProperties DEF IsBuf
<1> QED BY <1>1, <1>2, <1>3 DEF IsBuf

\* What finish() does to the in-band MSD (era_action.c:419-429) keeps the storage a storage.
LEMMA FinishedBufType ==
  ASSUME IsBuf(buf), NEW e, NEW result
  PROVE  IsBuf(FinishedBuf(e, result))
<1>1. FindNumb(buf, "INBAND") \in Int
  BY FindNumbProperties, LenProperties DEF IsBuf, NoMsd
<1>2. Len(buf) \in Nat /\ MAX_NUMBER_MSD \in Nat
  BY LenProperties, MaxNumberAssumption DEF IsBuf
<1>3. IsBuf(DeleteBuf(buf, FindNumb(buf, "INBAND")))
  BY <1>1, <1>2, FirstDeletedType
<1>4. IsBuf(MoveBuf(buf, "INBAND", "SMS"))
  BY <1>2, MoveBufProperties DEF IsBuf, Flags
<1> QED BY <1>3, <1>4 DEF FinishedBuf

\* finish() as a whole, reached with the state e and the timers a of a handler that has
\* not touched the watchdog.
LEMMA FinishProperties ==
  ASSUME IsBuf(buf), NEW e \in EaStates, NEW a \in SUBSET Timers, NEW q, NEW ln,
         NEW result \in Results, Stays(e, a), Finish(e, a, q, ln, result)
  PROVE  /\ ea' \in EaStates /\ armed' \in SUBSET Timers /\ IsBuf(buf')
         /\ Ends(ea', armed')
         /\ eaQ' = q /\ line' \in {ln, "idle"}
         /\ UNCHANGED <<paused, tone, ecallQ, smsReq, eraRestart, up>>
<1>1. UNCHANGED <<paused, tone, ecallQ, smsReq, eraRestart, up>> /\ eaQ' = q
  BY DEF Finish
<1>2. CASE e.stopped
  <2>1. ea' = e /\ armed' = a /\ line' = ln /\ buf' = buf
    BY <1>2 DEF Finish
  <2> QED BY <1>1, <2>1 DEF Ends
<1>3. CASE ~e.stopped
  <2>1. /\ ea' = FinishedState(e, result) /\ armed' = {"finish"} /\ line' \in {ln, "idle"}
        /\ buf' = FinishedBuf(e, result)
    BY <1>3 DEF Finish
  <2>2. ~ea.stopped
    BY <1>3 DEF Stays
  <2> QED BY <1>1, <2>1, <2>2, FinishedType, FinishedBufType DEF Ends, Timers
<1> QED BY <1>2, <1>3

\* restart_from_reason counts the reboots up to the limit and never brings a unit up again.
LEMMA RestartType ==
  ASSUME EaTypeOK, RestartFromReason
  PROVE  eraRestart' \in 0..MaxRestartNumber /\ up' \in BOOLEAN /\ (up' => up)
<1>1. MaxRestartNumber \in Nat /\ eraRestart \in 0..MaxRestartNumber /\ up \in BOOLEAN
  BY SizeAssumption DEF EaTypeOK
<1>2. CASE eraRestart < MaxRestartNumber
  <2>1. eraRestart' = eraRestart + 1 /\ up' = FALSE
    BY <1>2, Zenon DEF RestartFromReason
  <2>2. eraRestart' \in 0..MaxRestartNumber
    BY <1>1, <1>2, <2>1
  <2> QED BY <2>1, <2>2, Zenon
<1>3. CASE ~(eraRestart < MaxRestartNumber)
  <2>1. eraRestart' = eraRestart /\ up' = up
    BY <1>3, Zenon DEF RestartFromReason
  <2> QED BY <1>1, <2>1
<1> QED BY <1>2, <1>3

\* make_call (era_action.c:100-155) touches one timer and dials only for a call that
\* is wanted.
LEMMA MakeCallProperties ==
  ASSUME EaTypeOK, NEW e \in EaStates, NEW a \in SUBSET Timers, NEW q, IsMailbox(q),
         MakeCall(e, a, q)
  PROVE  /\ ea' = e /\ armed' \in {a, a \cup {"conn_wait"}, a \ {"conn_wait"}}
         /\ IsMailbox(eaQ') /\ line' \in {"idle", "dialing"}
         /\ line' = "dialing" => ~e.stopped
         /\ eraRestart' \in 0..MaxRestartNumber /\ up' \in BOOLEAN /\ (up' => up)
         /\ UNCHANGED <<paused, tone, ecallQ, smsReq, buf>>
<1>1. IsMailbox(Sent(q, Msg("CALL_FAILED")))
  BY SentType, MessageTypes DEF Commands
<1>2. ea' = e /\ UNCHANGED <<paused, tone, ecallQ, smsReq, buf>>
  BY DEF MakeCall
<1>3. /\ armed' \in {a, a \cup {"conn_wait"}, a \ {"conn_wait"}}
      /\ IsMailbox(eaQ') /\ line' \in {"idle", "dialing"}
      /\ line' = "dialing" => ~e.stopped
  BY <1>1 DEF MakeCall, StillWanted
<1>4. UNCHANGED <<eraRestart, up>> \/ RestartFromReason
  BY DEF MakeCall
<1>5. eraRestart' \in 0..MaxRestartNumber /\ up' \in BOOLEAN /\ (up' => up)
  BY <1>4, RestartType DEF EaTypeOK
<1> QED BY <1>2, <1>3, <1>5

----------------------------------------------------------------------------
(* The steps of the task, of its timers and of the modem.                  *)

\* What all of them keep, beside the mailbox of ECALL.
Typed ==
  /\ ea' \in EaStates /\ armed' \in SUBSET Timers /\ paused' \in BOOLEAN
  /\ IsMailbox(eaQ') /\ tone' \in Results \cup {"none"} /\ line' \in Lines
  /\ smsReq' \in {"none", "send", "stop"} /\ eraRestart' \in 0..MaxRestartNumber
  /\ up' \in BOOLEAN /\ (up' => up) /\ IsBuf(buf')

\* A message handler: no tone ends, no result is sent, nothing dials.
Handles ==
  /\ Typed /\ Ends(ea', armed') /\ UNCHANGED <<tone, ecallQ>>
  /\ line' = "dialing" => line = "dialing"

\* The types of the service, one by one, as the lemmas below cite them.
LEMMA EaTypes ==
  ASSUME TypeOK
  PROVE  /\ ea \in EaStates /\ armed \in SUBSET Timers /\ paused \in BOOLEAN
         /\ IsMailbox(eaQ) /\ tone \in Results \cup {"none"} /\ line \in Lines
         /\ smsReq \in {"none", "send", "stop"} /\ eraRestart \in 0..MaxRestartNumber
         /\ up \in BOOLEAN /\ IsBuf(buf) /\ EaTypeOK
BY DEF TypeOK, EaTypeOK, IsMailbox, IsBuf

\* A handler that ends in finish().
LEMMA FinishHandles ==
  ASSUME TypeOK, NEW e \in EaStates, NEW a \in SUBSET Timers, NEW q, IsMailbox(q),
         NEW ln \in {line, "idle"}, NEW result \in Results,
         Stays(e, a), Finish(e, a, q, ln, result)
  PROVE  Handles
<1>1. /\ ea' \in EaStates /\ armed' \in SUBSET Timers /\ IsBuf(buf')
      /\ Ends(ea', armed') /\ eaQ' = q /\ line' \in {ln, "idle"}
      /\ UNCHANGED <<paused, tone, ecallQ, smsReq, eraRestart, up>>
  BY EaTypes, FinishProperties
<1> QED BY <1>1, EaTypes DEF Handles, Typed, Lines

\* call_failed (era_action.c:157-192).
LEMMA CallFailedHandles ==
  ASSUME TypeOK, NEW q, IsMailbox(q), CallFailed(ea, q)
  PROVE  Handles
<1> DEFINE e == [ea EXCEPT !.call_attempts = @ + 1]
           a == armed \ {"conn_wait"}
<1>1. e \in EaStates /\ a \in SUBSET Timers /\ Stays(e, a)
  BY EaTypes DEF EaStates, Stays
<1>2. (a \cup {"dials_delay"}) \in SUBSET Timers /\ Stays(e, a \cup {"dials_delay"})
  BY <1>1 DEF Timers, Stays
<1>3. "idle" \in Lines /\ "idle" # "dialing" /\ {"ATTEMPTS_ENDED", "DIAL_DURATION"} \subseteq Results
  BY DEF Lines, Results
<1>4. CallFailed(ea, q) =>
        \/ Finish(e, a, q, "idle", "ATTEMPTS_ENDED")
        \/ Finish(e, a, q, "idle", "DIAL_DURATION")
        \/ /\ ea' = e /\ eaQ' = q /\ line' = "idle" /\ armed' = a
           /\ RestartFromReason /\ UNCHANGED <<paused, tone, ecallQ, smsReq, buf>>
        \/ /\ ea' = e /\ eaQ' = q /\ line' = "idle" /\ armed' = a \cup {"dials_delay"}
           /\ UNCHANGED <<paused, tone, ecallQ, smsReq, eraRestart, up, buf>>
  BY Zenon DEF CallFailed
<1> HIDE DEF e, a
<1>5. CASE Finish(e, a, q, "idle", "ATTEMPTS_ENDED") \/ Finish(e, a, q, "idle", "DIAL_DURATION")
  BY <1>1, <1>3, <1>5, FinishHandles
<1>6. CASE /\ ea' = e /\ eaQ' = q /\ line' = "idle" /\ armed' = a
           /\ RestartFromReason /\ UNCHANGED <<paused, tone, ecallQ, smsReq, buf>>
  <2>1. eraRestart' \in 0..MaxRestartNumber /\ up' \in BOOLEAN /\ (up' => up)
    BY <1>6, EaTypes, RestartType, Zenon
  <2> QED BY <1>1, <1>3, <1>6, <2>1, EaTypes DEF Handles, Typed, Ends
<1>7. CASE /\ ea' = e /\ eaQ' = q /\ line' = "idle" /\ armed' = a \cup {"dials_delay"}
           /\ UNCHANGED <<paused, tone, ecallQ, smsReq, eraRestart, up, buf>>
  BY <1>1, <1>2, <1>3, <1>7, EaTypes DEF Handles, Typed, Ends
<1> QED BY <1>4, <1>5, <1>6, <1>7

\* finished = TRUE changes nothing else.
LEMMA FinishedFlag ==
  ASSUME NEW r \in EaStates, NEW a, Stays(r, a)
  PROVE  [r EXCEPT !.finished = TRUE] \in EaStates /\ Stays([r EXCEPT !.finished = TRUE], a)
BY DEF EaStates, Stays

\* disconnected (era_action.c:347-372), before its sleep and after it.
LEMMA DisconnectedHandles ==
  ASSUME TypeOK, Disconnected
  PROVE  Handles
<1> DEFINE e == [ea EXCEPT !.SOS_pressed_numb = 0, !.voice_active = FALSE]
           f == [e EXCEPT !.finished = TRUE]
<1>1. e \in EaStates /\ Stays(e, armed)
  <2>1. ea \in EaStates
    BY EaTypes
  <2>2. 0 \in 0..3
    OBVIOUS
  <2>3. e \in EaStates
    BY <2>1, <2>2 DEF EaStates
  <2> QED BY <2>1, <2>3 DEF EaStates, Stays
<1>2. f \in EaStates /\ Stays(f, armed)
  <2> HIDE DEF e
  <2> QED BY <1>1, FinishedFlag
<1>3. IsMailbox(Rest)
  BY EaTypes, RestType DEF Disconnected, TakeUrc, Take
<1>4. Disconnected =>
        \/ Finish(f, armed, Rest, line, "DIAL_DURATION")
        \/ /\ ea' = e /\ eaQ' = Rest /\ paused' = ~e.finished
           /\ UNCHANGED <<armed, tone, ecallQ, line, smsReq, eraRestart, up, buf>>
  BY Zenon DEF Disconnected
<1>5. "DIAL_DURATION" \in Results
  BY DEF Results
<1> HIDE DEF e, f
<1>6. CASE Finish(f, armed, Rest, line, "DIAL_DURATION")
  BY <1>2, <1>3, <1>5, <1>6, EaTypes, FinishHandles
<1>7. CASE /\ ea' = e /\ eaQ' = Rest /\ paused' = ~e.finished
           /\ UNCHANGED <<armed, tone, ecallQ, line, smsReq, eraRestart, up, buf>>
  <2>1. paused' \in BOOLEAN
    BY <1>7, Zenon
  <2> QED BY <1>1, <1>3, <1>7, <2>1, EaTypes DEF Handles, Typed, Ends
<1> QED BY <1>4, <1>6, <1>7

\* disconnected after its sleep: the cause decides (era_action.c:357-370).
LEMMA CauseReadHandles ==
  ASSUME TypeOK, CauseRead
  PROVE  Handles
<1> DEFINE f == [ea EXCEPT !.finished = TRUE]
<1>1. f \in EaStates /\ Stays(f, armed) /\ f.stopped = ea.stopped /\ Stays(ea, armed)
  BY EaTypes DEF EaStates, Stays
<1>2. FinishedState(f, "SUCCESS") \in EaStates /\ FinishedState(f, "SUCCESS").stopped
  BY <1>1, FinishedType DEF Results
<1>3. IsBuf(FinishedBuf(ea, "SUCCESS")) /\ {"finish"} \in SUBSET Timers
  BY EaTypes, FinishedBufType DEF Timers
<1>4. IsMailbox(Sent(eaQ, Msg("CALL_FAILED")))
  BY EaTypes, SentType, MessageTypes DEF Commands
<1>5. /\ paused' = FALSE
      /\ UNCHANGED <<tone, ecallQ, line, smsReq, eraRestart, up>>
  BY DEF CauseRead
<1>6. CauseRead =>
        \/ ea.stopped /\ ea' = f /\ eaQ' = eaQ /\ UNCHANGED <<armed, buf>>
        \/ /\ ~ea.stopped /\ ea' = FinishedState(f, "SUCCESS") /\ eaQ' = eaQ
           /\ armed' = {"finish"} /\ buf' = FinishedBuf(ea, "SUCCESS")
        \/ eaQ' = Sent(eaQ, Msg("CALL_FAILED")) /\ UNCHANGED <<ea, armed, buf>>
  BY Zenon DEF CauseRead
<1> HIDE DEF f
<1>7. CASE ea.stopped /\ ea' = f /\ eaQ' = eaQ /\ UNCHANGED <<armed, buf>>
  BY <1>1, <1>5, <1>7, EaTypes DEF Handles, Typed, Ends
<1>8. CASE /\ ~ea.stopped /\ ea' = FinishedState(f, "SUCCESS") /\ eaQ' = eaQ
           /\ armed' = {"finish"} /\ buf' = FinishedBuf(ea, "SUCCESS")
  BY <1>2, <1>3, <1>5, <1>8, EaTypes DEF Handles, Typed, Ends
<1>9. CASE eaQ' = Sent(eaQ, Msg("CALL_FAILED")) /\ UNCHANGED <<ea, armed, buf>>
  BY <1>1, <1>4, <1>5, <1>9, EaTypes DEF Handles, Typed, Ends
<1> QED BY <1>6, <1>7, <1>8, <1>9

\* The other URCs (era_action.c:230-345).
LEMMA UrcHandles ==
  ASSUME TypeOK, UrcRing \/ UrcConnected \/ EvStart \/ EvAck \/ EvTimeout \/ UrcIgnored
  PROVE  Handles
<1>1. IsMailbox(Rest)
  BY EaTypes, RestType DEF UrcRing, UrcConnected, EvStart, EvAck, EvTimeout, UrcIgnored,
     TakeUrc, Take
<1>2. eaQ' = Rest
  BY DEF UrcRing, UrcConnected, EvStart, EvAck, EvTimeout, UrcIgnored
<1>3. IsMailbox(eaQ') /\ Stays(ea, armed)
  BY <1>1, <1>2 DEF Stays
<1>4. CASE UrcRing
  <2>1. Quiet /\ ea' = ea /\ armed' \in {armed, armed \ {"conn_wait", "dials_delay"}}
    BY <1>4 DEF UrcRing
  <2>2. line' = line \/ line' = "answering"
    BY <1>4 DEF UrcRing
  <2>3. Stays(ea', armed') /\ line' \in Lines /\ (line' = "dialing" => line = "dialing")
    BY <2>1, <2>2, EaTypes DEF Stays, Lines
  <2> QED BY <1>3, <2>1, <2>3, EaTypes DEF Quiet, Handles, Typed, Ends
<1>5. CASE UrcConnected
  <2>1. /\ armed' = (armed \ {"conn_wait", "dials_delay"}) \cup {"ccft"} /\ eraRestart' = 0
        /\ UNCHANGED <<ea, paused, tone, ecallQ, line, smsReq, up, buf>>
    BY <1>5 DEF UrcConnected
  <2>2. armed' \in SUBSET Timers /\ Stays(ea', armed')
    BY <2>1, EaTypes DEF Stays, Timers
  <2>3. 0 \in 0..MaxRestartNumber
    BY SizeAssumption
  <2> QED BY <1>3, <2>1, <2>2, <2>3, EaTypes DEF Handles, Typed, Ends
<1>6. CASE EvStart \/ UrcIgnored
  <2>1. UNCHANGED <<ea, armed, line>> /\ Quiet
    BY <1>6 DEF EvStart, UrcIgnored
  <2> QED BY <1>3, <2>1, EaTypes DEF Quiet, Handles, Typed, Ends
<1>7. CASE EvAck
  <2>1. PICK ev \in {"EV_LL_ACK", "EV_AL_ACK", "EV_CLEAR_DOWN"} :
          /\ ea' = [ea EXCEPT !.msd_decoded = @ \/ ev # "EV_CLEAR_DOWN",
                              !.pull_mode = @ \/ ev # "EV_LL_ACK"]
          /\ UNCHANGED <<armed, line>> /\ Quiet
    BY <1>7, Zenon DEF EvAck
  <2>2. ea' \in EaStates /\ Stays(ea', armed')
    BY <2>1, EaTypes DEF EaStates, Stays
  <2> QED BY <1>3, <2>1, <2>2, EaTypes DEF Quiet, Handles, Typed, Ends
<1>8. CASE EvTimeout
  <2>1. ea' = ea \/ ea' = [ea EXCEPT !.pull_mode = TRUE]
    BY <1>8 DEF EvTimeout
  <2>2. ea' \in EaStates /\ Stays(ea', armed)
    BY <2>1, EaTypes DEF EaStates, Stays
  <2>3. buf' = buf \/ buf' = MoveBuf(buf, "INBAND", "SMS")
    BY <1>8 DEF EvTimeout
  <2>4. IsBuf(buf')
    BY <2>3, EaTypes, MoveBufProperties DEF IsBuf, Flags
  <2>5. smsReq' \in {smsReq, "send"} /\ UNCHANGED <<armed, line, paused, tone, ecallQ, eraRestart, up>>
    BY <1>8 DEF EvTimeout
  <2> QED BY <1>3, <2>2, <2>4, <2>5, EaTypes DEF Handles, Typed, Ends
<1> QED BY <1>4, <1>5, <1>6, <1>7, <1>8

\* The voice channel opens (era_action.c:290-303).
LEMMA EvVoiceHandles ==
  ASSUME TypeOK, EvVoice
  PROVE  Handles
<1> DEFINE e == [ea EXCEPT !.voice_active = TRUE,
                           !.can_be_canceled = @ /\ ~(ea.msd_decoded \/ ea.pull_mode)]
           f == [e EXCEPT !.finished = TRUE]
<1>1. e \in EaStates /\ Stays(e, armed)
  BY EaTypes DEF EaStates, Stays
<1>2. f \in EaStates /\ Stays(f, armed)
  <2> HIDE DEF e
  <2> QED BY <1>1, FinishedFlag
<1>3. IsMailbox(Rest)
  BY EaTypes, RestType DEF EvVoice, TakeUrc, Take
<1>4. \/ Finish(f, armed, Rest, line, "SUCCESS")
      \/ ea' = e /\ eaQ' = Rest /\ UNCHANGED <<armed, line>> /\ Quiet
  BY Zenon DEF EvVoice
<1> HIDE DEF e, f
<1>5. CASE Finish(f, armed, Rest, line, "SUCCESS")
  BY <1>2, <1>3, <1>5, EaTypes, FinishHandles DEF Results
<1>6. CASE ea' = e /\ eaQ' = Rest /\ UNCHANGED <<armed, line>> /\ Quiet
  BY <1>1, <1>3, <1>6, EaTypes DEF Quiet, Handles, Typed, Ends
<1> QED BY <1>4, <1>5, <1>6

\* The button (era_action.c:386-403) and the commands that end a call.
LEMMA CommandHandles ==
  ASSUME TypeOK, SosPressed \/ DialDurMsg \/ CcftMsg \/ ForcedStop
  PROVE  Handles
<1>1. IsMailbox(Rest)
  BY EaTypes, RestType DEF SosPressed, DialDurMsg, CcftMsg, ForcedStop, Take
<1>2. Stays(ea, armed) /\ {"MANUAL_CANCEL", "DIAL_DURATION", "CCFT_TIMER", "FORCED_STOP"} \subseteq Results
  BY DEF Stays, Results
<1> DEFINE f == [ea EXCEPT !.finished = TRUE]
           n == [ea EXCEPT !.SOS_pressed_numb = @ + 1]
<1>3. f \in EaStates /\ Stays(f, armed)
  BY <1>2, EaTypes, FinishedFlag
<1>4. ASSUME ea.SOS_pressed_numb < 3 PROVE n \in EaStates /\ Stays(n, armed)
  <2>1. ea.SOS_pressed_numb \in 0..3
    BY EaTypes DEF EaStates
  <2>2. ea.SOS_pressed_numb + 1 \in 0..3
    BY <1>4, <2>1
  <2> QED BY <2>2, EaTypes DEF EaStates, Stays
<1>5. CASE SosPressed
  <2>1. \/ Finish(f, armed, Rest, "idle", "MANUAL_CANCEL")
        \/ /\ ea' = ea \/ (ea.SOS_pressed_numb < 3 /\ ea' = n)
           /\ eaQ' = Rest /\ UNCHANGED <<armed, line>> /\ Quiet
    BY <1>5, Zenon DEF SosPressed
  <2> HIDE DEF f, n
  <2>2. CASE Finish(f, armed, Rest, "idle", "MANUAL_CANCEL")
    BY <1>1, <1>2, <1>3, <2>2, EaTypes, FinishHandles
  <2>3. CASE /\ ea' = ea \/ (ea.SOS_pressed_numb < 3 /\ ea' = n)
             /\ eaQ' = Rest /\ UNCHANGED <<armed, line>> /\ Quiet
    BY <1>1, <1>2, <1>4, <2>3, EaTypes DEF Quiet, Handles, Typed, Ends
  <2> QED BY <2>1, <2>2, <2>3
<1>6. CASE DialDurMsg
  BY <1>1, <1>2, <1>6, EaTypes, FinishHandles DEF DialDurMsg
<1>7. CASE CcftMsg
  <2>1. Finish(f, armed, Rest, "idle", "CCFT_TIMER")
    BY <1>7, Zenon DEF CcftMsg
  <2> HIDE DEF f
  <2> QED BY <1>1, <1>2, <1>3, <2>1, EaTypes, FinishHandles
<1>8. CASE ForcedStop
  BY <1>1, <1>2, <1>8, EaTypes, FinishHandles DEF ForcedStop
<1> QED BY <1>5, <1>6, <1>7, <1>8

\* Every message but START and MAKE_CALL.
LEMMA MessageHandles ==
  ASSUME TypeOK,
         \/ CallFailedMsg \/ UrcBusy \/ EvUnknown \/ Disconnected \/ CauseRead
         \/ UrcRing \/ UrcConnected \/ EvStart \/ EvAck \/ EvTimeout \/ EvVoice
         \/ UrcIgnored \/ SosPressed \/ DialDurMsg \/ CcftMsg \/ ForcedStop
  PROVE  Handles
<1>1. CASE CallFailedMsg \/ UrcBusy \/ EvUnknown
  <2>1. IsMailbox(Rest)
    BY <1>1, EaTypes, RestType DEF CallFailedMsg, UrcBusy, EvUnknown, TakeUrc, Take
  <2>2. CallFailed(ea, Rest)
    BY <1>1 DEF CallFailedMsg, UrcBusy, EvUnknown
  <2> QED BY <2>1, <2>2, CallFailedHandles
<1> QED BY <1>1, DisconnectedHandles, CauseReadHandles, UrcHandles, EvVoiceHandles, CommandHandles

\* MAKE_CALL: another attempt of the same call.
LEMMA MakeCallAgainHandles ==
  ASSUME TypeOK, MakeCallAgain
  PROVE  /\ Typed /\ Stays(ea', armed') /\ UNCHANGED <<tone, ecallQ>>
         /\ line' = "dialing" => ~ea'.stopped
<1>1. IsMailbox(Rest) /\ MakeCall(ea, armed, Rest)
  BY EaTypes, RestType DEF MakeCallAgain, Take
<1>2. /\ ea' = ea /\ armed' \in {armed, armed \cup {"conn_wait"}, armed \ {"conn_wait"}}
      /\ IsMailbox(eaQ') /\ line' \in {"idle", "dialing"}
      /\ line' = "dialing" => ~ea.stopped
      /\ eraRestart' \in 0..MaxRestartNumber /\ up' \in BOOLEAN /\ (up' => up)
      /\ UNCHANGED <<paused, tone, ecallQ, smsReq, buf>>
  BY <1>1, EaTypes, MakeCallProperties
<1>3. armed' \in SUBSET Timers /\ Stays(ea', armed')
  BY <1>2, EaTypes DEF Stays, Timers
<1> QED BY <1>2, <1>3, EaTypes DEF Typed, Lines

\* START (era_action.c:71-98).
LEMMA StartCallBegins ==
  ASSUME TypeOK, StartCall
  PROVE  /\ Typed /\ Begins(ea', armed') /\ UNCHANGED <<tone, ecallQ>>
<1> DEFINE a == (armed \ {"finish"}) \cup {"dial_dur"}
           e(event) == [ea EXCEPT !.event = event, !.stopped = FALSE,
                           !.pull_mode = FALSE, !.call_attempts = 0,
                           !.msd_decoded = FALSE, !.voice_active = FALSE,
                           !.can_be_canceled = CanCancel,
                           !.dial_duration_expired = FALSE,
                           !.finished = FALSE, !.SOS_pressed_numb = 0,
                           !.sos_button_listen = IF event # "TEST" THEN TRUE ELSE @,
                           !.urc_listening = TRUE]
<1>1. PICK event \in Events : Take("START") /\ MakeCall(e(event), a, Rest)
  BY Zenon DEF StartCall
<1>2. IsMailbox(Rest) /\ a \in SUBSET Timers
  BY <1>1, EaTypes, RestType DEF Take, Timers
<1>3. e(event) \in EaStates /\ ~e(event).stopped
  <2> DEFINE s == [ea EXCEPT !.event = event, !.stopped = FALSE, !.pull_mode = FALSE,
                             !.call_attempts = 0, !.msd_decoded = FALSE, !.voice_active = FALSE]
             b == IF event # "TEST" THEN TRUE ELSE ea.sos_button_listen
  <2>1. ea \in EaStates /\ CanCancel \in BOOLEAN /\ 0 \in 0..3
    BY EaTypes, ModeAssumption
  <2>2. b \in BOOLEAN /\ s \in EaStates /\ ~s.stopped
    BY <2>1 DEF EaStates
  <2>3. e(event) = [s EXCEPT !.can_be_canceled = CanCancel, !.dial_duration_expired = FALSE,
                             !.finished = FALSE, !.SOS_pressed_numb = 0,
                             !.sos_button_listen = b, !.urc_listening = TRUE]
    BY <2>1 DEF EaStates
  <2> HIDE DEF s, b, e
  <2> QED BY <2>1, <2>2, <2>3 DEF EaStates
<1> HIDE DEF e
<1>4. /\ ea' = e(event) /\ armed' \in {a, a \cup {"conn_wait"}, a \ {"conn_wait"}}
      /\ IsMailbox(eaQ') /\ line' \in {"idle", "dialing"}
      /\ eraRestart' \in 0..MaxRestartNumber /\ up' \in BOOLEAN /\ (up' => up)
      /\ UNCHANGED <<paused, tone, ecallQ, smsReq, buf>>
  BY <1>1, <1>2, <1>3, EaTypes, MakeCallProperties
<1>5. armed' \in SUBSET Timers /\ Begins(ea', armed')
  BY <1>2, <1>3, <1>4 DEF Begins, Timers
<1> QED BY <1>3, <1>4, <1>5, EaTypes DEF Typed, Lines

\* The modem reports: only the line and the mailbox change.
LEMMA ModemStays ==
  ASSUME TypeOK, ModemNext
  PROVE  /\ Typed /\ UNCHANGED <<ea, armed, tone, ecallQ>>
         /\ line' = "dialing" => line = "dialing"
<1>1. \A u \in Urcs \cup EcallEvs : <<Msg(u)>> \in Seq(Messages)
  BY MessageTypes
<1>2. <<Msg("URC_DISCONNECTED"), Msg("URC_NO_CARRIER")>> \in Seq(Messages)
  BY MessageTypes DEF Urcs
<1>3. PICK ln \in {"talking", "idle", "ringing", line}, us \in Seq(Messages) : ModemReports(ln, us)
  <2>1. CASE ModemConnects
    BY <1>1, <2>1 DEF ModemConnects, Urcs
  <2>2. CASE ModemBusy
    BY <1>1, <2>2 DEF ModemBusy, Urcs
  <2>3. CASE ModemReleases
    BY <1>1, <1>2, <2>3 DEF ModemReleases, Urcs
  <2>4. CASE ModemEcallEv
    BY <1>1, <2>4 DEF ModemEcallEv
  <2>5. CASE ModemRings
    BY <1>1, <2>5 DEF ModemRings, Urcs
  <2> QED BY <2>1, <2>2, <2>3, <2>4, <2>5 DEF ModemNext
<1>4. IsMailbox(Delivered(eaQ, us))
  BY EaTypes, DeliveredType
<1> QED BY <1>3, <1>4, EaTypes DEF ModemReports, Quiet, Typed, Lines

\* A result in the mailbox of ECALL.
IsResults(q) == q \in Seq({ResultMsg(r) : r \in Results})

\* A result is appended to the mailbox of ECALL.
LEMMA ResultSent ==
  ASSUME NEW q, IsResults(q), NEW r \in Results
  PROVE  IsResults(Append(q, ResultMsg(r))) /\ Len(Append(q, ResultMsg(r))) = Len(q) + 1
         /\ Len(q) \in Nat
<1>1. ResultMsg(r) \in {ResultMsg(x) : x \in Results}
  OBVIOUS
<1> QED BY <1>1, AppendProperties, LenProperties DEF IsResults

----------------------------------------------------------------------------
(* The steps of the timers and of the player.                              *)

\* A caller that waits or stops has started a call.
CallIsCounted == caller # "idle" => calls > 0

\* dial_dur_t sets its flag in the step in which it stops running
\* (era_action.c:194-201).
LEMMA DialDurExpiresSets ==
  ASSUME TypeOK, DialDurExpires
  PROVE  /\ Typed /\ ea'.dial_duration_expired /\ ea'.stopped = ea.stopped
         /\ "finish" \in armed' <=> "finish" \in armed
         /\ UNCHANGED <<tone, ecallQ, line>>
<1>1. IsMailbox(eaQ')
  <2>1. IsMailbox(Sent(eaQ, Msg("DIAL_DUR_T")))
    BY EaTypes, SentType, MessageTypes DEF Commands
  <2> QED BY <2>1, EaTypes DEF DialDurExpires
<1>2. /\ armed' = armed \ {"dial_dur"} /\ ea' = [ea EXCEPT !.dial_duration_expired = TRUE]
      /\ line' = line /\ Quiet
  BY DEF DialDurExpires
<1>3. ea' \in EaStates /\ ea'.dial_duration_expired /\ ea'.stopped = ea.stopped
  BY <1>2, EaTypes DEF EaStates
<1> QED BY <1>1, <1>2, <1>3, EaTypes DEF Typed, Quiet

\* The timers that only post a message (era_action.c:202-218).
LEMMA TimerExpiresStays ==
  ASSUME TypeOK, NEW t \in DOMAIN TimerMessage, TimerExpires(t)
  PROVE  /\ Typed /\ Stays(ea', armed') /\ UNCHANGED <<tone, ecallQ, line>>
<1>1. t \in {"conn_wait", "dials_delay", "ccft"} /\ TimerMessage[t] \in Commands
  BY DEF TimerMessage, Commands
<1>2. IsMailbox(Sent(eaQ, Msg(TimerMessage[t])))
  BY <1>1, EaTypes, SentType, MessageTypes
<1>3. /\ armed' = armed \ {t} /\ eaQ' = Sent(eaQ, Msg(TimerMessage[t]))
      /\ UNCHANGED <<ea, line>> /\ Quiet
  BY DEF TimerExpires
<1>4. Stays(ea', armed')
  BY <1>1, <1>3 DEF Stays
<1> QED BY <1>2, <1>3, <1>4, EaTypes DEF Typed, Quiet

\* The two ways a result leaves the task: by its tone, or at once.
LEMMA ResultTypes ==
  ASSUME TypeOK
  PROVE  /\ ea.result_action \in Results /\ IsResults(ecallQ)
         /\ tone # "none" => tone \in Results
BY EaTypes DEF EaStates, TypeOK, EaTypeOK, IsResults

\* finish_t (era_action.c:213-215): what was owed by the timer is owed by the player
\* or has been sent.
LEMMA FinishExpiresSends ==
  ASSUME TypeOK, FinishExpires
  PROVE  /\ Typed /\ "finish" \in armed /\ armed' = armed \ {"finish"}
         /\ UNCHANGED <<ea, line>> /\ IsResults(ecallQ')
         /\ \/ tone = "none" /\ tone' # "none" /\ ecallQ' = ecallQ
            \/ tone' = tone /\ Len(ecallQ') = Len(ecallQ) + 1
<1>1. /\ "finish" \in armed /\ armed' = armed \ {"finish"}
      /\ \/ tone = "none" /\ tone' = ea.result_action /\ ecallQ' = ecallQ
         \/ ecallQ' = Append(ecallQ, ResultMsg(ea.result_action)) /\ tone' = tone
      /\ UNCHANGED <<ea, paused, eaQ, line, smsReq, eraRestart, up, buf>>
  BY DEF FinishExpires
<1>2. ea.result_action \in Results /\ ea.result_action # "none" /\ IsResults(ecallQ)
  BY ResultTypes DEF Results
<1>3. /\ IsResults(Append(ecallQ, ResultMsg(ea.result_action)))
      /\ Len(Append(ecallQ, ResultMsg(ea.result_action))) = Len(ecallQ) + 1
  BY <1>2, ResultSent
<1>4. Typed
  BY <1>1, <1>2, EaTypes DEF Typed
<1>5. CASE tone = "none" /\ tone' = ea.result_action /\ ecallQ' = ecallQ
  BY <1>1, <1>2, <1>4, <1>5
<1>6. CASE ecallQ' = Append(ecallQ, ResultMsg(ea.result_action)) /\ tone' = tone
  <2>1. IsResults(ecallQ') /\ Len(ecallQ') = Len(ecallQ) + 1
    BY <1>3, <1>6
  <2> QED BY <1>1, <1>4, <1>6, <2>1
<1> QED BY <1>1, <1>5, <1>6

\* era_a_player_result_cb (era_action.c:437-452).
LEMMA ToneEndsSends ==
  ASSUME TypeOK, ToneEnds
  PROVE  /\ Typed /\ tone # "none" /\ tone' = "none"
         /\ UNCHANGED <<ea, armed, line>> /\ IsResults(ecallQ')
         /\ Len(ecallQ') = Len(ecallQ) + 1
<1>1. /\ tone # "none" /\ tone' = "none" /\ ecallQ' = Append(ecallQ, ResultMsg(tone))
      /\ UNCHANGED <<ea, armed, paused, eaQ, line, smsReq, eraRestart, up, buf>>
  BY DEF ToneEnds
<1> QED BY <1>1, ResultTypes, ResultSent, EaTypes DEF Typed

----------------------------------------------------------------------------
(* The steps of the caller.                                                *)

\* Mailboxes and the MSD storage are all the caller shares with the task.
CallerFrame ==
  /\ Typed /\ IsResults(ecallQ')
  /\ UNCHANGED <<ea, armed, tone, line, up, reports, current, answered>>
  /\ caller' \in {"idle", "waiting", "stopping"} /\ calls' \in 0..MaxCalls
  /\ presses' \in 0..MaxPresses /\ dropped' \subseteq 1..MaxCalls
  /\ CallIsCounted'

\* START: the MSD is saved with the number of the new call.
LEMMA CallerStartsFrame ==
  ASSUME TypeOK, NEW event \in CallEvents, CallerStarts(event)
  PROVE  CallerFrame
<1> DEFINE m == [id |-> calls + 1, flag |-> "INBAND"]
<1>1. /\ calls < MaxCalls /\ caller' = "waiting" /\ calls' = calls + 1
      /\ eaQ' = Sent(eaQ, Start(event)) /\ smsReq' = "stop"
      /\ buf' \in {buf, SaveBuf(buf, m)}
      /\ UNCHANGED <<ea, armed, paused, tone, ecallQ, line, eraRestart, up,
                     reports, presses, current, answered, dropped>>
  BY DEF CallerStarts
<1>2. MaxCalls \in Nat /\ calls \in 0..MaxCalls
  BY BoundsAssumption DEF TypeOK
<1>3. calls + 1 \in 1..MaxCalls /\ calls + 1 > 0
  BY <1>1, <1>2
<1>4. IsMailbox(eaQ')
  BY <1>1, EaTypes, SentType, MessageTypes, CallEventsAssumption
<1>5. IsBuf(SaveBuf(buf, m))
  <2>1. m \in Records(1..MaxCalls)
    BY <1>3 DEF Records, Flags
  <2> QED BY <2>1, EaTypes, SaveBufProperties DEF IsBuf
<1>6. calls' \in 0..MaxCalls /\ CallIsCounted'
  BY <1>1, <1>2, <1>3 DEF CallIsCounted
<1>7. IsBuf(buf') /\ Typed
  BY <1>1, <1>4, <1>5, EaTypes DEF Typed
<1> QED BY <1>1, <1>6, <1>7, ResultTypes DEF CallerFrame, TypeOK

\* The call the caller drops is one it has started.
LEMMA DroppedType ==
  ASSUME TypeOK, CallIsCounted, caller # "idle"
  PROVE  (dropped \cup {calls}) \subseteq 1..MaxCalls
<1>1. MaxCalls \in Nat /\ calls \in 0..MaxCalls /\ calls > 0 /\ dropped \subseteq 1..MaxCalls
  BY BoundsAssumption DEF TypeOK, CallIsCounted
<1> QED BY <1>1

\* Deleting the in-band MSD after a forced stop or a cancellation.
LEMMA InbandDeletedType ==
  ASSUME TypeOK
  PROVE  IsBuf(InbandDeleted)
<1>1. FindNumb(buf, "INBAND") \in Int
  BY EaTypes, FindNumbProperties, LenProperties DEF IsBuf, NoMsd
<1> QED BY <1>1, EaTypes, FirstDeletedType DEF InbandDeleted

\* The caller changes nothing of the call itself, its tone or its watchdog.
LEMMA CallerFrames ==
  ASSUME TypeOK, CallIsCounted, CallerNext
  PROVE  CallerFrame
<1>1. ASSUME NEW event \in CallEvents, CallerStarts(event) PROVE CallerFrame
  BY <1>1, CallerStartsFrame
<1>2. CASE CallerStops
  <2>1. IsMailbox(Sent(eaQ, Msg("FORCED_STOP")))
    BY EaTypes, SentType, MessageTypes DEF Commands
  <2>2. caller = "waiting" /\ caller' = "stopping" /\ dropped' = dropped \cup {calls}
    BY <1>2 DEF CallerStops
  <2>3. dropped' \subseteq 1..MaxCalls
    BY <2>2, DroppedType
  <2>4. /\ eaQ' = Sent(eaQ, Msg("FORCED_STOP"))
        /\ UNCHANGED <<ea, armed, paused, tone, ecallQ, line, smsReq, eraRestart, up, buf,
                       calls, reports, presses, current, answered>>
    BY <1>2 DEF CallerStops
  <2>5. CallIsCounted'
    BY <2>2, <2>4 DEF CallIsCounted
  <2> QED BY <2>1, <2>2, <2>3, <2>4, <2>5, EaTypes, ResultTypes DEF CallerFrame, Typed, TypeOK
<1>3. CASE CallerStopped
  <2>1. /\ caller' = "idle" /\ buf' = InbandDeleted
        /\ UNCHANGED <<ea, armed, paused, eaQ, tone, ecallQ, line, smsReq, eraRestart, up,
                       calls, reports, presses, current, answered, dropped>>
    BY <1>3 DEF CallerStopped
  <2>2. CallIsCounted'
    BY <2>1 DEF CallIsCounted
  <2> QED BY <2>1, <2>2, InbandDeletedType, EaTypes, ResultTypes DEF CallerFrame, Typed, TypeOK
<1>4. CASE CallerTakesResult
  <2>1. /\ ecallQ # <<>> /\ ecallQ' = Tail(ecallQ) /\ caller' = "idle"
        /\ \/ caller = "waiting" /\ buf' = InbandDeleted /\ dropped' = dropped \cup {calls}
           \/ UNCHANGED <<buf, dropped>>
        /\ UNCHANGED <<ea, armed, paused, eaQ, tone, line, smsReq, eraRestart, up,
                       calls, reports, presses, current, answered>>
    BY <1>4 DEF CallerTakesResult
  <2>2. IsResults(ecallQ')
    BY <2>1, ResultTypes, HeadTailProperties, EmptySeq DEF IsResults
  <2>3. IsBuf(buf')
    BY <2>1, InbandDeletedType, EaTypes
  <2>4. dropped' \subseteq 1..MaxCalls
    BY <2>1, DroppedType DEF TypeOK
  <2>5. CallIsCounted'
    BY <2>1 DEF CallIsCounted
  <2> QED BY <2>1, <2>2, <2>3, <2>4, <2>5, EaTypes DEF CallerFrame, Typed, TypeOK
<1>5. CASE SosButton
  <2>1. /\ presses < MaxPresses /\ presses' = presses + 1
        /\ eaQ' = Sent(eaQ, Msg("SOS_PRESSED"))
        /\ UNCHANGED <<ea, armed, paused, tone, ecallQ, line, smsReq, eraRestart, up, buf,
                       caller, calls, reports, current, answered, dropped>>
    BY <1>5 DEF SosButton
  <2>2. IsMailbox(Sent(eaQ, Msg("SOS_PRESSED")))
    BY EaTypes, SentType, MessageTypes DEF Commands
  <2>3. presses' \in 0..MaxPresses
    BY <2>1, BoundsAssumption DEF TypeOK
  <2>4. CallIsCounted'
    BY <2>1 DEF CallIsCounted
  <2> QED BY <2>1, <2>2, <2>3, <2>4, EaTypes, ResultTypes DEF CallerFrame, Typed, TypeOK
<1> QED BY <1>1, <1>2, <1>3, <1>4, <1>5 DEF CallerNext

----------------------------------------------------------------------------
(* The kinds of steps the service makes.                                   *)

\* START begins a call.
Starts ==
  /\ Begins(ea', armed') /\ tone' = tone /\ answered' = answered
  /\ current' = current + 1

\* Messages, the other timers, the modem and the caller leave a call as it is or end it.
Goes ==
  /\ Ends(ea', armed') /\ tone' = tone /\ answered' = answered /\ current' = current

\* The watchdog strikes.
Alarms ==
  /\ ea'.dial_duration_expired /\ ea'.stopped = ea.stopped
  /\ "finish" \in armed' <=> "finish" \in armed
  /\ tone' = tone /\ answered' = answered /\ current' = current

\* The result of a finished call is played or sent; a tone that is over sends it.
Reports ==
  /\ ea' = ea /\ current' = current
  /\ \/ /\ "finish" \in armed /\ armed' = armed \ {"finish"}
        /\ \/ tone = "none" /\ tone' # "none" /\ answered' = answered
           \/ tone' = tone /\ answered' = answered + 1
     \/ tone # "none" /\ tone' = "none" /\ armed' = armed /\ answered' = answered + 1

\* Every step is of one of the kinds, and only for a call that runs a step dials.
StepKind ==
  /\ Starts \/ Goes \/ Alarms \/ Reports
  /\ up' => up
  /\ line' = "dialing" /\ line # "dialing" => ~ea'.stopped

\* The history is counted in natural numbers.
LEMMA HistoryTypes ==
  ASSUME TypeOK
  PROVE  /\ current \in Nat /\ answered \in Nat
         /\ calls \in 0..MaxCalls /\ reports \in 0..MaxReports /\ presses \in 0..MaxPresses
         /\ caller \in {"idle", "waiting", "stopping"} /\ dropped \subseteq 1..MaxCalls
         /\ MaxReports \in Nat
BY BoundsAssumption DEF TypeOK

\* What a step has to show for the types.
LEMMA TypesKept ==
  ASSUME Typed, IsResults(ecallQ'), calls' \in 0..MaxCalls, reports' \in 0..MaxReports,
         presses' \in 0..MaxPresses, caller' \in {"idle", "waiting", "stopping"},
         current' \in Nat, answered' \in Nat,
         dropped' \subseteq 1..MaxCalls
  PROVE  TypeOK'
BY DEF Typed, IsResults, IsMailbox, IsBuf, TypeOK, EaTypeOK

\* A message that is processed.
LEMMA TaskStepKind ==
  ASSUME TypeOK, CallIsCounted, TaskStep
  PROVE  TypeOK' /\ CallIsCounted' /\ StepKind
<1>1. CASE /\ StartCall /\ current' = current + 1
           /\ UNCHANGED <<callerVars, reports, answered, dropped>>
  <2>1. Typed /\ Begins(ea', armed') /\ UNCHANGED <<tone, ecallQ>>
    BY <1>1, StartCallBegins
  <2>2. current' \in Nat /\ IsResults(ecallQ')
    BY <1>1, <2>1, HistoryTypes, ResultTypes
  <2>3. TypeOK'
    BY <1>1, <2>1, <2>2, HistoryTypes, TypesKept DEF callerVars
  <2>4. StepKind
    BY <1>1, <2>1 DEF StepKind, Starts, Begins, Typed
  <2> QED BY <1>1, <2>3, <2>4 DEF CallIsCounted, callerVars
<1>2. CASE /\ MakeCallAgain
           /\ UNCHANGED <<callerVars, reports, current, answered, dropped>>
  <2>1. /\ Typed /\ Stays(ea', armed') /\ UNCHANGED <<tone, ecallQ>>
        /\ line' = "dialing" => ~ea'.stopped
    BY <1>2, MakeCallAgainHandles
  <2>2. IsResults(ecallQ')
    BY <2>1, ResultTypes
  <2>3. TypeOK'
    BY <1>2, <2>1, <2>2, HistoryTypes, TypesKept DEF callerVars
  <2>4. StepKind
    BY <1>2, <2>1 DEF StepKind, Goes, Ends, Typed
  <2> QED BY <1>2, <2>3, <2>4 DEF CallIsCounted, callerVars
<1>3. CASE /\ CallFailedMsg \/ UrcBusy \/ EvUnknown \/ Disconnected \/ CauseRead
              \/ UrcRing \/ UrcConnected \/ EvStart \/ EvAck \/ EvTimeout \/ EvVoice
              \/ UrcIgnored \/ SosPressed \/ DialDurMsg \/ CcftMsg \/ ForcedStop
           /\ UNCHANGED <<callerVars, reports, current, answered, dropped>>
  <2>1. Handles
    BY <1>3, MessageHandles
  <2>2. IsResults(ecallQ')
    BY <2>1, ResultTypes DEF Handles
  <2>3. TypeOK'
    BY <1>3, <2>1, <2>2, HistoryTypes, TypesKept DEF callerVars, Handles
  <2>4. StepKind
    BY <1>3, <2>1 DEF StepKind, Goes, Handles, Typed
  <2> QED BY <1>3, <2>3, <2>4 DEF CallIsCounted, callerVars
<1> QED BY <1>1, <1>2, <1>3 DEF TaskStep

\* A timer that expires, a tone that ends.
LEMMA TimerStepKind ==
  ASSUME TypeOK, CallIsCounted, TimerStep
  PROVE  TypeOK' /\ CallIsCounted' /\ StepKind
<1>1. /\ TimersNext /\ answered' = answered + (Len(ecallQ') - Len(ecallQ))
      /\ UNCHANGED <<callerVars, reports, current, dropped>>
  BY DEF TimerStep
<1>2. answered \in Nat /\ Len(ecallQ) \in Nat
  BY HistoryTypes, ResultTypes, LenProperties DEF IsResults
<1>3. CallIsCounted'
  BY <1>1 DEF CallIsCounted, callerVars
<1>4. ASSUME Typed, IsResults(ecallQ'), answered' \in Nat PROVE TypeOK'
  BY <1>1, <1>4, HistoryTypes, TypesKept DEF callerVars
<1>5. ASSUME ecallQ' = ecallQ PROVE answered' = answered /\ IsResults(ecallQ')
  BY <1>1, <1>2, <1>5, ResultTypes
<1>6. ASSUME Len(ecallQ') = Len(ecallQ) + 1 PROVE answered' = answered + 1 /\ answered' \in Nat
  BY <1>1, <1>2, <1>6
<1>7. CASE DialDurExpires
  <2>1. /\ Typed /\ ea'.dial_duration_expired /\ ea'.stopped = ea.stopped
        /\ "finish" \in armed' <=> "finish" \in armed
        /\ tone' = tone /\ ecallQ' = ecallQ /\ line' = line
    BY <1>7, DialDurExpiresSets
  <2>2. StepKind
    BY <1>1, <1>5, <2>1 DEF StepKind, Alarms, Typed
  <2> QED BY <1>2, <1>3, <1>4, <1>5, <2>1, <2>2
<1>8. CASE FinishExpires
  <2>1. /\ Typed /\ "finish" \in armed /\ armed' = armed \ {"finish"}
        /\ UNCHANGED <<ea, line>> /\ IsResults(ecallQ')
        /\ \/ tone = "none" /\ tone' # "none" /\ ecallQ' = ecallQ
           \/ tone' = tone /\ Len(ecallQ') = Len(ecallQ) + 1
    BY <1>8, FinishExpiresSends
  <2>2. answered' \in Nat
    BY <1>2, <1>5, <1>6, <2>1
  <2>3. StepKind
    BY <1>1, <1>5, <1>6, <2>1 DEF StepKind, Reports, Typed
  <2> QED BY <1>3, <1>4, <2>1, <2>2, <2>3
<1>9. CASE ToneEnds
  <2>1. /\ Typed /\ tone # "none" /\ tone' = "none"
        /\ UNCHANGED <<ea, armed, line>> /\ IsResults(ecallQ')
        /\ Len(ecallQ') = Len(ecallQ) + 1
    BY <1>9, ToneEndsSends
  <2>2. StepKind
    BY <1>1, <1>6, <2>1 DEF StepKind, Reports, Typed
  <2> QED BY <1>3, <1>4, <1>6, <2>1, <2>2
<1>10. ASSUME NEW t \in DOMAIN TimerMessage, TimerExpires(t)
       PROVE  TypeOK' /\ CallIsCounted' /\ StepKind
  <2>1. Typed /\ Stays(ea', armed') /\ tone' = tone /\ ecallQ' = ecallQ /\ line' = line
    BY <1>10, TimerExpiresStays
  <2>2. StepKind
    BY <1>1, <1>5, <2>1 DEF StepKind, Goes, Ends, Typed
  <2> QED BY <1>2, <1>3, <1>4, <1>5, <2>1, <2>2
<1> QED BY <1>1, <1>7, <1>8, <1>9, <1>10 DEF TimersNext

\* A report of the modem.
LEMMA ModemStepKind ==
  ASSUME TypeOK, CallIsCounted, ModemStep
  PROVE  TypeOK' /\ CallIsCounted' /\ StepKind
<1>1. /\ reports < MaxReports /\ ModemNext /\ reports' = reports + 1
      /\ UNCHANGED <<callerVars, current, answered, dropped>>
  BY DEF ModemStep
<1>2. /\ Typed /\ UNCHANGED <<ea, armed, tone, ecallQ>>
      /\ line' = "dialing" => line = "dialing"
  BY <1>1, ModemStays
<1>3. reports' \in 0..MaxReports
  BY <1>1, HistoryTypes
<1>4. TypeOK'
  BY <1>1, <1>2, <1>3, HistoryTypes, ResultTypes, TypesKept DEF callerVars
<1>5. StepKind
  BY <1>1, <1>2 DEF StepKind, Goes, Ends, Stays, Typed
<1> QED BY <1>1, <1>4, <1>5 DEF CallIsCounted, callerVars

\* A step of the caller.
LEMMA CallerStepKind ==
  ASSUME TypeOK, CallIsCounted, CallerNext
  PROVE  TypeOK' /\ CallIsCounted' /\ StepKind
<1>1. CallerFrame
  BY CallerFrames
<1>2. TypeOK'
  BY <1>1, HistoryTypes, TypesKept DEF CallerFrame
<1>3. StepKind
  BY <1>1 DEF CallerFrame, StepKind, Goes, Ends, Stays
<1> QED BY <1>1, <1>2, <1>3 DEF CallerFrame

\* Every step, a stutter included, keeps the types and is of one of the kinds.
LEMMA StepKinds ==
  ASSUME TypeOK, CallIsCounted, [Next]_vars
  PROVE  TypeOK' /\ CallIsCounted' /\ StepKind
<1>1. CASE UNCHANGED vars
  <2>1. UNCHANGED <<ea, armed, paused, eaQ, tone, ecallQ, line, smsReq, eraRestart, up, buf,
                    caller, calls, reports, presses, current, answered, dropped>>
    BY <1>1 DEF vars, eaVars
  <2>2. StepKind
    BY <2>1 DEF StepKind, Goes, Ends, Stays
  <2> QED BY <2>1, <2>2 DEF TypeOK, EaTypeOK, CallIsCounted
<1> QED BY <1>1, TaskStepKind, TimerStepKind, ModemStepKind, CallerStepKind DEF Next

----------------------------------------------------------------------------
(* The invariants.                                                         *)

\* The inductive invariant.
IInv == TypeOK /\ CallIsCounted /\ WatchdogArmed /\ OneResultPerStart

\* At boot no call runs, none is owed a result.
LEMMA InitIInv == Init => IInv
<1> SUFFICES ASSUME Init PROVE IInv
  OBVIOUS
<1>1. /\ MaxCalls \in Nat /\ MaxReports \in Nat /\ MaxPresses \in Nat
      /\ MailboxSize \in Nat /\ MaxRestartNumber \in Nat /\ MAX_NUMBER_MSD \in Nat
  BY BoundsAssumption, SizeAssumption, MaxNumberAssumption
<1>2. /\ ea.stopped = TRUE /\ ea.event = "MANUAL_SOS" /\ ea.SOS_pressed_numb = 0
      /\ ea.call_attempts = 0 /\ ea.result_action = "SUCCESS"
  BY DEF Init, EaInit
<1>3. ea \in EaStates
  <2>1. 0 \in Nat /\ 0 \in 0..3 /\ "MANUAL_SOS" \in Events /\ "SUCCESS" \in Results
    BY DEF Events, Results
  <2> QED BY <2>1 DEF Init, EaInit, EaStates
<1>4. EaTypeOK
  <2>1. /\ armed = {} /\ paused = FALSE /\ eaQ = <<>> /\ tone = "none" /\ ecallQ = <<>>
        /\ line = "idle" /\ smsReq = "none" /\ eraRestart = 0 /\ up = TRUE
    BY DEF Init, EaInit
  <2>2. 0 \in 0..MaxRestartNumber /\ Len(<<>>) <= MailboxSize
    BY <1>1
  <2>3. <<>> \in Seq(Messages) /\ <<>> \in Seq({ResultMsg(r) : r \in Results})
    OBVIOUS
  <2>4. eaQ \in Seq(Messages) /\ Len(eaQ) <= MailboxSize
    BY <2>1, <2>2, <2>3
  <2>5. ecallQ \in Seq({ResultMsg(r) : r \in Results})
    BY <2>1, <2>3
  <2>6. /\ armed \subseteq Timers /\ paused \in BOOLEAN /\ tone \in Results \cup {"none"}
        /\ line \in Lines /\ smsReq \in {"none", "send", "stop"}
        /\ eraRestart \in 0..MaxRestartNumber /\ up \in BOOLEAN
    BY <2>1, <2>2 DEF Lines
  <2> QED BY <1>3, <2>4, <2>5, <2>6 DEF EaTypeOK
<1>5. TypeOK
  <2>1. /\ buf = <<>> /\ caller = "idle" /\ calls = 0 /\ reports = 0 /\ presses = 0
        /\ current = 0 /\ answered = 0 /\ dropped = {}
    BY DEF Init
  <2>2. 0 \in 0..MaxCalls /\ 0 \in 0..MaxReports /\ 0 \in 0..MaxPresses
    BY <1>1
  <2>3. <<>> \in Seq(Records(1..MaxCalls)) /\ Len(<<>>) <= MAX_NUMBER_MSD
    BY <1>1
  <2> QED BY <1>4, <2>1, <2>2, <2>3 DEF TypeOK
<1>6. CallIsCounted /\ WatchdogArmed
  BY <1>2 DEF Init, CallIsCounted, WatchdogArmed
<1>7. OneResultPerStart
  <2>1. Owed = 0 /\ answered = 0 /\ current = 0
    BY <1>2 DEF Init, EaInit, Owed
  <2> QED BY <2>1 DEF OneResultPerStart
<1> QED BY <1>5, <1>6, <1>7 DEF IInv

\* The watchdog is only disarmed by striking or by the end of the call, and every
\* START arms it.
LEMMA WatchdogKept ==
  ASSUME TypeOK, WatchdogArmed, StepKind
  PROVE  WatchdogArmed'
<1>1. CASE Starts
  BY <1>1 DEF Starts, Begins, WatchdogArmed
<1>2. CASE Goes
  BY <1>2 DEF Goes, Ends, Stays, WatchdogArmed, StepKind
<1>3. CASE Alarms
  BY <1>3 DEF Alarms, WatchdogArmed
<1>4. CASE Reports
  BY <1>4 DEF Reports, WatchdogArmed, StepKind
<1> QED BY <1>1, <1>2, <1>3, <1>4 DEF StepKind

\* A debt is a number of results: START makes one, finish() hands it to finish_t,
\* finish_t to the player or to ECALL, the player to ECALL.
LEMMA OwedKept ==
  ASSUME TypeOK, OneResultPerStart, StepKind
  PROVE  OneResultPerStart'
<1> DEFINE s == IF ea.stopped THEN 0 ELSE 1
           f == IF "finish" \in armed THEN 1 ELSE 0
           t == IF tone = "none" THEN 0 ELSE 1
           s1 == IF ea'.stopped THEN 0 ELSE 1
           f1 == IF "finish" \in armed' THEN 1 ELSE 0
           t1 == IF tone' = "none" THEN 0 ELSE 1
<1>1. answered \in Nat /\ current \in Nat
  BY HistoryTypes
<1>2. {s, f, t, s1, f1, t1} \subseteq 0..1
  OBVIOUS
<1>3. Owed = s + f + t /\ Owed' = s1 + f1 + t1
  BY DEF Owed
<1>4. answered + (s + f + t) <= current
  BY <1>3 DEF OneResultPerStart
<1>5. SUFFICES answered' + (s1 + f1 + t1) <= current'
  BY <1>3 DEF OneResultPerStart
<1>6. CASE Starts
  <2>1. s1 = 1 /\ f1 = 0 /\ t1 = t /\ answered' = answered /\ current' = current + 1
    BY <1>6 DEF Starts, Begins
  <2> HIDE DEF s, f, t, s1, f1, t1
  <2> QED BY <1>1, <1>2, <1>4, <2>1
<1>7. CASE Goes
  <2>1. t1 = t /\ answered' = answered /\ current' = current
    BY <1>7 DEF Goes
  <2>2. (s = 1 /\ s1 = 0) \/ (s1 = s /\ (f1 = f \/ f1 = 0))
    BY <1>7 DEF Goes, Ends, Stays
  <2> HIDE DEF s, f, t, s1, f1, t1
  <2> QED BY <1>1, <1>2, <1>4, <2>1, <2>2
<1>8. CASE Alarms
  <2>1. s1 = s /\ f1 = f /\ t1 = t /\ answered' = answered /\ current' = current
    BY <1>8 DEF Alarms
  <2> HIDE DEF s, f, t, s1, f1, t1
  <2> QED BY <1>1, <1>2, <1>4, <2>1
<1>9. CASE Reports
  <2>1. /\ s1 = s /\ current' = current
        /\ \/ f = 1 /\ f1 = 0 /\ t = 0 /\ t1 = 1 /\ answered' = answered
           \/ f = 1 /\ f1 = 0 /\ t1 = t /\ answered' = answered + 1
           \/ f1 = f /\ t = 1 /\ t1 = 0 /\ answered' = answered + 1
    BY <1>9 DEF Reports
  <2> HIDE DEF s, f, t, s1, f1, t1
  <2> QED BY <1>1, <1>2, <1>4, <2>1
<1> QED BY <1>6, <1>7, <1>8, <1>9 DEF StepKind

\* The conjuncts of the invariant follow from the kind of the step.
LEMMA NextIInv == IInv /\ [Next]_vars => IInv'
BY StepKinds, WatchdogKept, OwedKept DEF IInv

\* The inductive invariant holds of every behaviour of the dialling service.
LEMMA AlwaysIInv == Spec => []IInv
BY InitIInv, NextIInv, PTL DEF Spec

\* The variables of era_action.c, its mailbox (never longer than MBOX_S), its timers and
\* the MSD storage keep their types, whatever the modem reports and whenever the timers
\* expire.
THEOREM DialTypeCorrect == Spec => []TypeOK
<1>1. IInv => TypeOK
  BY DEF IInv
<1> QED BY <1>1, AlwaysIInv, PTL

\* A call that runs is always under the dial-duration watchdog, whatever stale messages
\* of earlier calls are processed, for any number of calls and attempts and any size of
\* the mailbox (era_action.c:71-98, 194-201).
THEOREM AlwaysUnderWatchdog == Spec => []WatchdogArmed
<1>1. IInv => WatchdogArmed
  BY DEF IInv
<1> QED BY <1>1, AlwaysIInv, PTL

\* However many timers, URCs, presses and commands end a call at once, the service sends
\* and owes together at most one result for each START (era_action.c:405-452).
THEOREM NeverAnsweredTwice == Spec => []OneResultPerStart
<1>1. IInv => OneResultPerStart
  BY DEF IInv
<1> QED BY <1>1, AlwaysIInv, PTL

\* No step dials for a call that is over: what a finished call has left in the mailbox
\* or in the timers may hang up, but places no call (era_action.c:142-155).
THEOREM NeverDialsWhenStopped == Spec => NoDialWhenStopped
<1>1. IInv /\ [Next]_vars => [line' = "dialing" /\ line # "dialing" => ~ea'.stopped]_vars
  BY StepKinds DEF IInv, StepKind
<1> QED BY <1>1, AlwaysIInv, PTL DEF Spec, NoDialWhenStopped


----------------------------------------------------------------------------
(* The undelivered MSD, while no call has been cancelled or stopped by      *)
(* force.  First the commands in the mailbox.                               *)

\* The commands of the caller that wait in a mailbox.
Asked(q) == {q[i] : i \in {j \in 1..Len(q) : IsCommand(q[j])}}
OnlyOne(q) == \A i, j \in 1..Len(q) : IsCommand(q[i]) /\ IsCommand(q[j]) => i = j

\* Nothing changes about the commands.
SameAsked(q, r) == Asked(r) = Asked(q) /\ (OnlyOne(q) => OnlyOne(r))

\* A message is taken.
LEMMA AskedOfTail ==
  ASSUME NEW q \in Seq(Messages), q # <<>>
  PROVE  /\ ~IsCommand(Head(q)) => SameAsked(q, Tail(q))
         /\ IsCommand(Head(q)) /\ OnlyOne(q) =>
              Asked(q) = {Head(q)} /\ Asked(Tail(q)) = {} /\ OnlyOne(Tail(q))
<1> DEFINE r == Tail(q)
           n == Len(q)
<1>1. /\ n \in Nat /\ n > 0 /\ Len(r) = n - 1
      /\ \A i \in 1..Len(r) : i + 1 \in 1..n /\ r[i] = q[i + 1]
      /\ Head(q) = q[1] /\ 1 \in 1..n
  BY HeadTailProperties, EmptySeq, LenProperties
<1>2. \A j \in 1..n : j = 1 \/ (j - 1 \in 1..Len(r) /\ r[j - 1] = q[j])
  <2> TAKE j \in 1..n
  <2>1. j # 1 => j - 1 \in 1..(n - 1) /\ (j - 1) + 1 = j
    BY <1>1
  <2> QED BY <1>1, <2>1
<1> HIDE DEF r, n
<1>3. Asked(r) \subseteq Asked(q) /\ Asked(q) \subseteq Asked(r) \cup {q[1]}
  BY <1>1, <1>2 DEF Asked, n
<1>4. OnlyOne(q) => OnlyOne(r)
  <2> SUFFICES ASSUME OnlyOne(q), NEW i \in 1..Len(r), NEW j \in 1..Len(r),
                      IsCommand(r[i]), IsCommand(r[j])
               PROVE  i = j
    BY DEF OnlyOne
  <2>1. i + 1 = j + 1
    BY <1>1 DEF OnlyOne, n
  <2> QED BY <2>1
<1>5. ASSUME ~IsCommand(q[1]) PROVE Asked(q) \subseteq Asked(r)
  BY <1>1, <1>2, <1>5 DEF Asked, n
<1>6. ASSUME IsCommand(q[1]), OnlyOne(q) PROVE Asked(q) = {q[1]} /\ Asked(r) = {}
  <2>1. \A j \in 1..n : IsCommand(q[j]) => j = 1
    BY <1>1, <1>6 DEF OnlyOne, n
  <2>2. \A i \in 1..Len(r) : ~IsCommand(r[i])
    <3> TAKE i \in 1..Len(r)
    <3>1. i + 1 \in 1..n /\ r[i] = q[i + 1] /\ i + 1 # 1
      BY <1>1
    <3> QED BY <2>1, <3>1
  <2> QED BY <1>1, <1>6, <2>1, <2>2 DEF Asked, n
<1> QED BY <1>1, <1>3, <1>4, <1>5, <1>6 DEF SameAsked, r

\* Messages are added, none of them a command.
LEMMA AskedOfConcat ==
  ASSUME NEW q \in Seq(Messages), NEW us \in Seq(Messages),
         \A k \in 1..Len(us) : ~IsCommand(us[k])
  PROVE  SameAsked(q, q \o us)
<1> DEFINE r == q \o us
           n == Len(q)
           m == Len(us)
<1>1. /\ n \in Nat /\ m \in Nat /\ Len(r) = n + m
      /\ \A i \in 1..(n + m) : r[i] = IF i <= n THEN q[i] ELSE us[i - n]
  BY LenProperties, ConcatProperties
<1>2. \A i \in 1..Len(r) : IsCommand(r[i]) => i \in 1..n /\ r[i] = q[i]
  <2> SUFFICES ASSUME NEW i \in 1..Len(r), IsCommand(r[i]), ~(i <= n) PROVE FALSE
    BY <1>1
  <2>1. i - n \in 1..m /\ r[i] = us[i - n]
    BY <1>1
  <2> QED BY <2>1
<1>3. \A i \in 1..n : i \in 1..Len(r) /\ r[i] = q[i]
  BY <1>1
<1> HIDE DEF r, n, m
<1> QED BY <1>2, <1>3 DEF SameAsked, Asked, OnlyOne, r, n

\* azx_tasks_sendMessageToTask: a command or another message is sent.
LEMMA AskedOfSent ==
  ASSUME NEW q, IsMailbox(q), NEW m \in Messages
  PROVE  /\ ~IsCommand(m) => SameAsked(q, Sent(q, m))
         /\ IsCommand(m) /\ Len(q) < MailboxSize /\ Asked(q) = {} =>
              Asked(Sent(q, m)) = {m} /\ OnlyOne(Sent(q, m))
<1> DEFINE r == Append(q, m)
           n == Len(q)
<1>1. /\ n \in Nat /\ Len(r) = n + 1 /\ r[n + 1] = m /\ n + 1 \in 1..Len(r)
      /\ \A i \in 1..n : i \in 1..Len(r) /\ r[i] = q[i]
      /\ \A i \in 1..Len(r) : i \in 1..n \/ i = n + 1
  <2>1. n \in Nat /\ Len(r) = n + 1 /\ r[n + 1] = m /\ \A i \in 1..n : r[i] = q[i]
    BY AppendProperties, LenProperties DEF IsMailbox
  <2> HIDE DEF r, n
  <2> QED BY <2>1
<1> HIDE DEF r, n
<1>2. ASSUME ~IsCommand(m) PROVE SameAsked(q, r)
  BY <1>1, <1>2 DEF SameAsked, Asked, OnlyOne, n
<1>3. ASSUME IsCommand(m), Asked(q) = {} PROVE Asked(r) = {m} /\ OnlyOne(r)
  <2>1. \A i \in 1..n : ~IsCommand(q[i])
    BY <1>3 DEF Asked, n
  <2>2. \A i \in 1..Len(r) : IsCommand(r[i]) => i = n + 1
    BY <1>1, <2>1
  <2> QED BY <1>1, <1>3, <2>2 DEF Asked, OnlyOne
<1>4. Sent(q, m) \in {q, r} /\ (Len(q) < MailboxSize => Sent(q, m) = r)
  BY DEF Sent, r
<1>5. SameAsked(q, q)
  BY DEF SameAsked
<1> QED BY <1>2, <1>3, <1>4, <1>5

\* What is no command.
LEMMA NoCommands ==
  /\ \A u \in (Urcs \cup EcallEvs \cup Commands) \ {"FORCED_STOP"} :
       ~IsCommand(Msg(u)) /\ Msg(u) \in Messages
  /\ \A e \in Events : IsCommand(Start(e)) /\ Start(e) \in Messages
<1>1. "START" \notin Urcs \cup EcallEvs \cup Commands
  BY DEF Urcs, EcallEvs, Commands
<1> QED BY <1>1, MessageTypes DEF IsCommand, Msg, Start

\* A handler takes a message that is no command, and may send one that is none.
LEMMA AskedOfRest ==
  ASSUME IsMailbox(eaQ), NEW ev, Take(ev), ev \notin {"START", "FORCED_STOP"}
  PROVE  IsMailbox(Rest) /\ SameAsked(eaQ, Rest)
<1>1. eaQ # <<>> /\ Head(eaQ).ev = ev
  BY DEF Take
<1>2. ~IsCommand(Head(eaQ))
  BY <1>1 DEF IsCommand
<1> QED BY <1>1, <1>2, AskedOfTail, RestType DEF IsMailbox, Rest

LEMMA SameAskedTwice ==
  ASSUME NEW q, NEW r, NEW s, SameAsked(q, r), SameAsked(r, s)
  PROVE  SameAsked(q, s)
BY DEF SameAsked

----------------------------------------------------------------------------
(* The in-band MSD in the storage.                                         *)

NoInband(b) == \A i \in 1..Len(b) : b[i].flag # "INBAND"
InbandIsLast(b) == \A i \in 1..Len(b) : b[i].flag = "INBAND" => i = Len(b)

\* The newest MSD is that of the last call and has one of the flags.
Newest(b, flags) == Len(b) > 0 /\ b[Len(b)].id = calls /\ b[Len(b)].flag \in flags

\* move_inband_to_sms leaves none in-band, the newest MSD with its number.
LEMMA InbandMoved ==
  ASSUME NEW b, IsBuf(b), InbandIsLast(b)
  PROVE  /\ NoInband(MoveBuf(b, "INBAND", "SMS"))
         /\ Newest(b, {"INBAND", "SMS"}) => Newest(MoveBuf(b, "INBAND", "SMS"), {"SMS"})
<1> DEFINE c == MoveBuf(b, "INBAND", "SMS")
           k == FindNumb(b, "INBAND")
<1>1. /\ Len(b) \in Nat /\ b \in Seq(Records(1..MaxCalls))
      /\ Len(c) = Len(b) /\ \A i \in 1..Len(b) : c[i].id = b[i].id
      /\ c \in Seq(Records(1..MaxCalls))
  BY LenProperties, MoveBufProperties DEF IsBuf, Flags
<1>2. CASE k = NoMsd
  <2>1. c = b
    BY <1>2 DEF MoveBuf
  <2>2. NoInband(b)
    <3>1. k \notin 0..(Len(b) - 1)
      BY <1>1, <1>2 DEF NoMsd
    <3> QED BY <1>1, <3>1, FindNumbProperties DEF NoInband
  <2>3. Newest(b, {"INBAND", "SMS"}) => Newest(b, {"SMS"})
    <3> SUFFICES ASSUME Newest(b, {"INBAND", "SMS"}) PROVE b[Len(b)].flag = "SMS"
      BY DEF Newest
    <3>1. Len(b) \in 1..Len(b)
      BY <1>1 DEF Newest
    <3> QED BY <2>2, <3>1 DEF NoInband, Newest
  <2> HIDE DEF c, k
  <2> QED BY <2>1, <2>2, <2>3 DEF c
<1>3. CASE k # NoMsd
  <2>1. k \in 0..(Len(b) - 1) /\ b[k + 1].flag = "INBAND"
    BY <1>1, <1>3, FindNumbProperties
  <2>2. k + 1 = Len(b) /\ k + 1 \in 1..Len(b)
    <3>1. k + 1 \in 1..Len(b)
      BY <1>1, <2>1
    <3> QED BY <2>1, <3>1 DEF InbandIsLast
  <2>3. c = [b EXCEPT ![k + 1] = [@ EXCEPT !.flag = "SMS"]]
    BY <1>3 DEF MoveBuf
  <2>4. b[k + 1] \in Records(1..MaxCalls)
    BY <1>1, <2>2, ElementOfSeq
  <2>5. /\ c[k + 1].flag = "SMS"
        /\ \A i \in 1..Len(b) : i # k + 1 => c[i] = b[i]
    <3> HIDE DEF k, c
    <3> QED BY <1>1, <2>2, <2>3, <2>4 DEF Records
  <2> HIDE DEF c, k
  <2>6. NoInband(c)
    <3> SUFFICES ASSUME NEW i \in 1..Len(c) PROVE c[i].flag # "INBAND"
      BY DEF NoInband
    <3>1. CASE i = k + 1
      BY <2>5, <3>1
    <3>2. CASE i # k + 1
      BY <1>1, <2>2, <2>5, <3>2 DEF InbandIsLast
    <3> QED BY <3>1, <3>2
  <2>7. Newest(b, {"INBAND", "SMS"}) => Newest(c, {"SMS"})
    <3>1. Len(c) = k + 1 /\ Len(b) = k + 1 /\ c[k + 1].id = b[k + 1].id
      BY <1>1, <2>2
    <3> QED BY <2>5, <3>1 DEF Newest
  <2> QED BY <2>6, <2>7 DEF c
<1> QED BY <1>2, <1>3

\* delete_MSD of the in-band one leaves none.
LEMMA InbandRemoved ==
  ASSUME NEW b, IsBuf(b), InbandIsLast(b)
  PROVE  NoInband(DeleteBuf(b, FindNumb(b, "INBAND")))
<1> DEFINE k == FindNumb(b, "INBAND")
           d == DeleteBuf(b, k)
<1>1. Len(b) \in Nat /\ b \in Seq(Records(1..MaxCalls))
  BY LenProperties DEF IsBuf
<1>2. CASE k = NoMsd
  <2>1. k \notin 0..(Len(b) - 1) /\ k \in Int
    BY <1>1, <1>2 DEF NoMsd
  <2>2. d = b
    BY <1>1, <2>1, DeleteBufProperties DEF CanDelete
  <2> QED BY <1>1, <2>1, <2>2, FindNumbProperties DEF NoInband
<1>3. CASE k # NoMsd
  <2>1. k \in 0..(Len(b) - 1) /\ b[k + 1].flag = "INBAND"
    BY <1>1, <1>3, FindNumbProperties
  <2>2. k + 1 = Len(b) /\ k \in Int
    <3>1. k + 1 \in 1..Len(b)
      BY <1>1, <2>1
    <3> QED BY <2>1, <3>1 DEF InbandIsLast
  <2>3. /\ Len(d) = Len(b) - 1
        /\ \A i \in 1..(Len(b) - 1) : d[i] = IF i <= k THEN b[i] ELSE b[i + 1]
    BY <1>1, <2>1, <2>2, DeleteBufProperties DEF CanDelete
  <2> HIDE DEF d, k
  <2>4. \A i \in 1..(Len(b) - 1) : d[i] = b[i] /\ i \in 1..Len(b) /\ i # Len(b)
    BY <1>1, <2>2, <2>3
  <2> QED BY <2>3, <2>4 DEF NoInband, InbandIsLast, d, k
<1> QED BY <1>2, <1>3

\* save_MSD of a new in-band MSD: it is the last; the one before it stays, if the storage
\* has room for two.
LEMMA InbandSaved ==
  ASSUME NEW b, IsBuf(b), NoInband(b), NEW m \in Records(1..MaxCalls), m.flag = "INBAND",
         MAX_NUMBER_MSD >= 2
  PROVE  /\ InbandIsLast(SaveBuf(b, m)) /\ Len(SaveBuf(b, m)) > 0
         /\ SaveBuf(b, m)[Len(SaveBuf(b, m))] = m
         /\ Len(b) > 0 => \E i \in 1..Len(SaveBuf(b, m)) : SaveBuf(b, m)[i] = b[Len(b)]
<1> DEFINE s == SaveBuf(b, m)
           d == Dropped(b)
<1>1. Len(b) \in Nat /\ b \in Seq(Records(1..MaxCalls)) /\ Len(b) <= MAX_NUMBER_MSD
      /\ MAX_NUMBER_MSD \in Nat
  BY LenProperties, MaxNumberAssumption DEF IsBuf
<1>2. /\ Len(s) = Len(b) + 1 - d
      /\ \A i \in 1..(Len(s) - 1) : s[i] = b[i + d]
      /\ s[Len(s)] = m /\ s \in Seq(Records(1..MaxCalls))
  BY <1>1, SaveBufProperties
<1>3. d \in {0, 1} /\ (d = 1 => Len(b) >= 2) /\ Len(s) \in Nat
  BY <1>1, <1>2, LenProperties DEF Dropped
<1> HIDE DEF s, d
<1>4. Len(s) > 0
  BY <1>1, <1>2, <1>3
<1>5. \A i \in 1..(Len(s) - 1) : s[i].flag # "INBAND"
  <2> TAKE i \in 1..(Len(s) - 1)
  <2>1. i + d \in 1..Len(b)
    BY <1>1, <1>2, <1>3
  <2> QED BY <1>2, <2>1 DEF NoInband
<1>6. ASSUME Len(b) > 0 PROVE \E i \in 1..Len(s) : s[i] = b[Len(b)]
  <2>1. Len(s) - 1 \in 1..(Len(s) - 1) /\ Len(s) - 1 \in 1..Len(s) /\ (Len(s) - 1) + d = Len(b)
    BY <1>1, <1>2, <1>3, <1>6
  <2>2. s[Len(s) - 1] = b[Len(b)]
    BY <1>2, <2>1
  <2> QED BY <2>1, <2>2
<1>7. InbandIsLast(s)
  <2> SUFFICES ASSUME NEW i \in 1..Len(s), s[i].flag = "INBAND" PROVE i = Len(s)
    BY DEF InbandIsLast
  <2> QED BY <1>3, <1>5
<1> QED BY <1>2, <1>4, <1>6, <1>7 DEF s

----------------------------------------------------------------------------
(* What the steps do to the MSD.                                           *)

\* What of the call concerns its MSD.
Like(e) ==
  /\ e \in EaStates
  /\ e.event = ea.event /\ e.stopped = ea.stopped /\ e.result_action = ea.result_action
  /\ e.urc_listening = ea.urc_listening

\* The call goes on or goes on being over; only a URC decodes the MSD or sends it to SMS.
GoesOn ==
  /\ SameAsked(eaQ, eaQ') /\ Like(ea')
  /\ ea.msd_decoded => ea'.msd_decoded
  /\ buf' \in {buf, MoveBuf(buf, "INBAND", "SMS")}
  /\ ~ea.urc_listening => ea'.msd_decoded = ea.msd_decoded /\ buf' = buf

\* The call ends, with any result but that of a forced stop.
GetsOver ==
  /\ SameAsked(eaQ, eaQ') /\ ea'.event = ea.event /\ ea'.msd_decoded = ea.msd_decoded
  /\ ~ea.stopped /\ ea'.stopped /\ ~ea'.urc_listening
  /\ buf' = IF ea.event = "TEST" THEN buf
            ELSE IF ea.msd_decoded THEN DeleteBuf(buf, FindNumb(buf, "INBAND"))
            ELSE IF ea'.result_action = "MANUAL_CANCEL" THEN buf
            ELSE MoveBuf(buf, "INBAND", "SMS")

MsdStep == (GoesOn \/ GetsOver) /\ UNCHANGED <<tone, ecallQ>>

\* finish() reached with a state that differs in nothing that concerns the MSD.
LEMMA FinishMsd ==
  ASSUME TypeOK, NEW e, Like(e), e.msd_decoded = ea.msd_decoded, NEW a, NEW q, NEW ln,
         SameAsked(eaQ, q), NEW result \in Results \ {"FORCED_STOP"},
         Finish(e, a, q, ln, result)
  PROVE  MsdStep
<1>1. eaQ' = q /\ UNCHANGED <<tone, ecallQ>>
  BY DEF Finish
<1>2. CASE e.stopped
  <2>1. ea' = e /\ buf' = buf
    BY <1>2 DEF Finish
  <2> QED BY <1>1, <2>1 DEF MsdStep, GoesOn, Like
<1>3. CASE ~e.stopped
  <2>1. ea' = FinishedState(e, result) /\ buf' = FinishedBuf(e, result)
    BY <1>3 DEF Finish
  <2>2. /\ ea'.event = e.event /\ ea'.msd_decoded = e.msd_decoded /\ ea'.stopped
        /\ ~ea'.urc_listening /\ ea'.result_action = result
    BY <2>1 DEF FinishedState, Like, EaStates
  <2>3. GetsOver
    BY <1>1, <1>3, <2>1, <2>2 DEF GetsOver, FinishedBuf, Like
  <2> QED BY <1>1, <2>3 DEF MsdStep
<1> QED BY <1>2, <1>3

\* A step that leaves the call and the storage alone.
LEMMA CallUntouched ==
  ASSUME TypeOK, UNCHANGED <<ea, buf, tone, ecallQ>>, SameAsked(eaQ, eaQ')
  PROVE  MsdStep
BY EaTypes DEF MsdStep, GoesOn, Like

\* A state that differs in the named fields only.
LEMMA LikeIt ==
  ASSUME TypeOK
  PROVE  /\ Like(ea)
         /\ \A e : Like(e) => Like([e EXCEPT !.finished = TRUE])
                              /\ [e EXCEPT !.finished = TRUE].msd_decoded = e.msd_decoded
<1>1. Like(ea)
  BY EaTypes DEF Like
<1>2. ASSUME NEW e, Like(e)
      PROVE  Like([e EXCEPT !.finished = TRUE])
             /\ [e EXCEPT !.finished = TRUE].msd_decoded = e.msd_decoded
  BY <1>2 DEF Like, EaStates
<1> QED BY <1>1, <1>2

\* call_failed.
LEMMA CallFailedMsd ==
  ASSUME TypeOK, NEW q, SameAsked(eaQ, q), CallFailed(ea, q)
  PROVE  MsdStep
<1> DEFINE e == [ea EXCEPT !.call_attempts = @ + 1]
           a == armed \ {"conn_wait"}
<1>1. Like(e) /\ e.msd_decoded = ea.msd_decoded
  BY EaTypes DEF Like, EaStates
<1>2. \/ Finish(e, a, q, "idle", "ATTEMPTS_ENDED")
      \/ Finish(e, a, q, "idle", "DIAL_DURATION")
      \/ ea' = e /\ eaQ' = q /\ UNCHANGED <<tone, ecallQ, buf>>
  BY Zenon DEF CallFailed
<1>3. {"ATTEMPTS_ENDED", "DIAL_DURATION"} \subseteq Results \ {"FORCED_STOP"}
  BY DEF Results
<1> HIDE DEF e, a
<1>4. CASE Finish(e, a, q, "idle", "ATTEMPTS_ENDED")
  BY <1>1, <1>3, <1>4, FinishMsd
<1>5. CASE Finish(e, a, q, "idle", "DIAL_DURATION")
  BY <1>1, <1>3, <1>5, FinishMsd
<1>6. CASE ea' = e /\ eaQ' = q /\ UNCHANGED <<tone, ecallQ, buf>>
  BY <1>1, <1>6 DEF MsdStep, GoesOn
<1> QED BY <1>2, <1>4, <1>5, <1>6

\* disconnected, before its sleep and after it.
LEMMA DisconnectedMsd ==
  ASSUME TypeOK, Disconnected \/ CauseRead
  PROVE  MsdStep
<1> DEFINE e == [ea EXCEPT !.SOS_pressed_numb = 0, !.voice_active = FALSE]
           f == [e EXCEPT !.finished = TRUE]
           g == [ea EXCEPT !.finished = TRUE]
<1>1. Like(e) /\ e.msd_decoded = ea.msd_decoded
  <2>1. ea \in EaStates /\ 0 \in 0..3
    BY EaTypes
  <2> QED BY <2>1 DEF Like, EaStates
<1>2. Like(f) /\ f.msd_decoded = ea.msd_decoded /\ Like(g) /\ g.msd_decoded = ea.msd_decoded
  <2> HIDE DEF e
  <2> QED BY <1>1, LikeIt
<1>3. CASE Disconnected
  <2>1. SameAsked(eaQ, Rest)
    BY <1>3, EaTypes, AskedOfRest DEF Disconnected, TakeUrc
  <2>2. \/ Finish(f, armed, Rest, line, "DIAL_DURATION")
        \/ ea' = e /\ eaQ' = Rest /\ UNCHANGED <<tone, ecallQ, buf>>
    BY <1>3, Zenon DEF Disconnected
  <2>3. "DIAL_DURATION" \in Results \ {"FORCED_STOP"}
    BY DEF Results
  <2> HIDE DEF e, f, g
  <2>4. CASE Finish(f, armed, Rest, line, "DIAL_DURATION")
    BY <1>2, <2>1, <2>3, <2>4, FinishMsd
  <2>5. CASE ea' = e /\ eaQ' = Rest /\ UNCHANGED <<tone, ecallQ, buf>>
    BY <1>1, <2>1, <2>5 DEF MsdStep, GoesOn
  <2> QED BY <2>2, <2>4, <2>5
<1>4. CASE CauseRead
  <2>1. SameAsked(eaQ, Sent(eaQ, Msg("CALL_FAILED"))) /\ SameAsked(eaQ, eaQ)
    BY EaTypes, AskedOfSent, NoCommands DEF Commands, SameAsked
  <2>2. /\ UNCHANGED <<tone, ecallQ>>
        /\ \/ ea.stopped /\ ea' = g /\ eaQ' = eaQ /\ buf' = buf
           \/ /\ ~ea.stopped /\ ea' = FinishedState(g, "SUCCESS") /\ eaQ' = eaQ
              /\ buf' = FinishedBuf(ea, "SUCCESS")
           \/ eaQ' = Sent(eaQ, Msg("CALL_FAILED")) /\ UNCHANGED <<ea, buf>>
    BY <1>4, Zenon DEF CauseRead
  <2> HIDE DEF e, f, g
  <2>3. CASE ea.stopped /\ ea' = g /\ eaQ' = eaQ /\ buf' = buf
    BY <1>2, <2>1, <2>2, <2>3 DEF MsdStep, GoesOn
  <2>4. CASE /\ ~ea.stopped /\ ea' = FinishedState(g, "SUCCESS") /\ eaQ' = eaQ
             /\ buf' = FinishedBuf(ea, "SUCCESS")
    <3>1. /\ ea'.event = g.event /\ ea'.msd_decoded = g.msd_decoded /\ ea'.stopped
          /\ ~ea'.urc_listening /\ ea'.result_action = "SUCCESS"
      BY <1>2, <2>4 DEF FinishedState, Like, EaStates
    <3>2. GetsOver
      BY <1>2, <2>1, <2>4, <3>1 DEF GetsOver, FinishedBuf, Like
    <3> QED BY <2>2, <3>2 DEF MsdStep
  <2>5. CASE eaQ' = Sent(eaQ, Msg("CALL_FAILED")) /\ UNCHANGED <<ea, buf>>
    BY <2>1, <2>2, <2>5, CallUntouched
  <2> QED BY <2>2, <2>3, <2>4, <2>5
<1> QED BY <1>3, <1>4

\* The other URCs.
LEMMA UrcMsd ==
  ASSUME TypeOK, UrcRing \/ UrcConnected \/ EvStart \/ EvAck \/ EvTimeout \/ EvVoice \/ UrcIgnored
  PROVE  MsdStep
<1>1. SameAsked(eaQ, Rest)
  <2>1. PICK ev \in Urcs \cup EcallEvs : Take(ev)
    BY DEF UrcRing, UrcConnected, EvStart, EvAck, EvTimeout, EvVoice, UrcIgnored, TakeUrc,
       Urcs, EcallEvs
  <2>2. ev \notin {"START", "FORCED_STOP"}
    BY DEF Urcs, EcallEvs
  <2> QED BY <2>1, <2>2, EaTypes, AskedOfRest
<1>2. CASE UrcRing \/ UrcConnected \/ EvStart \/ UrcIgnored
  <2>1. eaQ' = Rest /\ UNCHANGED <<ea, buf, tone, ecallQ>>
    BY <1>2 DEF UrcRing, UrcConnected, EvStart, UrcIgnored, Quiet
  <2> QED BY <1>1, <2>1, CallUntouched
<1>3. CASE EvAck
  <2>1. PICK ev \in {"EV_LL_ACK", "EV_AL_ACK", "EV_CLEAR_DOWN"} :
          /\ ea.urc_listening /\ eaQ' = Rest
          /\ ea' = [ea EXCEPT !.msd_decoded = @ \/ ev # "EV_CLEAR_DOWN",
                              !.pull_mode = @ \/ ev # "EV_LL_ACK"]
          /\ UNCHANGED <<buf, tone, ecallQ>>
    BY <1>3, Zenon DEF EvAck, TakeUrc, Quiet
  <2>2. Like(ea') /\ (ea.msd_decoded => ea'.msd_decoded)
    BY <2>1, EaTypes DEF Like, EaStates
  <2> QED BY <1>1, <2>1, <2>2 DEF MsdStep, GoesOn
<1>4. CASE EvTimeout
  <2>1. /\ ea.urc_listening /\ eaQ' = Rest /\ UNCHANGED <<tone, ecallQ>>
        /\ buf' \in {buf, MoveBuf(buf, "INBAND", "SMS")}
        /\ ea' = ea \/ ea' = [ea EXCEPT !.pull_mode = TRUE]
    BY <1>4 DEF EvTimeout, TakeUrc
  <2>2. Like(ea') /\ ea'.msd_decoded = ea.msd_decoded
    BY <2>1, EaTypes DEF Like, EaStates
  <2> QED BY <1>1, <2>1, <2>2 DEF MsdStep, GoesOn
<1>5. CASE EvVoice
  <2> DEFINE e == [ea EXCEPT !.voice_active = TRUE,
                             !.can_be_canceled = @ /\ ~(ea.msd_decoded \/ ea.pull_mode)]
             f == [e EXCEPT !.finished = TRUE]
  <2>1. Like(e) /\ e.msd_decoded = ea.msd_decoded
    BY EaTypes DEF Like, EaStates
  <2>2. Like(f) /\ f.msd_decoded = ea.msd_decoded
    <3> HIDE DEF e
    <3> QED BY <2>1, LikeIt
  <2>3. \/ Finish(f, armed, Rest, line, "SUCCESS")
        \/ ea' = e /\ eaQ' = Rest /\ UNCHANGED <<tone, ecallQ, buf>>
    BY <1>5, Zenon DEF EvVoice, Quiet
  <2>4. "SUCCESS" \in Results \ {"FORCED_STOP"}
    BY DEF Results
  <2> HIDE DEF e, f
  <2>5. CASE Finish(f, armed, Rest, line, "SUCCESS")
    BY <1>1, <2>2, <2>4, <2>5, FinishMsd
  <2>6. CASE ea' = e /\ eaQ' = Rest /\ UNCHANGED <<tone, ecallQ, buf>>
    BY <1>1, <2>1, <2>6 DEF MsdStep, GoesOn
  <2> QED BY <2>3, <2>5, <2>6
<1> QED BY <1>2, <1>3, <1>4, <1>5

\* The button and the messages of timers that end a call.
LEMMA CommandMsd ==
  ASSUME TypeOK, SosPressed \/ DialDurMsg \/ CcftMsg
  PROVE  MsdStep
<1> DEFINE f == [ea EXCEPT !.finished = TRUE]
           n == [ea EXCEPT !.SOS_pressed_numb = @ + 1]
<1>1. SameAsked(eaQ, Rest)
  BY EaTypes, AskedOfRest DEF SosPressed, DialDurMsg, CcftMsg
<1>2. Like(f) /\ f.msd_decoded = ea.msd_decoded /\ Like(ea)
  BY LikeIt
<1>3. {"MANUAL_CANCEL", "DIAL_DURATION", "CCFT_TIMER"} \subseteq Results \ {"FORCED_STOP"}
  BY DEF Results
<1>4. CASE SosPressed
  <2>1. \/ Finish(f, armed, Rest, "idle", "MANUAL_CANCEL")
        \/ /\ ea' = ea \/ (ea.SOS_pressed_numb < 3 /\ ea' = n)
           /\ eaQ' = Rest /\ UNCHANGED <<tone, ecallQ, buf>>
    BY <1>4, Zenon DEF SosPressed, Quiet
  <2>2. ea.SOS_pressed_numb < 3 => Like(n) /\ n.msd_decoded = ea.msd_decoded
    <3>1. ea \in EaStates /\ ea.SOS_pressed_numb \in 0..3
      BY EaTypes DEF EaStates
    <3>2. ea.SOS_pressed_numb < 3 => ea.SOS_pressed_numb + 1 \in 0..3
      BY <3>1
    <3> QED BY <3>1, <3>2 DEF Like, EaStates
  <2> HIDE DEF f, n
  <2>3. CASE Finish(f, armed, Rest, "idle", "MANUAL_CANCEL")
    BY <1>1, <1>2, <1>3, <2>3, FinishMsd
  <2>4. CASE /\ ea' = ea \/ (ea.SOS_pressed_numb < 3 /\ ea' = n)
             /\ eaQ' = Rest /\ UNCHANGED <<tone, ecallQ, buf>>
    BY <1>1, <1>2, <2>2, <2>4 DEF MsdStep, GoesOn
  <2> QED BY <2>1, <2>3, <2>4
<1>5. CASE DialDurMsg
  BY <1>1, <1>2, <1>3, <1>5, FinishMsd DEF DialDurMsg
<1>6. CASE CcftMsg
  <2>1. Finish(f, armed, Rest, "idle", "CCFT_TIMER")
    BY <1>6, Zenon DEF CcftMsg
  <2> HIDE DEF f
  <2> QED BY <1>1, <1>2, <1>3, <2>1, FinishMsd
<1> QED BY <1>4, <1>5, <1>6

\* Every message but START and FORCED_STOP.
LEMMA MessageMsd ==
  ASSUME TypeOK,
         \/ MakeCallAgain \/ CallFailedMsg \/ UrcBusy \/ EvUnknown \/ Disconnected \/ CauseRead
         \/ UrcRing \/ UrcConnected \/ EvStart \/ EvAck \/ EvTimeout \/ EvVoice
         \/ UrcIgnored \/ SosPressed \/ DialDurMsg \/ CcftMsg
  PROVE  MsdStep
<1>1. CASE CallFailedMsg \/ UrcBusy \/ EvUnknown
  <2>1. SameAsked(eaQ, Rest)
    BY <1>1, EaTypes, AskedOfRest DEF CallFailedMsg, UrcBusy, EvUnknown, TakeUrc
  <2>2. CallFailed(ea, Rest)
    BY <1>1 DEF CallFailedMsg, UrcBusy, EvUnknown
  <2> QED BY <2>1, <2>2, CallFailedMsd
<1>2. CASE MakeCallAgain
  <2>1. SameAsked(eaQ, Rest) /\ IsMailbox(Rest)
    BY <1>2, EaTypes, AskedOfRest DEF MakeCallAgain
  <2>2. SameAsked(Rest, Sent(Rest, Msg("CALL_FAILED")))
    BY <2>1, AskedOfSent, NoCommands DEF Commands
  <2>3. ea' = ea /\ UNCHANGED <<tone, ecallQ, buf>>
        /\ eaQ' \in {Rest, Sent(Rest, Msg("CALL_FAILED"))}
    BY <1>2 DEF MakeCallAgain, MakeCall
  <2>4. SameAsked(eaQ, eaQ')
    BY <2>1, <2>2, <2>3, SameAskedTwice
  <2> QED BY <2>3, <2>4, CallUntouched
<1> QED BY <1>1, <1>2, DisconnectedMsd, UrcMsd, CommandMsd

\* The modem sends no command.
LEMMA ModemMsd ==
  ASSUME TypeOK, ModemNext
  PROVE  MsdStep
<1> DEFINE Said == {Msg(u) : u \in Urcs \cup EcallEvs}
<1>1. \A m \in Said : ~IsCommand(m) /\ m \in Messages
  BY NoCommands DEF Urcs, EcallEvs
<1>2. \A u \in Urcs \cup EcallEvs : <<Msg(u)>> \in Seq(Said)
  OBVIOUS
<1>3. <<Msg("URC_DISCONNECTED"), Msg("URC_NO_CARRIER")>> \in Seq(Said)
  BY DEF Urcs
<1> HIDE DEF Said
<1>4. PICK ln \in {"talking", "idle", "ringing", line}, us \in Seq(Said) : ModemReports(ln, us)
  <2>1. CASE ModemConnects
    BY <1>2, <2>1 DEF ModemConnects, Urcs
  <2>2. CASE ModemBusy
    BY <1>2, <2>2 DEF ModemBusy, Urcs
  <2>3. CASE ModemReleases
    BY <1>2, <1>3, <2>3 DEF ModemReleases, Urcs
  <2>4. CASE ModemEcallEv
    BY <1>2, <2>4 DEF ModemEcallEv
  <2>5. CASE ModemRings
    BY <1>2, <2>5 DEF ModemRings, Urcs
  <2> QED BY <2>1, <2>2, <2>3, <2>4, <2>5 DEF ModemNext
<1> DEFINE room == MailboxSize - Len(eaQ)
           n == Min({Len(us), room})
<1>5. n \in 0..Len(us)
  <2>1. Len(eaQ) \in Nat /\ Len(us) \in Nat /\ MailboxSize \in Nat /\ room \in Nat
    BY EaTypes, LenProperties, SizeAssumption DEF IsMailbox
  <2>2. \E x \in {Len(us), room} : \A y \in {Len(us), room} : x <= y
    BY <2>1
  <2>3. n \in {Len(us), room} /\ \A y \in {Len(us), room} : n <= y
    BY <2>2 DEF Min
  <2> HIDE DEF n, room
  <2> QED BY <2>1, <2>3
<1>6. eaQ' = eaQ \o SubSeq(us, 1, n) /\ UNCHANGED <<ea, buf, tone, ecallQ>>
  BY <1>4 DEF ModemReports, Quiet, Delivered
<1> HIDE DEF n
<1>7. /\ SubSeq(us, 1, n) \in Seq(Messages)
      /\ \A k \in 1..Len(SubSeq(us, 1, n)) : ~IsCommand(SubSeq(us, 1, n)[k])
  <2>1. /\ SubSeq(us, 1, n) \in Seq(Said)
    BY <1>5, PrefixProperties
  <2>2. \A k \in 1..Len(SubSeq(us, 1, n)) : SubSeq(us, 1, n)[k] \in Said
    BY <2>1, ElementOfSeq
  <2>3. Said \subseteq Messages
    BY <1>1
  <2>4. SubSeq(us, 1, n) \in Seq(Messages)
    <3> DEFINE s == SubSeq(us, 1, n)
    <3> HIDE DEF s
    <3>1. s \in Seq(Said) => s \in Seq(Messages)
      BY <2>3
    <3> QED BY <2>1, <3>1 DEF s
  <2> QED BY <1>1, <2>2, <2>4
<1>8. SameAsked(eaQ, eaQ')
  BY <1>6, <1>7, EaTypes, AskedOfConcat DEF IsMailbox
<1> QED BY <1>6, <1>8, CallUntouched

\* The timers that only post a message, or set their flag.
LEMMA TimerMsd ==
  ASSUME TypeOK, DialDurExpires \/ \E t \in DOMAIN TimerMessage : TimerExpires(t)
  PROVE  MsdStep
<1>1. CASE DialDurExpires
  <2>1. SameAsked(eaQ, Sent(eaQ, Msg("DIAL_DUR_T"))) /\ SameAsked(eaQ, eaQ)
    BY EaTypes, AskedOfSent, NoCommands DEF Commands, SameAsked
  <2>2. /\ ea' = [ea EXCEPT !.dial_duration_expired = TRUE]
        /\ eaQ' \in {eaQ, Sent(eaQ, Msg("DIAL_DUR_T"))} /\ UNCHANGED <<tone, ecallQ, buf>>
    BY <1>1 DEF DialDurExpires, Quiet
  <2>3. Like(ea') /\ ea'.msd_decoded = ea.msd_decoded
    BY <2>2, EaTypes DEF Like, EaStates
  <2> QED BY <2>1, <2>2, <2>3 DEF MsdStep, GoesOn
<1>2. ASSUME NEW t \in DOMAIN TimerMessage, TimerExpires(t) PROVE MsdStep
  <2>1. t \in {"conn_wait", "dials_delay", "ccft"}
        /\ TimerMessage[t] \in Commands \ {"FORCED_STOP"}
    BY DEF TimerMessage, Commands
  <2>2. eaQ' = Sent(eaQ, Msg(TimerMessage[t])) /\ UNCHANGED <<ea, buf, tone, ecallQ>>
    BY <1>2 DEF TimerExpires, Quiet
  <2>3. SameAsked(eaQ, eaQ')
    BY <2>1, <2>2, EaTypes, AskedOfSent, NoCommands
  <2> QED BY <2>2, <2>3, CallUntouched
<1> QED BY <1>1, <1>2

----------------------------------------------------------------------------
(* Where the MSD of the last call is.                                      *)

\* No call has been cancelled or stopped by force.
Clean == up /\ dropped = {}

\* Each call the caller has started was begun or is asked for, and each but the one it
\* waits for was answered.
Accounted ==
  /\ caller \in {"idle", "waiting"}
  /\ calls <= answered - Len(ecallQ) + (IF caller = "waiting" THEN 1 ELSE 0)
  /\ OnlyOne(eaQ)
  /\ \/ current = calls /\ Asked(eaQ) = {}
     \/ current + 1 = calls /\ \E e \in CallEvents : Asked(eaQ) = {Start(e)}

\* What is under way to the caller is the result of the last call, and a cancellation finds
\* it waiting; a call that is over listens to no URC.
ResultAgrees ==
  /\ tone \in {"none", ea.result_action}
  /\ \A i \in 1..Len(ecallQ) : ecallQ[i].arg = ea.result_action
  /\ ea.stopped /\ ea.result_action = "MANUAL_CANCEL" => caller = "waiting" /\ current = calls
  /\ ea.stopped => ~ea.urc_listening

\* Where the MSD is: of a call that is asked for,
AskedStored ==
  \A e \in Events : Start(e) \in Asked(eaQ) =>
    IF e = "TEST" THEN NoInband(buf) ELSE Newest(buf, {"INBAND"})
\* that runs,
RunningStored ==
  ~ea.stopped =>
    IF ea.event = "TEST" THEN NoInband(buf)
    ELSE ~ea.msd_decoded => Newest(buf, {"INBAND", "SMS"})
\* and that is over.
OverStored ==
  ea.stopped /\ ea.result_action # "MANUAL_CANCEL" =>
    /\ current = calls => NoInband(buf)
    /\ current > 0 /\ ea.event # "TEST" /\ ~ea.msd_decoded =>
         IF current = calls THEN Newest(buf, {"SMS"})
         ELSE \E i \in 1..Len(buf) : buf[i] = [id |-> current, flag |-> "SMS"]

Stored == InbandIsLast(buf) /\ AskedStored /\ RunningStored /\ OverStored

Kept == Accounted /\ ResultAgrees /\ Stored
KeptInv == Clean => Kept

\* The caller has at most one call under way: asked for, running, finishing or answered.
LEMMA OneCallUnderWay ==
  ASSUME TypeOK, OneResultPerStart, Accounted
  PROVE  /\ caller = "idle" => current = calls /\ ecallQ = <<>> /\ ea.stopped
         /\ current # calls => caller = "waiting" /\ ea.stopped /\ tone = "none" /\ ecallQ = <<>>
         /\ ~ea.stopped => /\ caller = "waiting" /\ current = calls
                           /\ tone = "none" /\ ecallQ = <<>>
         /\ ecallQ # <<>> => caller = "waiting" /\ current = calls
<1> DEFINE s == IF ea.stopped THEN 0 ELSE 1
           f == IF "finish" \in armed THEN 1 ELSE 0
           t == IF tone = "none" THEN 0 ELSE 1
           w == IF caller = "waiting" THEN 1 ELSE 0
           n == Len(ecallQ)
<1>1. current \in Nat /\ answered \in Nat /\ calls \in Nat
  BY HistoryTypes, BoundsAssumption
<1>2. n \in Nat /\ (n = 0 => ecallQ = <<>>)
  BY ResultTypes, LenProperties, EmptySeq DEF IsResults
<1>3. {s, f, t, w} \subseteq 0..1
  OBVIOUS
<1>4. answered + (s + f + t) <= current
  BY DEF OneResultPerStart, Owed
<1>5. calls <= answered - n + w /\ current \in {calls, calls - 1}
  BY <1>1 DEF Accounted
<1>6. /\ s = 0 <=> ea.stopped
      /\ t = 0 <=> tone = "none"
      /\ w = 1 <=> caller = "waiting"
  OBVIOUS
<1> HIDE DEF s, f, t, w, n
<1>7. /\ w = 0 => current = calls /\ n = 0 /\ s = 0
      /\ current # calls => w = 1 /\ s = 0 /\ t = 0 /\ n = 0
      /\ s = 1 => w = 1 /\ current = calls /\ t = 0 /\ n = 0
      /\ n # 0 => w = 1 /\ current = calls
  BY <1>1, <1>2, <1>3, <1>4, <1>5
<1>8. (w = 0 \/ w = 1) /\ (s = 0 \/ s = 1)
  BY <1>3
<1>9. n = 0 <=> ecallQ = <<>>
  BY <1>2 DEF n
<1> QED BY <1>6, <1>7, <1>8, <1>9

\* The steps that take no command and answer nothing.
LEMMA MsdStepKeeps ==
  ASSUME TypeOK, OneResultPerStart, Kept, MsdStep, UNCHANGED <<caller, calls, current, answered>>
  PROVE  Kept'
<1> USE DEF Kept
<1>1. /\ ~ea.stopped => /\ caller = "waiting" /\ current = calls /\ Asked(eaQ) = {}
                        /\ tone = "none" /\ ecallQ = <<>>
      /\ SameAsked(eaQ, eaQ') /\ UNCHANGED <<tone, ecallQ>>
  <2>1. current = calls => Asked(eaQ) = {}
    <3>1. current \in Nat /\ calls \in Nat
      BY HistoryTypes, BoundsAssumption
    <3> QED BY <3>1 DEF Accounted
  <2> QED BY <2>1, OneCallUnderWay DEF MsdStep, GoesOn, GetsOver
<1>2. Accounted'
  BY <1>1 DEF Accounted, SameAsked
<1>3. CASE GoesOn
  <2>1. Like(ea')
    BY <1>3 DEF GoesOn
  <2>2. ResultAgrees'
    BY <1>1, <2>1 DEF ResultAgrees, Like
  <2>3. CASE buf' = buf
    <3>1. ea.msd_decoded => ea'.msd_decoded
      BY <1>3 DEF GoesOn
    <3>2. ea.stopped => ea'.msd_decoded = ea.msd_decoded
      BY <1>3 DEF GoesOn, ResultAgrees
    <3>3. AskedStored'
      BY <1>1, <2>3 DEF AskedStored, Stored, SameAsked, Newest
    <3>4. RunningStored'
      BY <2>1, <2>3, <3>1 DEF RunningStored, Stored, Like, Newest
    <3>5. OverStored'
      BY <2>1, <2>3, <3>2 DEF OverStored, Stored, Like, Newest
    <3> QED BY <1>2, <2>2, <2>3, <3>3, <3>4, <3>5 DEF Stored
  <2>4. CASE buf' # buf
    <3>1. buf' = MoveBuf(buf, "INBAND", "SMS") /\ ~ea.stopped
      BY <1>3, <2>4 DEF GoesOn, ResultAgrees
    <3>2. /\ NoInband(buf')
          /\ Newest(buf, {"INBAND", "SMS"}) => Newest(buf', {"SMS"})
      BY <3>1, EaTypes, InbandMoved DEF Stored
    <3>3. ~ea'.stopped /\ ea'.event = ea.event /\ (ea.msd_decoded => ea'.msd_decoded)
      BY <1>3, <3>1 DEF GoesOn, Like
    <3>4. AskedStored'
      BY <1>1, <3>1 DEF AskedStored, SameAsked
    <3>5. RunningStored'
      BY <3>1, <3>2, <3>3 DEF RunningStored, Stored, Newest
    <3>6. OverStored' /\ InbandIsLast(buf')
      BY <3>2, <3>3 DEF OverStored, NoInband, InbandIsLast
    <3> QED BY <1>2, <2>2, <3>4, <3>5, <3>6 DEF Stored
  <2> QED BY <2>3, <2>4
<1>4. CASE GetsOver
  <2>1. /\ ~ea.stopped /\ ea'.stopped /\ ~ea'.urc_listening
        /\ ea'.event = ea.event /\ ea'.msd_decoded = ea.msd_decoded
    BY <1>4 DEF GetsOver
  <2>2. ResultAgrees'
    <3>1. \A i \in 1..Len(ecallQ') : FALSE
      BY <1>1, <2>1
    <3> QED BY <1>1, <2>1, <3>1 DEF ResultAgrees
  <2>3. AskedStored' /\ RunningStored'
    BY <1>1, <2>1 DEF AskedStored, RunningStored, SameAsked
  <2>4. IsBuf(buf) /\ InbandIsLast(buf)
    BY EaTypes DEF Stored
  <2>5. \A b : NoInband(b) => InbandIsLast(b)
    BY DEF NoInband, InbandIsLast
  <2>6. CASE ea.event = "TEST"
    <3>1. buf' = buf /\ NoInband(buf)
      BY <1>4, <2>1, <2>6 DEF GetsOver, Stored, RunningStored
    <3>2. OverStored'
      BY <1>1, <2>1, <2>6, <3>1 DEF OverStored
    <3> QED BY <1>2, <2>2, <2>3, <2>4, <3>1, <3>2 DEF Stored
  <2>7. CASE ea.event # "TEST" /\ ea.msd_decoded
    <3>1. NoInband(buf')
      BY <1>4, <2>4, <2>7, InbandRemoved DEF GetsOver
    <3>2. OverStored'
      BY <2>1, <2>7, <3>1 DEF OverStored
    <3> QED BY <1>2, <2>2, <2>3, <2>5, <3>1, <3>2 DEF Stored
  <2>8. CASE ea.event # "TEST" /\ ~ea.msd_decoded /\ ea'.result_action = "MANUAL_CANCEL"
    <3>1. buf' = buf /\ OverStored'
      BY <1>4, <2>8 DEF GetsOver, OverStored
    <3> QED BY <1>2, <2>2, <2>3, <2>4, <3>1 DEF Stored
  <2>9. CASE ea.event # "TEST" /\ ~ea.msd_decoded /\ ea'.result_action # "MANUAL_CANCEL"
    <3>1. buf' = MoveBuf(buf, "INBAND", "SMS")
      BY <1>4, <2>9 DEF GetsOver
    <3>2. Newest(buf, {"INBAND", "SMS"})
      BY <2>1, <2>9 DEF Stored, RunningStored
    <3>3. NoInband(buf') /\ Newest(buf', {"SMS"})
      BY <2>4, <3>1, <3>2, InbandMoved
    <3>4. OverStored'
      BY <1>1, <2>1, <3>3 DEF OverStored, Newest
    <3> QED BY <1>2, <2>2, <2>3, <2>5, <3>3, <3>4 DEF Stored
  <2> QED BY <2>6, <2>7, <2>8, <2>9
<1> QED BY <1>3, <1>4 DEF MsdStep

\* START: the only command that waits begins its call.
LEMMA StartKeeps ==
  ASSUME TypeOK, OneResultPerStart, Kept, StartCall, current' = current + 1,
         UNCHANGED <<caller, calls, answered>>
  PROVE  Kept'
<1> USE DEF Kept
<1> DEFINE e(event) == [ea EXCEPT !.event = event, !.stopped = FALSE,
                           !.pull_mode = FALSE, !.call_attempts = 0,
                           !.msd_decoded = FALSE, !.voice_active = FALSE,
                           !.can_be_canceled = CanCancel,
                           !.dial_duration_expired = FALSE,
                           !.finished = FALSE, !.SOS_pressed_numb = 0,
                           !.sos_button_listen = IF event # "TEST" THEN TRUE ELSE @,
                           !.urc_listening = TRUE]
           a == (armed \ {"finish"}) \cup {"dial_dur"}
<1>1. PICK event \in Events : /\ Take("START") /\ Head(eaQ).arg = event
                              /\ MakeCall(e(event), a, Rest)
  BY Zenon DEF StartCall
<1>2. /\ e(event).event = event /\ ~e(event).stopped
      /\ e(event).result_action = ea.result_action
  BY EaTypes DEF EaStates
<1> HIDE DEF e, a
<1>3. /\ ea'.event = event /\ ~ea'.stopped /\ ea'.result_action = ea.result_action
      /\ eaQ' \in {Rest, Sent(Rest, Msg("CALL_FAILED"))}
      /\ UNCHANGED <<tone, ecallQ, buf>>
  BY <1>1, <1>2 DEF MakeCall
<1>4. /\ IsMailbox(Rest) /\ eaQ # <<>> /\ Head(eaQ).ev = "START"
      /\ Asked(eaQ) = {Head(eaQ)} /\ Asked(Rest) = {} /\ OnlyOne(Rest)
  <2>1. eaQ # <<>> /\ Head(eaQ).ev = "START"
    BY <1>1 DEF Take
  <2>2. IsCommand(Head(eaQ)) /\ OnlyOne(eaQ) /\ eaQ \in Seq(Messages)
    BY <2>1, EaTypes DEF IsCommand, Accounted, IsMailbox
  <2> QED BY <2>1, <2>2, EaTypes, RestType, AskedOfTail DEF Rest
<1>5. SameAsked(Rest, eaQ')
  <2>1. SameAsked(Rest, Rest)
    BY DEF SameAsked
  <2>2. SameAsked(Rest, Sent(Rest, Msg("CALL_FAILED")))
    BY <1>4, AskedOfSent, NoCommands DEF Commands
  <2> QED BY <1>3, <2>1, <2>2
<1>6. Asked(eaQ') = {} /\ OnlyOne(eaQ')
  BY <1>4, <1>5 DEF SameAsked
<1>7. current + 1 = calls /\ Start(event) \in Asked(eaQ)
  <2>1. Asked(eaQ) # {}
    BY <1>4
  <2>2. PICK x \in CallEvents : Asked(eaQ) = {Start(x)} /\ current + 1 = calls
    BY <2>1 DEF Accounted
  <2>3. Head(eaQ) = Start(x)
    BY <1>4, <2>2
  <2>4. x = event
    BY <1>1, <2>3 DEF Start
  <2> QED BY <2>2, <2>4
<1>8. tone = "none" /\ ecallQ = <<>> /\ calls \in Nat /\ current \in Nat
  BY <1>7, OneCallUnderWay, HistoryTypes, BoundsAssumption
<1>9. Accounted'
  BY <1>3, <1>6, <1>7 DEF Accounted
<1>10. ResultAgrees'
  <2>1. \A i \in 1..Len(ecallQ') : FALSE
    BY <1>3, <1>8
  <2> QED BY <1>3, <1>8, <2>1 DEF ResultAgrees
<1>11. AskedStored' /\ OverStored'
  BY <1>3, <1>6 DEF AskedStored, OverStored
<1>12. RunningStored'
  BY <1>1, <1>3, <1>7 DEF Stored, AskedStored, RunningStored, Newest
<1> QED BY <1>3, <1>9, <1>10, <1>11, <1>12 DEF Stored

\* FORCED_STOP waits only for a caller that has given up.
LEMMA NoForcedStop ==
  ASSUME TypeOK, Kept, ForcedStop
  PROVE  FALSE
<1>1. eaQ # <<>> /\ Head(eaQ).ev = "FORCED_STOP"
  BY DEF ForcedStop, Take
<1>2. Asked(eaQ) = {Head(eaQ)}
  BY <1>1, EaTypes, AskedOfTail DEF IsCommand, Kept, Accounted, IsMailbox
<1>3. PICK x \in CallEvents : Asked(eaQ) = {Start(x)}
  BY <1>2 DEF Kept, Accounted
<1>4. Head(eaQ) = Start(x)
  BY <1>2, <1>3
<1> QED BY <1>1, <1>4 DEF Start

\* A result is played or sent to the caller.
LEMMA ResultKeeps ==
  ASSUME TypeOK, OneResultPerStart, Kept, FinishExpires \/ ToneEnds,
         answered' = answered + (Len(ecallQ') - Len(ecallQ)),
         UNCHANGED <<caller, calls, current>>
  PROVE  Kept'
<1> USE DEF Kept
<1> DEFINE q == Append(ecallQ, ResultMsg(ea.result_action))
           n == Len(ecallQ)
<1>1. /\ UNCHANGED <<ea, eaQ, buf>>
      /\ tone' \in {"none", ea.result_action} /\ ecallQ' \in {ecallQ, q}
  <2>1. CASE FinishExpires
    BY <2>1 DEF FinishExpires, ResultAgrees
  <2>2. CASE ToneEnds
    BY <2>2 DEF ToneEnds, ResultAgrees
  <2> QED BY <2>1, <2>2
<1>2. /\ n \in Nat /\ Len(q) = n + 1 /\ q[n + 1] = ResultMsg(ea.result_action)
      /\ \A i \in 1..n : q[i] = ecallQ[i]
  BY ResultTypes, ResultSent, AppendProperties, LenProperties DEF IsResults
<1>3. \A i \in 1..Len(ecallQ') : ecallQ'[i].arg = ea.result_action
  <2>1. \A i \in 1..n : ecallQ[i].arg = ea.result_action
    BY DEF ResultAgrees
  <2>2. ASSUME NEW i \in 1..(n + 1) PROVE q[i].arg = ea.result_action
    <3>1. i \in 1..n \/ i = n + 1
      BY <1>2
    <3>2. ResultMsg(ea.result_action).arg = ea.result_action
      BY DEF ResultMsg
    <3> HIDE DEF q, n
    <3> QED BY <1>2, <2>1, <3>1, <3>2
  <2> HIDE DEF q
  <2> QED BY <1>1, <1>2, <2>1, <2>2
<1>4. Accounted'
  <2>1. answered \in Nat /\ calls \in Nat /\ Len(ecallQ') \in Nat
    BY <1>1, <1>2, HistoryTypes, BoundsAssumption
  <2>2. answered' - Len(ecallQ') = answered - n
    BY <1>2, <2>1
  <2> HIDE DEF n
  <2>3. calls <= answered' - Len(ecallQ') + (IF caller = "waiting" THEN 1 ELSE 0)
    BY <2>2 DEF Accounted, n
  <2> QED BY <1>1, <2>3 DEF Accounted
<1>5. ResultAgrees'
  BY <1>1, <1>3 DEF ResultAgrees
<1>6. Stored'
  BY <1>1 DEF Stored, AskedStored, RunningStored, OverStored, Newest
<1> QED BY <1>4, <1>5, <1>6

\* The caller asks for its next call only after the last one is answered; the MSD of the
\* last call leaves the storage only if the storage holds a single one.
LEMMA CallerStartsKeeps ==
  ASSUME TypeOK, OneResultPerStart, Kept, MAX_NUMBER_MSD >= 2,
         NEW event \in CallEvents, CallerStarts(event)
  PROVE  Kept'
<1> USE DEF Kept
<1> DEFINE m == [id |-> calls + 1, flag |-> "INBAND"]
           s == SaveBuf(buf, m)
<1>1. /\ caller = "idle" /\ calls < MaxCalls /\ Len(eaQ) < MailboxSize
      /\ caller' = "waiting" /\ calls' = calls + 1
      /\ eaQ' = Sent(eaQ, Start(event))
      /\ buf' = IF event = "TEST" THEN buf ELSE s
      /\ UNCHANGED <<ea, tone, ecallQ, current, answered>>
  BY DEF CallerStarts, HasRoom
<1>2. /\ current = calls /\ ecallQ = <<>> /\ ea.stopped
      /\ calls \in Nat /\ answered \in Nat /\ MaxCalls \in Nat /\ calls \in 0..MaxCalls
  BY <1>1, OneCallUnderWay, HistoryTypes, BoundsAssumption
<1>3. event \in Events
  BY CallEventsAssumption
<1>4. Asked(eaQ') = {Start(event)} /\ OnlyOne(eaQ')
  <2>1. Asked(eaQ) = {}
    BY <1>2 DEF Accounted
  <2> QED BY <1>1, <1>3, <2>1, EaTypes, AskedOfSent, NoCommands
<1>5. Accounted'
  <2>1. calls <= answered - Len(ecallQ)
    BY <1>1, <1>2 DEF Accounted
  <2>2. calls + 1 <= answered - Len(ecallQ) + 1
    <3> DEFINE n == Len(ecallQ)
    <3>1. n \in Nat
      BY ResultTypes, LenProperties DEF IsResults
    <3>2. calls <= answered - n
      BY <2>1
    <3> HIDE DEF n
    <3>3. calls + 1 <= answered - n + 1
      BY <1>2, <3>1, <3>2
    <3> QED BY <3>3 DEF n
  <2> QED BY <1>1, <1>2, <1>4, <2>2 DEF Accounted
<1>6. ResultAgrees' /\ ea.result_action # "MANUAL_CANCEL"
  BY <1>1, <1>2 DEF ResultAgrees
<1>7. /\ NoInband(buf) /\ IsBuf(buf)
      /\ current > 0 /\ ea.event # "TEST" /\ ~ea.msd_decoded => Newest(buf, {"SMS"})
  BY <1>2, <1>6, EaTypes DEF Stored, OverStored
<1>8. RunningStored'
  BY <1>1, <1>2 DEF RunningStored
<1>9. \A e \in Events : Start(e) \in Asked(eaQ') => e = event
  BY <1>4 DEF Start
<1>10. ASSUME Newest(buf, {"SMS"}) PROVE Len(buf) > 0 /\ Len(buf) \in 1..Len(buf)
                                         /\ buf[Len(buf)] = [id |-> current, flag |-> "SMS"]
  <2>1. Len(buf) > 0 /\ buf[Len(buf)].id = calls /\ buf[Len(buf)].flag = "SMS"
    BY <1>10 DEF Newest
  <2>2. Len(buf) \in 1..Len(buf) /\ buf[Len(buf)] \in Records(1..MaxCalls)
    BY <1>7, <2>1, ElementOfSeq, LenProperties DEF IsBuf
  <2> QED BY <1>2, <2>1, <2>2 DEF Records
<1>11. CASE event = "TEST"
  <2>1. AskedStored'
    BY <1>1, <1>7, <1>9, <1>11 DEF AskedStored
  <2>2. OverStored'
    <3>1. current' # calls'
      BY <1>1, <1>2
    <3> QED BY <1>1, <1>7, <1>10, <1>11, <3>1 DEF OverStored
  <2>3. InbandIsLast(buf')
    BY <1>1, <1>11 DEF Stored
  <2> QED BY <1>5, <1>6, <1>8, <2>1, <2>2, <2>3 DEF Stored
<1>12. CASE event # "TEST"
  <2>1. m \in Records(1..MaxCalls) /\ m.flag = "INBAND" /\ m.id = calls + 1
    BY <1>1, <1>2 DEF Records, Flags
  <2> HIDE DEF m
  <2>2. /\ InbandIsLast(s) /\ Len(s) > 0 /\ s[Len(s)] = m
        /\ Len(buf) > 0 => \E i \in 1..Len(s) : s[i] = buf[Len(buf)]
    BY <1>7, <2>1, InbandSaved
  <2> HIDE DEF s
  <2>3. buf' = s
    BY <1>1, <1>12
  <2>4. AskedStored'
    BY <1>1, <1>9, <1>12, <2>1, <2>2, <2>3 DEF AskedStored, Newest
  <2>5. OverStored'
    <3>1. current' # calls'
      BY <1>1, <1>2
    <3>2. ASSUME Newest(buf, {"SMS"})
          PROVE  \E i \in 1..Len(s) : s[i] = [id |-> current, flag |-> "SMS"]
      BY <1>10, <2>2, <3>2
    <3> QED BY <1>1, <1>7, <2>3, <3>1, <3>2 DEF OverStored
  <2> QED BY <1>5, <1>6, <1>8, <2>2, <2>3, <2>4, <2>5 DEF Stored
<1> QED BY <1>11, <1>12

\* The caller takes the result of the call it waits for.
LEMMA CallerTakesKeeps ==
  ASSUME TypeOK, OneResultPerStart, Kept, CallerTakesResult, dropped' = {}
  PROVE  Kept'
<1> USE DEF Kept
<1>1. /\ ecallQ # <<>> /\ ecallQ' = Tail(ecallQ) /\ caller' = "idle"
      /\ UNCHANGED <<ea, eaQ, tone, calls, current, answered>>
  BY DEF CallerTakesResult
<1>2. caller = "waiting" /\ current = calls
  BY <1>1, OneCallUnderWay
<1>3. Head(ecallQ).arg # "MANUAL_CANCEL" /\ buf' = buf
  <2>1. dropped' # dropped \cup {calls}
    OBVIOUS
  <2> QED BY <1>2, <2>1 DEF CallerTakesResult
<1>4. /\ Len(ecallQ) \in Nat /\ Len(ecallQ) > 0 /\ Len(ecallQ') = Len(ecallQ) - 1
      /\ Head(ecallQ) = ecallQ[1]
      /\ \A i \in 1..Len(ecallQ') : ecallQ'[i] = ecallQ[i + 1] /\ i + 1 \in 1..Len(ecallQ)
  BY <1>1, ResultTypes, HeadTailProperties, LenProperties, EmptySeq DEF IsResults
<1>5. Accounted'
  <2> DEFINE n == Len(ecallQ)
             n1 == Len(ecallQ')
  <2>1. calls <= answered - n + 1 /\ n1 = n - 1 /\ n \in Nat
    BY <1>2, <1>4 DEF Accounted
  <2>2. answered \in Nat /\ calls \in Nat
    BY HistoryTypes, BoundsAssumption
  <2> HIDE DEF n, n1
  <2>3. calls <= answered - n1
    BY <2>1, <2>2
  <2>4. answered - n1 = answered - n1 + 0 /\ n1 \in Int
    BY <2>1, <2>2
  <2>5. calls <= answered - n1 + 0
    BY <2>3, <2>4
  <2> QED BY <1>1, <1>2, <2>5 DEF Accounted, n1
<1>6. ResultAgrees'
  <2>1. ea.result_action # "MANUAL_CANCEL"
    <3>1. 1 \in 1..Len(ecallQ)
      BY <1>4
    <3> QED BY <1>3, <1>4, <3>1 DEF ResultAgrees
  <2>2. \A i \in 1..Len(ecallQ') : ecallQ'[i].arg = ea.result_action
    BY <1>4 DEF ResultAgrees
  <2> QED BY <1>1, <2>1, <2>2 DEF ResultAgrees
<1>7. Stored'
  BY <1>1, <1>3 DEF Stored, AskedStored, RunningStored, OverStored, Newest
<1> QED BY <1>5, <1>6, <1>7

\* The steps of the caller.
LEMMA CallerKeeps ==
  ASSUME TypeOK, OneResultPerStart, Kept, MAX_NUMBER_MSD >= 2, CallerNext, dropped' = {}
  PROVE  Kept'
<1>1. CASE CallerStops
  BY <1>1 DEF CallerStops
<1>2. CASE CallerStopped
  BY <1>2 DEF CallerStopped, Kept, Accounted
<1>3. CASE SosButton
  <2>1. SameAsked(eaQ, eaQ')
    BY <1>3, EaTypes, AskedOfSent, NoCommands DEF SosButton, Commands
  <2>2. UNCHANGED <<ea, buf, tone, ecallQ, caller, calls, current, answered>>
    BY <1>3 DEF SosButton
  <2> QED BY <2>1, <2>2, CallUntouched, MsdStepKeeps
<1> QED BY <1>1, <1>2, <1>3, CallerStartsKeeps, CallerTakesKeeps DEF CallerNext

\* Every step keeps the account and the MSD.
LEMMA NextKept ==
  ASSUME IInv, KeptInv, MAX_NUMBER_MSD >= 2, [Next]_vars
  PROVE  KeptInv'
<1> SUFFICES ASSUME Clean' PROVE Kept'
  BY DEF KeptInv
<1>1. TypeOK /\ OneResultPerStart /\ up'
  BY DEF IInv, Clean
<1>2. dropped' = {} /\ (up' => up)
  BY StepKinds DEF IInv, StepKind, Clean
<1>3. ASSUME dropped = {} PROVE Kept
  BY <1>1, <1>2, <1>3 DEF KeptInv, Clean
<1>4. CASE TaskStep
  <2>1. Kept /\ UNCHANGED callerVars /\ answered' = answered
    BY <1>2, <1>3, <1>4 DEF TaskStep
  <2>2. CASE StartCall /\ current' = current + 1
    BY <1>1, <2>1, <2>2, StartKeeps DEF callerVars
  <2>3. CASE ForcedStop
    BY <1>1, <2>1, <2>3, NoForcedStop
  <2>4. CASE /\ \/ MakeCallAgain \/ CallFailedMsg \/ UrcBusy \/ EvUnknown \/ Disconnected
                \/ CauseRead \/ UrcRing \/ UrcConnected \/ EvStart \/ EvAck \/ EvTimeout
                \/ EvVoice \/ UrcIgnored \/ SosPressed \/ DialDurMsg \/ CcftMsg
             /\ current' = current
    <3>1. MsdStep
      BY <1>1, <2>4, MessageMsd
    <3> QED BY <1>1, <2>1, <2>4, <3>1, MsdStepKeeps DEF callerVars
  <2> QED BY <1>4, <2>2, <2>3, <2>4 DEF TaskStep
<1>5. CASE TimerStep
  <2>1. /\ Kept /\ UNCHANGED <<callerVars, current>>
        /\ answered' = answered + (Len(ecallQ') - Len(ecallQ))
    BY <1>2, <1>3, <1>5 DEF TimerStep
  <2>2. CASE FinishExpires \/ ToneEnds
    BY <1>1, <2>1, <2>2, ResultKeeps DEF callerVars
  <2>3. CASE DialDurExpires \/ \E t \in DOMAIN TimerMessage : TimerExpires(t)
    <3>1. MsdStep
      BY <1>1, <2>3, TimerMsd
    <3>2. answered' = answered
      <4>1. answered \in Nat /\ Len(ecallQ) \in Nat /\ ecallQ' = ecallQ
        BY <1>1, <3>1, HistoryTypes, ResultTypes, LenProperties DEF IsResults, MsdStep
      <4> QED BY <2>1, <4>1
    <3> QED BY <1>1, <2>1, <3>1, <3>2, MsdStepKeeps DEF callerVars
  <2> QED BY <1>5, <2>2, <2>3 DEF TimerStep, TimersNext
<1>6. CASE ModemStep
  <2>1. Kept /\ UNCHANGED <<callerVars, current, answered>> /\ ModemNext
    BY <1>2, <1>3, <1>6 DEF ModemStep
  <2> QED BY <1>1, <2>1, ModemMsd, MsdStepKeeps DEF callerVars
<1>7. CASE CallerNext
  <2>1. dropped = {}
    BY <1>2, <1>7 DEF CallerNext, CallerStarts, CallerStops, CallerStopped, CallerTakesResult,
                      SosButton
  <2> QED BY <1>1, <1>2, <1>3, <1>7, <2>1, CallerKeeps
<1>8. CASE UNCHANGED vars
  <2>1. UNCHANGED <<ea, eaQ, buf, tone, ecallQ, caller, calls, current, answered, dropped>>
    BY <1>8 DEF vars, eaVars
  <2>2. SameAsked(eaQ, eaQ')
    BY <2>1 DEF SameAsked
  <2> QED BY <1>1, <1>2, <1>3, <2>1, <2>2, CallUntouched, MsdStepKeeps
<1> QED BY <1>4, <1>5, <1>6, <1>7, <1>8 DEF Next

\* At boot nothing is asked for and nothing stored.
LEMMA InitKept ==
  ASSUME Init
  PROVE  KeptInv
<1>1. /\ ea.stopped /\ ~ea.urc_listening /\ ea.result_action = "SUCCESS"
      /\ tone = "none" /\ ecallQ = <<>> /\ eaQ = <<>> /\ buf = <<>>
      /\ caller = "idle" /\ calls = 0 /\ current = 0 /\ answered = 0
  BY DEF Init, EaInit
<1>2. Len(eaQ) = 0 /\ Len(buf) = 0 /\ Len(ecallQ) = 0
  BY <1>1
<1>3. Asked(eaQ) = {} /\ OnlyOne(eaQ) /\ NoInband(buf) /\ InbandIsLast(buf)
  BY <1>2 DEF Asked, OnlyOne, NoInband, InbandIsLast
<1>4. Accounted /\ ResultAgrees
  BY <1>1, <1>2, <1>3 DEF Accounted, ResultAgrees
<1>5. Stored
  BY <1>1, <1>3 DEF Stored, AskedStored, RunningStored, OverStored
<1> QED BY <1>4, <1>5 DEF KeptInv, Kept

\* The MSD of a call that is over is never lost before the platform has acknowledged it,
\* whatever the modem reports and whatever the user presses, for any number of calls and
\* any size of the mailbox: it waits in the storage under its number to be sent by SMS
\* (era_action.c:405-433, msd_storage.c:125-180).  The storage needs room for two, or the
\* MSD of the next call would push it out; MAX_NUMBER_MSD is 100 (app_cfg.h:64).
THEOREM UndeliveredAlwaysKept ==
  ASSUME MAX_NUMBER_MSD >= 2
  PROVE  Spec => []UndeliveredMsdKept
<1>1. Init => KeptInv
  BY InitKept
<1>2. IInv /\ KeptInv /\ [Next]_vars => KeptInv'
  BY NextKept
<1>3. IInv /\ KeptInv => UndeliveredMsdKept
  <2> SUFFICES ASSUME TypeOK, KeptInv, Clean, ea.stopped, current > 0, ea.event # "TEST",
                      ~ea.msd_decoded, ea.result_action # "MANUAL_CANCEL"
               PROVE  \E i \in 1..Len(buf) : buf[i] = [id |-> current, flag |-> "SMS"]
    BY DEF IInv, UndeliveredMsdKept, Clean
  <2>1. OverStored
    BY DEF KeptInv, Kept, Stored
  <2>2. CASE current = calls
    <3>1. Len(buf) > 0 /\ buf[Len(buf)].id = current /\ buf[Len(buf)].flag = "SMS"
      BY <2>1, <2>2 DEF OverStored, Newest
    <3>2. Len(buf) \in 1..Len(buf) /\ buf[Len(buf)] \in Records(1..MaxCalls)
      BY <3>1, EaTypes, ElementOfSeq, LenProperties DEF IsBuf
    <3>3. buf[Len(buf)] = [id |-> current, flag |-> "SMS"]
      BY <3>1, <3>2 DEF Records
    <3> QED BY <3>2, <3>3
  <2>3. CASE current # calls
    BY <2>1, <2>3 DEF OverStored
  <2> QED BY <2>2, <2>3
<1> QED BY <1>1, <1>2, <1>3, AlwaysIInv, PTL DEF Spec
=============================================================================
