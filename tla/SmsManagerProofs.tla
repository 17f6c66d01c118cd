--------------------------- MODULE SmsManagerProofs ---------------------------
(***************************************************************************)
(* The SMS task deletes only what it has sent or cannot encode, for every  *)
(* capacity of the storage, size of the mailbox and number of attempts, as *)
(* long as sendings do not overlap and no caller shifts the numbers.       *)
(*                                                                         *)
(* The number of an MSD outlives the handler that looked it up: it lies in *)
(* msd_n while the SMS is sent and while the result waits in the mailbox.  *)
(* SendingKnown and ResultFits say what it stands for on the way, and      *)
(* OneAnswer that there is one result to wait for.                         *)
(***************************************************************************)
EXTENDS SmsManager, MsdBufferProofs, TLAPS

Stored == Records(Nat \ {0})
Variables == [msd_n : Int, attempts : Int, stopped : BOOLEAN, started : BOOLEAN]

\* The types the proofs need.
SmsTypeOK ==
  /\ buf \in Seq(Stored) /\ Len(buf) <= MAX_NUMBER_MSD
  /\ smsQ \in Seq(Msgs)
  /\ sm \in Variables
  /\ phase \in Phases
  /\ msds \in Nat

\* The result of the sending is the only one in the mailbox.
NoAnswer == \A i \in 1..Len(smsQ) : smsQ[i] \notin Results
OneAnswer ==
  ~confused =>
    /\ \A i, j \in 1..Len(smsQ) : smsQ[i] \in Results /\ smsQ[j] \in Results => i = j
    /\ phase = "moved" => NoAnswer

\* What is being sent stands at the remembered number.
SendingKnown ==
  ~confused /\ phase = "sending" => sending = IdAt(buf, sm.msd_n) /\ NoAnswer

\* ... and so does what was sent, until its result is read.
ResultFits ==
  ~confused /\ phase \in {"ready", "check"} /\ (\E i \in 1..Len(smsQ) : smsQ[i] = "RESULT_OK")
    => IdAt(buf, sm.msd_n) \in sent \cup {0}

SmsInv == SmsTypeOK /\ OneAnswer /\ SendingKnown /\ ResultFits /\ DeletedWasSent

-----------------------------------------------------------------------------
(* Mailbox and storage.                                                    *)

\* Posting appends, or loses the message when the mailbox is full.
LEMMA PostedProperties ==
  ASSUME smsQ \in Seq(Msgs), NEW m \in Msgs
  PROVE  /\ Posted(m) \in Seq(Msgs)
         /\ Len(Posted(m)) \in {Len(smsQ), Len(smsQ) + 1}
         /\ \A i \in 1..Len(smsQ) : Posted(m)[i] = smsQ[i]
         /\ Len(Posted(m)) = Len(smsQ) + 1 => Posted(m)[Len(smsQ) + 1] = m
<1>1. CASE Len(smsQ) < SmsMbox
  BY <1>1 DEF Posted
<1>2. CASE ~(Len(smsQ) < SmsMbox)
  BY <1>2 DEF Posted
<1>. QED BY <1>1, <1>2

\* A message that is no result adds none.
LEMMA PostedNoResult ==
  ASSUME smsQ \in Seq(Msgs), NEW m \in Msgs \ Results, smsQ' = Posted(m)
  PROVE  /\ smsQ' \in Seq(Msgs)
         /\ \A i \in 1..Len(smsQ') :
              smsQ'[i] \in Results => i \in 1..Len(smsQ) /\ smsQ'[i] = smsQ[i]
  BY PostedProperties

\* Taking a message leaves the others.
LEMMA TakeProperties ==
  ASSUME smsQ \in Seq(Msgs), NEW m, Take(m)
  PROVE  /\ smsQ' \in Seq(Msgs) /\ Len(smsQ) > 0 /\ smsQ[1] = m
         /\ Len(smsQ') = Len(smsQ) - 1
         /\ \A i \in 1..Len(smsQ') : smsQ'[i] = smsQ[i + 1]
  BY DEF Take

\* The only result is the one that is taken.
LEMMA TakenWasLast ==
  ASSUME smsQ \in Seq(Msgs), NEW m \in Results, Take(m),
         \A i, j \in 1..Len(smsQ) : smsQ[i] \in Results /\ smsQ[j] \in Results => i = j
  PROVE  \A i \in 1..Len(smsQ') : smsQ'[i] \notin Results
<1>. SUFFICES ASSUME NEW i \in 1..Len(smsQ'), smsQ'[i] \in Results PROVE FALSE
  OBVIOUS
<1>1. i + 1 \in 1..Len(smsQ) /\ smsQ[i + 1] \in Results /\ 1 \in 1..Len(smsQ) /\ smsQ[1] \in Results
  BY TakeProperties
<1>. QED BY <1>1

\* Nothing stands at the number -1.
LEMMA NoneAtNoMsd ==
  ASSUME NEW b PROVE IdAt(b, NoMsd) = 0
  BY DEF IdAt, CanDelete, NoMsd

\* What is stored stays a storage.
LEMMA StorageType ==
  ASSUME SmsTypeOK
  PROVE  /\ \A n \in Int : /\ DeleteBuf(buf, n) \in Seq(Stored)
                          /\ Len(DeleteBuf(buf, n)) <= MAX_NUMBER_MSD
         /\ \A f \in Flags, g \in Flags : /\ MoveBuf(buf, f, g) \in Seq(Stored)
                                          /\ Len(MoveBuf(buf, f, g)) <= MAX_NUMBER_MSD
         /\ \A f \in Flags : FindNumb(buf, f) \in Int
<1>1. ASSUME NEW n \in Int
      PROVE  DeleteBuf(buf, n) \in Seq(Stored) /\ Len(DeleteBuf(buf, n)) <= MAX_NUMBER_MSD
  <2>1. buf \in Seq(Stored) /\ Len(buf) <= MAX_NUMBER_MSD
    BY DEF SmsTypeOK
  <2>2. /\ DeleteBuf(buf, n) \in Seq(Stored)
        /\ Len(DeleteBuf(buf, n)) = Len(buf) - 1 \/ DeleteBuf(buf, n) = buf
    BY <2>1, DeleteBufProperties
  <2>. QED BY <2>1, <2>2, MaxNumberAssumption
<1>2. ASSUME NEW f \in Flags, NEW g \in Flags
      PROVE  MoveBuf(buf, f, g) \in Seq(Stored) /\ Len(MoveBuf(buf, f, g)) <= MAX_NUMBER_MSD
  BY MoveBufProperties DEF SmsTypeOK, Stored
<1>3. ASSUME NEW f \in Flags PROVE FindNumb(buf, f) \in Int
  BY FindNumbProperties DEF SmsTypeOK, NoMsd
<1>. QED BY <1>1, <1>2, <1>3

-----------------------------------------------------------------------------
(* The callers.                                                            *)

\* A caller that shifts no number leaves what the task relies on.
LEMMA StoreKeeps ==
  ASSUME NEW b, Store(b), ~confused'
  PROVE  ~confused /\ IdAt(buf', sm.msd_n) = IdAt(buf, sm.msd_n)
  BY NoneAtNoMsd DEF Store, Shifts

\* What a caller does to the storage and the mailbox.
LEMMA CallersStep ==
  ASSUME SmsTypeOK, CallersNext
  PROVE  /\ smsQ' \in Seq(Msgs) /\ buf' \in Seq(Stored) /\ Len(buf') <= MAX_NUMBER_MSD
         /\ msds' \in Nat
         /\ \A i \in 1..Len(smsQ') :
              smsQ'[i] \in Results => i \in 1..Len(smsQ) /\ smsQ'[i] = smsQ[i]
         /\ ~confused' => ~confused /\ IdAt(buf', sm.msd_n) = IdAt(buf, sm.msd_n)
<1>. DEFINE Queue == /\ smsQ' \in Seq(Msgs)
                     /\ \A i \in 1..Len(smsQ') : smsQ'[i] \in Results
                                                  => i \in 1..Len(smsQ) /\ smsQ'[i] = smsQ[i]
            Storage == buf' \in Seq(Stored) /\ Len(buf') <= MAX_NUMBER_MSD
            Numbers == ~confused' => ~confused /\ IdAt(buf', sm.msd_n) = IdAt(buf, sm.msd_n)
<1>0. /\ smsQ \in Seq(Msgs) /\ buf \in Seq(Stored) /\ Len(buf) <= MAX_NUMBER_MSD /\ msds \in Nat
      /\ "INBAND" \in Flags /\ "SMS" \in Flags /\ {"STOP", "SEND_ALL"} \subseteq Msgs \ Results
  BY DEF SmsTypeOK, Flags, Msgs, Results
<1>a. UNCHANGED <<buf, confused>> => Storage /\ Numbers
  BY <1>0
<1>b. UNCHANGED smsQ => Queue
  BY <1>0
<1>c. \A m \in {"STOP", "SEND_ALL"} : smsQ' = Posted(m) => Queue
  BY <1>0, PostedNoResult
<1>1. CASE CallStarts
  BY <1>0, <1>1, <1>a, <1>c DEF CallStarts
<1>2. CASE CallSaves
  <2>. DEFINE r == [id |-> msds + 1, flag |-> "INBAND"]
  <2>1. r \in Stored
    BY <1>0 DEF Stored, Records
  <2>. HIDE DEF r
  <2>2. SaveBuf(buf, r) \in Seq(Stored) /\ Len(SaveBuf(buf, r)) <= MAX_NUMBER_MSD
    BY <1>0, <2>1, SaveBufProperties
  <2>3. Store(SaveBuf(buf, r)) /\ msds' = msds + 1 /\ UNCHANGED smsQ
    BY <1>2 DEF CallSaves, r
  <2>. QED BY <1>0, <1>b, <2>2, <2>3, StoreKeeps DEF Store
<1>3. CASE HandsOver
  BY <1>0, <1>3, <1>c, StoreKeeps, StorageType DEF HandsOver, Store
<1>4. CASE CallEnds
  <2>1. CASE \/ Store(DeleteBuf(buf, FindNumb(buf, "INBAND")))
             \/ Store(MoveBuf(buf, "INBAND", "SMS"))
    BY <1>0, <1>4, <1>b, <2>1, StoreKeeps, StorageType DEF CallEnds, Store
  <2>2. CASE UNCHANGED <<buf, confused>>
    BY <1>0, <1>4, <1>a, <1>b, <2>2 DEF CallEnds
  <2>. QED BY <1>4, <2>1, <2>2 DEF CallEnds
<1>5. CASE CallFinishes
  BY <1>0, <1>5, <1>a, <1>c DEF CallFinishes
<1>6. CASE CallDeletes
  BY <1>0, <1>6, <1>b, StoreKeeps, StorageType DEF CallDeletes, Store
<1>7. CASE Wipe
  <2>1. <<>> \in Seq(Stored) /\ Len(<<>>) <= MAX_NUMBER_MSD
    BY MaxNumberAssumption
  <2>. QED BY <1>0, <1>7, <1>b, <2>1, StoreKeeps DEF Wipe, Store
<1>. QED BY <1>1, <1>2, <1>3, <1>4, <1>5, <1>6, <1>7 DEF CallersNext

\* The callers keep the invariant.
LEMMA CallersKeep ==
  ASSUME SmsInv, CallersNext PROVE SmsInv'
<1>1. UNCHANGED <<sm, phase, sending, sent, lost>>
  BY DEF CallersNext
<1>2. /\ smsQ' \in Seq(Msgs) /\ buf' \in Seq(Stored) /\ Len(buf') <= MAX_NUMBER_MSD
      /\ msds' \in Nat
      /\ \A i \in 1..Len(smsQ') :
              smsQ'[i] \in Results => i \in 1..Len(smsQ) /\ smsQ'[i] = smsQ[i]
      /\ ~confused' => ~confused /\ IdAt(buf', sm.msd_n) = IdAt(buf, sm.msd_n)
  BY CallersStep DEF SmsInv
<1>3. SmsTypeOK'
  BY <1>1, <1>2 DEF SmsInv, SmsTypeOK
<1>4. OneAnswer'
  BY <1>1, <1>2 DEF SmsInv, OneAnswer, NoAnswer
<1>5. ASSUME ~confused'
      PROVE  sm'.msd_n = sm.msd_n /\ IdAt(buf', sm'.msd_n) = IdAt(buf, sm.msd_n)
  BY <1>1, <1>2, <1>5
<1>6. (IdAt(buf, sm.msd_n))' = IdAt(buf', sm'.msd_n)
  BY DEF IdAt, CanDelete
<1>7. SendingKnown'
  BY <1>1, <1>2, <1>5, <1>6 DEF SmsInv, SendingKnown, NoAnswer
<1>8. ResultFits'
  BY <1>1, <1>2, <1>5, <1>6 DEF SmsInv, ResultFits, Results
<1>9. DeletedWasSent'
  BY <1>1, <1>2 DEF SmsInv, DeletedWasSent
<1>. QED BY <1>3, <1>4, <1>7, <1>8, <1>9 DEF SmsInv

-----------------------------------------------------------------------------
(* The SMS task.                                                           *)

\* Steps of the task that leave storage, record and marks alone and read a message that is
\* no result.
LEMMA NoResultTaken ==
  ASSUME smsQ \in Seq(Msgs), NEW m \in Msgs \ Results, Take(m)
  PROVE  \A i \in 1..Len(smsQ') : smsQ'[i] \in Results
           => i + 1 \in 1..Len(smsQ) /\ smsQ'[i] = smsQ[i + 1]
  BY TakeProperties

\* What the task does to its static variables.
LEMMA OneVariable ==
  ASSUME NEW s \in Variables
  PROVE  /\ \A n \in Int : /\ [s EXCEPT !.msd_n = n] \in Variables
                          /\ [s EXCEPT !.attempts = n] \in Variables
         /\ [s EXCEPT !.stopped = TRUE] \in Variables
         /\ [s EXCEPT !.stopped = TRUE].msd_n = s.msd_n
  BY DEF Variables

\* The types hold after every step of the task.
LEMMA TaskTypes ==
  ASSUME SmsTypeOK, SmsTask \/ TransmExpires, UNCHANGED <<callerVars, vinOk>>
  PROVE  SmsTypeOK'
<1>0. /\ smsQ \in Seq(Msgs) /\ buf \in Seq(Stored) /\ Len(buf) <= MAX_NUMBER_MSD /\ msds \in Nat
      /\ sm \in Variables
      /\ sm.msd_n \in Int /\ phase \in Phases
      /\ "SAVED" \in Flags /\ "SMS" \in Flags /\ NoMsd \in Int /\ msds' \in Nat
  BY DEF SmsTypeOK, Flags, NoMsd, callerVars, Variables
<1>a. FindNumb(buf, "SMS") \in Int
  BY <1>0, StorageType
<1>b. \A n \in Int : DeleteBuf(buf, n) \in Seq(Stored) /\ Len(DeleteBuf(buf, n)) <= MAX_NUMBER_MSD
  BY StorageType
<1>1. CASE TakeSendAll
  BY <1>0, <1>1, TakeProperties DEF TakeSendAll, SmsTypeOK, Phases, Msgs, Variables
<1>2. CASE Check
  <2>1. UNCHANGED <<buf, smsQ>> /\ phase' \in Phases
    BY <1>2 DEF Check, Phases
  <2>2. sm' \in Variables
    <3>1. \/ UNCHANGED sm
          \/ sm' = [[sm EXCEPT !.stopped = TRUE] EXCEPT !.msd_n = NoMsd]
          \/ sm' = [[sm EXCEPT !.msd_n = FindNumb(buf, "SMS")] EXCEPT !.attempts = 0]
      BY <1>2 DEF Check
    <3>2. \A n \in Int : [[sm EXCEPT !.stopped = TRUE] EXCEPT !.msd_n = n] \in Variables
      <4>1. [sm EXCEPT !.stopped = TRUE] \in Variables
        BY <1>0, OneVariable
      <4>. QED BY <4>1, OneVariable
    <3>3. ASSUME NEW n \in Int PROVE [[sm EXCEPT !.msd_n = n] EXCEPT !.attempts = 0] \in Variables
      <4>. DEFINE t == [sm EXCEPT !.msd_n = n]
      <4>1. t \in Variables
        BY <1>0, OneVariable
      <4>. HIDE DEF t
      <4>2. [t EXCEPT !.attempts = 0] \in Variables
        BY <4>1, OneVariable DEF Variables
      <4>. QED BY <4>2 DEF t
    <3>. QED BY <1>0, <1>a, <3>1, <3>2, <3>3
  <2>. QED BY <1>0, <2>1, <2>2 DEF SmsTypeOK
<1>3. CASE Prepare
  BY <1>0, <1>b, <1>3 DEF Prepare, DeleteRemembered, SmsTypeOK, Phases
<1>4. CASE SendingReturns
  BY <1>0, <1>4, PostedProperties DEF SendingReturns, SmsTypeOK, Phases, Msgs
<1>5. CASE NoPdu
  BY <1>0, <1>5 DEF NoPdu, SmsTypeOK, Phases
<1>6. CASE TakeResultOk
  <2>1. smsQ' \in Seq(Msgs) /\ phase = "ready"
    BY <1>0, <1>6, TakeProperties DEF TakeResultOk, Take
  <2>2. buf' \in Seq(Stored) /\ Len(buf') <= MAX_NUMBER_MSD
    BY <1>0, <1>b, <1>6 DEF TakeResultOk, DeleteRemembered
  <2>3. phase' \in Phases
           /\ sm' \in Variables
    BY <1>0, <1>6 DEF TakeResultOk, Finish, Phases, Variables
  <2>. QED BY <1>0, <2>1, <2>2, <2>3 DEF SmsTypeOK
<1>7. CASE TakeResultFail
  <2>1. smsQ' \in Seq(Msgs) /\ phase = "ready"
    BY <1>0, <1>7, TakeProperties DEF TakeResultFail, Take
  <2>2. buf' \in Seq(Stored) /\ Len(buf') <= MAX_NUMBER_MSD
    BY <1>0, <1>7, StorageType DEF TakeResultFail
  <2>3. phase' \in Phases
           /\ sm' \in Variables
    <3>1. sm' = [sm EXCEPT !.attempts = (@ + 1) % 256] /\ (phase' = "moved" \/ phase' = phase)
      BY <1>7 DEF TakeResultFail
    <3>2. (sm.attempts + 1) % 256 \in Int
      BY <1>0 DEF Variables
    <3>. QED BY <1>0, <3>1, <3>2, OneVariable DEF Phases
  <2>. QED BY <1>0, <2>1, <2>2, <2>3 DEF SmsTypeOK
<1>8. CASE AfterMove
  <2>1. UNCHANGED <<buf, smsQ>> /\ phase' \in Phases
    BY <1>8 DEF AfterMove, Phases
  <2>2. sm' \in Variables
    <3>1. \/ UNCHANGED sm
          \/ \E n \in Int : \/ sm' = [[sm EXCEPT !.msd_n = n] EXCEPT !.stopped = TRUE]
                           \/ sm' = [sm EXCEPT !.msd_n = n]
                           \/ sm' = [[sm EXCEPT !.msd_n = n] EXCEPT !.attempts = 0]
      BY <1>a, <1>8 DEF AfterMove
    <3>2. ASSUME NEW n \in Int
          PROVE  /\ [sm EXCEPT !.msd_n = n] \in Variables
                 /\ [[sm EXCEPT !.msd_n = n] EXCEPT !.stopped = TRUE] \in Variables
                 /\ [[sm EXCEPT !.msd_n = n] EXCEPT !.attempts = 0] \in Variables
      <4>. DEFINE t == [sm EXCEPT !.msd_n = n]
      <4>1. t \in Variables
        BY <1>0, OneVariable
      <4>. HIDE DEF t
      <4>2. [t EXCEPT !.stopped = TRUE] \in Variables /\ [t EXCEPT !.attempts = 0] \in Variables
        BY <4>1, OneVariable DEF Variables
      <4>. QED BY <4>1, <4>2 DEF t
    <3>. QED BY <1>0, <3>1, <3>2
  <2>. QED BY <1>0, <2>1, <2>2 DEF SmsTypeOK
<1>9. CASE TakeTransm
  BY <1>0, <1>9, TakeProperties DEF TakeTransm, SmsTypeOK, Phases, Msgs
<1>10. CASE TakeStop
  BY <1>0, <1>10, TakeProperties DEF TakeStop, SmsTypeOK, Msgs, Variables
<1>11. CASE TransmExpires
  BY <1>0, <1>11, PostedProperties DEF TransmExpires, SmsTypeOK, Msgs
<1>. QED BY <1>1, <1>2, <1>3, <1>4, <1>5, <1>6, <1>7, <1>8, <1>9, <1>10, <1>11 DEF SmsTask

\* There is one result at most, and none while an MSD is moved.
LEMMA TaskOneAnswer ==
  ASSUME SmsInv, SmsTask \/ TransmExpires PROVE OneAnswer'
<1>. SUFFICES ASSUME ~confused'
              PROVE  /\ (\A i, j \in 1..Len(smsQ) :
                          smsQ[i] \in Results /\ smsQ[j] \in Results => i = j)'
                     /\ (phase = "moved" => NoAnswer)'
  BY DEF OneAnswer
<1>0. /\ smsQ \in Seq(Msgs) /\ {"TRANSM", "STOP", "SEND_ALL"} \subseteq Msgs \ Results
      /\ Results \subseteq Msgs /\ {"RESULT_OK", "RESULT_FAIL"} = Results
  BY DEF SmsInv, SmsTypeOK, Msgs, Results
<1>a. ~confused
  BY DEF SmsTask, TakeSendAll, Check, Prepare, SendingReturns, NoPdu, TakeResultOk, TakeResultFail,
         AfterMove, TakeTransm, TakeStop, TransmExpires
<1>b. /\ \A i, j \in 1..Len(smsQ) : smsQ[i] \in Results /\ smsQ[j] \in Results => i = j
      /\ phase = "moved" => NoAnswer
      /\ phase = "sending" => NoAnswer
  BY <1>a DEF SmsInv, OneAnswer, SendingKnown
<1>1. CASE Check \/ Prepare \/ NoPdu \/ AfterMove
  <2>1. UNCHANGED smsQ /\ phase' # "moved"
    BY <1>1 DEF Check, Prepare, NoPdu, AfterMove
  <2>. QED BY <2>1, <1>b
<1>2. CASE TakeSendAll \/ TakeTransm \/ TakeStop
  <2>1. (\E m \in Msgs \ Results : Take(m)) /\ phase' # "moved"
    BY <1>0, <1>2 DEF TakeSendAll, TakeTransm, TakeStop, Take
  <2>2. PICK m \in Msgs \ Results : Take(m)
    BY <2>1
  <2>. QED BY <1>0, <1>b, <2>1, <2>2, NoResultTaken
<1>3. CASE TakeResultOk \/ TakeResultFail
  <2>1. PICK m \in Results : Take(m)
    BY <1>0, <1>3 DEF TakeResultOk, TakeResultFail
  <2>. QED BY <1>0, <1>b, <2>1, TakenWasLast DEF NoAnswer
<1>4. CASE SendingReturns
  <2>1. phase' = "ready" /\ NoAnswer /\ \E m \in Results : smsQ' = Posted(m)
    BY <1>0, <1>4, <1>b DEF SendingReturns
  <2>2. PICK m \in Results : smsQ' = Posted(m)
    BY <2>1
  <2>3. \A i \in 1..Len(smsQ') : smsQ'[i] \in Results => i = Len(smsQ) + 1
    <3>1. /\ Len(Posted(m)) \in {Len(smsQ), Len(smsQ) + 1}
          /\ \A i \in 1..Len(smsQ) : Posted(m)[i] = smsQ[i]
      BY <1>0, PostedProperties
    <3>. QED BY <1>0, <2>1, <2>2, <3>1 DEF NoAnswer
  <2>. QED BY <2>1, <2>3
<1>5. CASE TransmExpires
  BY <1>0, <1>5, <1>b, PostedNoResult DEF TransmExpires
<1>. QED BY <1>1, <1>2, <1>3, <1>4, <1>5 DEF SmsTask

\* A sending begins with the MSD that stands at the remembered number.
LEMMA TaskSendingKnown ==
  ASSUME SmsInv, SmsTask \/ TransmExpires PROVE SendingKnown'
<1>. SUFFICES ASSUME ~confused', phase' = "sending"
              PROVE  sending' = IdAt(buf', sm'.msd_n) /\ NoAnswer'
  BY DEF SendingKnown, IdAt, CanDelete
<1>1. Prepare
  BY DEF SmsTask, TakeSendAll, Check, SendingReturns, NoPdu, TakeResultOk, TakeResultFail, Finish,
         AfterMove, TakeTransm, TakeStop, TransmExpires, Take
<1>2. ~Confuses /\ UNCHANGED <<smsQ, sm, buf>> /\ sending' = IdAt(buf, FindNumb(buf, "SMS"))
  BY <1>1 DEF Prepare
<1>3. sm.msd_n = FindNumb(buf, "SMS") /\ NoAnswer
  BY <1>2 DEF Confuses, NoAnswer
<1>. QED BY <1>2, <1>3 DEF NoAnswer

\* The result finds the number of what was sent.
LEMMA TaskResultFits ==
  ASSUME SmsInv, SmsTask \/ TransmExpires PROVE ResultFits'
<1>. SUFFICES ASSUME ~confused', phase' \in {"ready", "check"},
                     NEW i \in 1..Len(smsQ'), smsQ'[i] = "RESULT_OK"
              PROVE  IdAt(buf', sm'.msd_n) \in sent' \cup {0}
  BY DEF ResultFits, IdAt, CanDelete
<1>0. /\ smsQ \in Seq(Msgs) /\ {"TRANSM", "STOP", "SEND_ALL"} \subseteq Msgs \ Results
      /\ Results \subseteq Msgs /\ {"RESULT_OK", "RESULT_FAIL"} = Results
  BY DEF SmsInv, SmsTypeOK, Msgs, Results
<1>a. ~confused
  BY DEF SmsTask, TakeSendAll, Check, Prepare, SendingReturns, NoPdu, TakeResultOk, TakeResultFail,
         AfterMove, TakeTransm, TakeStop, TransmExpires
<1>b. /\ \A j, k \in 1..Len(smsQ) : smsQ[j] \in Results /\ smsQ[k] \in Results => j = k
      /\ phase = "moved" => NoAnswer
      /\ phase = "sending" => sending = IdAt(buf, sm.msd_n) /\ NoAnswer
      /\ phase \in {"ready", "check"} /\ (\E j \in 1..Len(smsQ) : smsQ[j] = "RESULT_OK")
           => IdAt(buf, sm.msd_n) \in sent \cup {0}
  BY <1>a DEF SmsInv, OneAnswer, SendingKnown, ResultFits
<1>1. CASE TakeSendAll
  BY <1>1, NoneAtNoMsd DEF TakeSendAll, SmsInv, SmsTypeOK
<1>2. CASE Check
  <2>1. UNCHANGED <<buf, smsQ, sent>> /\ (UNCHANGED sm \/ sm'.msd_n = NoMsd)
    BY <1>2 DEF Check, SmsInv, SmsTypeOK, Variables
  <2>. QED BY <1>b, <1>2, <2>1, NoneAtNoMsd DEF Check
<1>3. CASE Prepare
  BY <1>0, <1>3 DEF Prepare, Confuses
<1>4. CASE SendingReturns
  <2>1. /\ sending = IdAt(buf, sm.msd_n) /\ NoAnswer /\ UNCHANGED <<buf, sm>>
        /\ \/ smsQ' = Posted("RESULT_OK") /\ sent' = sent \cup {sending}
           \/ smsQ' = Posted("RESULT_FAIL")
    BY <1>4, <1>b DEF SendingReturns
  <2>2. ASSUME smsQ' = Posted("RESULT_FAIL") PROVE FALSE
    <3>1. i \in 1..Len(smsQ) \/ i = Len(smsQ) + 1
      BY <1>0, <2>2, PostedProperties
    <3>. QED BY <1>0, <2>1, <2>2, <3>1, PostedProperties DEF NoAnswer
  <2>. QED BY <2>1, <2>2
<1>5. CASE NoPdu
  BY <1>0, <1>5, <1>b DEF NoPdu, NoAnswer
<1>6. CASE TakeResultOk \/ TakeResultFail
  <2>1. PICK m \in Results : Take(m)
    BY <1>0, <1>6 DEF TakeResultOk, TakeResultFail
  <2>. QED BY <1>0, <1>b, <2>1, TakenWasLast
<1>7. CASE AfterMove
  BY <1>0, <1>7, <1>b DEF AfterMove, NoAnswer
<1>8. CASE TakeTransm
  BY <1>8 DEF TakeTransm
<1>9. CASE TakeStop
  <2>1. UNCHANGED <<buf, sent>> /\ sm'.msd_n = sm.msd_n /\ phase = "ready"
    BY <1>9 DEF TakeStop, Take, SmsInv, SmsTypeOK, Variables
  <2>2. i + 1 \in 1..Len(smsQ) /\ smsQ[i + 1] = "RESULT_OK"
    BY <1>0, <1>9, NoResultTaken DEF TakeStop
  <2>. QED BY <1>b, <2>1, <2>2
<1>10. CASE TransmExpires
  <2>1. UNCHANGED <<buf, sent, sm>> /\ phase = "ready"
    BY <1>10 DEF TransmExpires
  <2>2. i \in 1..Len(smsQ) /\ smsQ[i] = "RESULT_OK"
    BY <1>0, <1>10, PostedNoResult DEF TransmExpires
  <2>. QED BY <1>b, <2>1, <2>2
<1>. QED BY <1>1, <1>2, <1>3, <1>4, <1>5, <1>6, <1>7, <1>8, <1>9, <1>10 DEF SmsTask

\* The task deletes two times: what it has sent, and what it cannot encode.
LEMMA TaskLosesNothing ==
  ASSUME SmsInv, SmsTask \/ TransmExpires PROVE DeletedWasSent'
<1>. SUFFICES ASSUME ~confused' PROVE lost' = {}
  BY DEF DeletedWasSent
<1>a. ~confused
  BY DEF SmsTask, TakeSendAll, Check, Prepare, SendingReturns, NoPdu, TakeResultOk, TakeResultFail,
         AfterMove, TakeTransm, TakeStop, TransmExpires
<1>b. lost = {}
  BY <1>a DEF SmsInv, DeletedWasSent
<1>1. CASE UNCHANGED lost
  BY <1>1, <1>b
<1>2. CASE Prepare
  <2>1. sm.msd_n = FindNumb(buf, "SMS")
    BY <1>2 DEF Prepare, Confuses
  <2>. QED BY <1>b, <1>2, <2>1 DEF Prepare, DeleteRemembered
<1>3. CASE TakeResultOk
  <2>1. smsQ[1] = "RESULT_OK" /\ 1 \in 1..Len(smsQ) /\ phase = "ready"
    BY <1>3, TakeProperties DEF TakeResultOk, Take, SmsInv, SmsTypeOK
  <2>2. IdAt(buf, sm.msd_n) \in sent \cup {0}
    BY <1>a, <2>1 DEF SmsInv, ResultFits
  <2>3. lost' = lost \cup ({IdAt(buf, sm.msd_n)} \ (sent \cup {} \cup {0}))
    BY <1>3 DEF TakeResultOk, DeleteRemembered
  <2>. QED BY <1>b, <2>2, <2>3
<1>. QED BY <1>1, <1>2, <1>3 DEF SmsTask, TakeSendAll, Check, SendingReturns, NoPdu, TakeResultFail,
                                 AfterMove, TakeTransm, TakeStop, TransmExpires

-----------------------------------------------------------------------------
LEMMA SmsInvInit == SmsInit => SmsInv
<1>. SUFFICES ASSUME SmsInit PROVE SmsInv
  OBVIOUS
<1>1. buf \in Seq(Stored) /\ Len(buf) <= MAX_NUMBER_MSD
  <2>1. CASE buf = <<>>
    BY <2>1, MaxNumberAssumption
  <2>2. ASSUME NEW f \in {"SMS", "SAVED"}, buf = <<[id |-> MaxMsds + 1, flag |-> f]>>
        PROVE  buf \in Seq(Stored) /\ Len(buf) <= MAX_NUMBER_MSD
    <3>1. [id |-> MaxMsds + 1, flag |-> f] \in Stored
      BY SmsAssumption DEF Stored, Records, Flags
    <3>. QED BY <2>2, <3>1, MaxNumberAssumption
  <2>. QED BY <2>1, <2>2 DEF SmsInit
<1>2. /\ smsQ = <<>> /\ phase = "ready" /\ msds = 0 /\ lost = {}
      /\ sm \in Variables
  BY DEF SmsInit, NoMsd, Variables
<1>3. smsQ \in Seq(Msgs) /\ Len(smsQ) = 0
  BY <1>2
<1>. QED BY <1>1, <1>2, <1>3 DEF SmsInv, SmsTypeOK, Phases, OneAnswer, SendingKnown, ResultFits,
                                 DeletedWasSent

LEMMA SmsInvStep == SmsInv /\ [SmsNext]_smsVars => SmsInv'
<1>. SUFFICES ASSUME SmsInv, [SmsNext]_smsVars PROVE SmsInv'
  OBVIOUS
<1>1. CASE CallersNext
  BY <1>1, CallersKeep
<1>2. CASE (SmsTask \/ TransmExpires) /\ UNCHANGED <<callerVars, vinOk>>
  BY <1>2, TaskTypes, TaskOneAnswer, TaskSendingKnown, TaskResultFits, TaskLosesNothing DEF SmsInv
<1>3. CASE UNCHANGED smsVars
  <2>1. UNCHANGED <<buf, smsQ, sm, phase, sending, msds, sent, lost, confused>>
    BY <1>3 DEF smsVars
  <2>. QED BY <2>1 DEF SmsInv, SmsTypeOK, OneAnswer, NoAnswer, SendingKnown, ResultFits,
                       DeletedWasSent, IdAt, CanDelete
<1>. QED BY <1>1, <1>2, <1>3 DEF SmsNext

\* What the SMS task deletes was sent or cannot be encoded, for every capacity, mailbox and
\* number of attempts, as long as sendings do not overlap and no caller shifts the numbers.
THEOREM DeletedWasAlwaysSent == SmsSpec => []DeletedWasSent
<1>1. SmsInv => DeletedWasSent
  BY DEF SmsInv
<1>. QED BY <1>1, SmsInvInit, SmsInvStep, PTL DEF SmsSpec
=============================================================================
