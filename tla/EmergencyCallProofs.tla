------------------------ MODULE EmergencyCallProofs ------------------------
(***************************************************************************)
(* Proofs about EmergencyCall.tla, for every instance in which no command  *)
(* stops a call: ECALL and ERA_ACTION agree on the one call there is, the  *)
(* unit waits for the operator only between calls, and the MSD of the call *)
(* that is being made stays in the storage.                                *)
(*                                                                         *)
(* A call is always in exactly one place.  While ECALL prepares it, that   *)
(* is a prompt being played or a thread on its way to ERA_ACTION           *)
(* (OnePrepared); once it is made, that is a stage of ERA_ACTION, one of   *)
(* the mailboxes, or a thread about to finish it (OneMade).  Its MSD is    *)
(* there from starting_continue on, or from the request on when the call   *)
(* was interrupted by a restart (MsdThere).                                *)
(***************************************************************************)
EXTENDS EmergencyCall, MsdBufferProofs

----------------------------------------------------------------------------
(* The messages in a mailbox.                                              *)

Marks(q, ev) == {i \in 1..Len(q) : q[i].ev = ev}

LEMMA CountNat ==
  ASSUME NEW S, NEW q \in Seq(S), NEW ev
  PROVE  IsFiniteSet(Marks(q, ev)) /\ Count(q, ev) \in Nat /\ Count(q, ev) = Cardinality(Marks(q, ev))
<1>1. IsFiniteSet(1..Len(q)) /\ Marks(q, ev) \subseteq 1..Len(q)
  BY FS_Interval DEF Marks
<1>2. IsFiniteSet(Marks(q, ev))
  BY <1>1, FS_Subset
<1>3. Count(q, ev) = Cardinality(Marks(q, ev))
  BY DEF Count, Marks
<1>. QED BY <1>2, <1>3, FS_CardinalityType

LEMMA CountEmpty ==
  ASSUME NEW ev
  PROVE  Count(<<>>, ev) = 0
<1>1. {i \in 1..Len(<<>>) : <<>>[i].ev = ev} = {}
  OBVIOUS
<1>. QED BY <1>1, FS_EmptySet DEF Count

LEMMA CountAppend ==
  ASSUME NEW S, NEW q \in Seq(S), NEW m \in S, NEW ev
  PROVE  Count(Append(q, m), ev) = Count(q, ev) + (IF m.ev = ev THEN 1 ELSE 0)
<1>. DEFINE a == Append(q, m)
            n == Len(q)
<1>1. n \in Nat /\ Len(a) = n + 1 /\ a[n + 1] = m /\ \A i \in 1..n : a[i] = q[i]
  OBVIOUS
<1>2. a \in Seq(S)
  OBVIOUS
<1>3. n + 1 \notin Marks(q, ev)
  BY <1>1 DEF Marks
<1>. HIDE DEF a, n
<1>a. Count(a, ev) = Cardinality(Marks(a, ev))
  BY <1>2, CountNat
<1>b. IsFiniteSet(Marks(q, ev)) /\ Count(q, ev) = Cardinality(Marks(q, ev)) /\ Count(q, ev) \in Nat
  BY CountNat
<1>4. CASE m.ev = ev
  <2>1. Marks(a, ev) = Marks(q, ev) \cup {n + 1}
    BY <1>1, <1>4 DEF Marks, n
  <2>2. Cardinality(Marks(q, ev) \cup {n + 1}) = Cardinality(Marks(q, ev)) + 1
    BY <1>3, <1>b, FS_AddElement
  <2>. QED BY <1>4, <1>a, <1>b, <2>1, <2>2 DEF a
<1>5. CASE m.ev # ev
  <2>1. Marks(a, ev) = Marks(q, ev)
    BY <1>1, <1>5 DEF Marks, n
  <2>. QED BY <1>5, <1>a, <1>b, <2>1 DEF a
<1>. QED BY <1>4, <1>5

LEMMA CountTail ==
  ASSUME NEW S, NEW q \in Seq(S), q # <<>>, NEW ev
  PROVE  Count(Tail(q), ev) = Count(q, ev) - (IF Head(q).ev = ev THEN 1 ELSE 0)
<1>. DEFINE r == Tail(q)
            n == Len(q)
            f == [i \in Marks(r, ev) |-> i + 1]
            Moved == Marks(q, ev) \ {1}
<1>1. /\ n \in Nat /\ n > 0 /\ r \in Seq(S) /\ Len(r) = n - 1 /\ q[1] = Head(q)
      /\ \A i \in 1..(n - 1) : r[i] = q[i + 1]
  OBVIOUS
<1>. HIDE DEF r, n
<1>2. \A i \in Marks(r, ev) : i \in 1..(n - 1) /\ i + 1 \in Moved
  BY <1>1 DEF Marks, n
<1>3. \A j \in Moved : j \in 2..n /\ j - 1 \in Marks(r, ev)
  BY <1>1 DEF Marks, n
<1>4. f \in Bijection(Marks(r, ev), Moved)
  <2>1. f \in [Marks(r, ev) -> Moved]
    BY <1>2
  <2>2. \A i, j \in Marks(r, ev) : f[i] = f[j] => i = j
    BY <1>2
  <2>3. \A j \in Moved : \E i \in Marks(r, ev) : f[i] = j
    <3>1. TAKE j \in Moved
    <3>2. j - 1 \in Marks(r, ev) /\ j \in Int
      BY <1>3
    <3>3. f[j - 1] = j
      BY <3>2
    <3>. QED BY <3>2, <3>3
  <2>. HIDE DEF f
  <2>4. IsInjective(f)
    BY <2>1, <2>2 DEF IsInjective
  <2>. QED BY <2>1, <2>3, <2>4 DEF Bijection, Injection, Surjection
<1>5. Cardinality(Moved) = Cardinality(Marks(r, ev))
  <2>1. ExistsBijection(Marks(r, ev), Moved)
    BY <1>4 DEF ExistsBijection
  <2>2. IsFiniteSet(Marks(r, ev))
    BY <1>1, CountNat
  <2>. QED BY <2>1, <2>2, FS_Bijection
<1>6. Cardinality(Moved) = Count(q, ev) - (IF 1 \in Marks(q, ev) THEN 1 ELSE 0)
  <2>1. IsFiniteSet(Marks(q, ev)) /\ Count(q, ev) = Cardinality(Marks(q, ev)) /\ Count(q, ev) \in Nat
    BY CountNat
  <2>2. Cardinality(Moved) = IF 1 \in Marks(q, ev) THEN Cardinality(Marks(q, ev)) - 1
                             ELSE Cardinality(Marks(q, ev))
    BY <2>1, FS_RemoveElement
  <2>. QED BY <2>1, <2>2
<1>7. 1 \in Marks(q, ev) <=> Head(q).ev = ev
  BY <1>1 DEF Marks, n
<1>8. Count(r, ev) = Cardinality(Marks(r, ev))
  BY <1>1, CountNat
<1>. QED BY <1>5, <1>6, <1>7, <1>8 DEF r

----------------------------------------------------------------------------
(* The invariant.                                                          *)

NobodyMayStop == "FORCED_STOP" \notin Inputs

\* What the variables hold when no order to stop is about.
Results == Endings \cup FinishResults \cup {"none"}
Marked == Contexts \cup {"none"}
Kinds == AllInputs \cup {"START", "ERA_A_CALLBACK"}
Messages == [ev : Kinds \ {"FORCED_STOP"}, arg : Events \cup Origins \cup Results]
ThreadStates == [at : Places, ctx : Marked, res : Results]
Tones == [ctx : Marked, res : Results]
EcallStates ==
  [step : {"IDLE", "PREPARE", "CALLING"}, stopped : BOOLEAN, event : Events, resumed : BOOLEAN,
   sos_pressed : BOOLEAN, auto_answer : BOOLEAN, incoming_call : BOOLEAN,
   urc_listening : BOOLEAN, sms_ecall_request : BOOLEAN, mode : {"ERA", "ECALL", "TEST"},
   callback : {"none", "tester"}]

EcallTypes == ec \in EcallStates /\ th \in [Threads -> ThreadStates] /\ playing \in Tones
ServiceTypes ==
  /\ inbox \in Seq(Messages) /\ ecallQ \in Seq(Messages)
  /\ running \in BOOLEAN /\ closing \in BOOLEAN
  /\ result \in Results /\ result # "none" /\ tone \in Results

LEMMA Senders ==
  /\ \A e \in Events, o \in Origins : Request(e, o) \in Messages /\ Request(e, o).ev = e
  /\ \A k \in UrcKinds \cup {"SOS_PRESSED", "SMS_REQUEST", "SMS_SENT", "DEREGISTRATION"} :
       Plain(k) \in Messages /\ Plain(k).ev = k
  /\ \A e \in Events : StartMsg(e) \in Messages /\ StartMsg(e).ev = "START"
  /\ \A r \in Results : ResultMsg(r) \in Messages /\ ResultMsg(r).ev = "ERA_A_CALLBACK"
<1>1. Events \cup UrcKinds \cup {"SOS_PRESSED", "SMS_REQUEST", "SMS_SENT", "DEREGISTRATION", "START",
       "ERA_A_CALLBACK"} \subseteq Kinds \ {"FORCED_STOP"}
  BY DEF Kinds, AllInputs, Events, UrcKinds
<1>2. Events \cup Origins \cup {"none"} \subseteq Events \cup Origins \cup Results
  BY DEF Results
<1>. QED BY <1>1, <1>2 DEF Messages, Request, Plain, StartMsg, ResultMsg

LEMMA ThreadStateTypes ==
  ASSUME NEW at \in Places, NEW ctx \in Marked, NEW res \in Results
  PROVE  At(at, ctx, res) \in ThreadStates /\ At(at, ctx, res).at = at /\ At(at, ctx, res).ctx = ctx
         /\ At(at, ctx, res).res = res /\ Tone(ctx, res) \in Tones /\ Tone(ctx, res).ctx = ctx
BY DEF At, Tone, ThreadStates, Tones

LEMMA ReadyTypes ==
  Ready \in ThreadStates /\ Ready.at = "ready" /\ Silence \in Tones /\ Silence.ctx = "none"
<1>1. "none" \in Marked /\ "none" \in Results /\ "ready" \in Places
  BY DEF Marked, Results, Places
<1>. QED BY <1>1, ThreadStateTypes DEF Ready, Silence

\* A thread on its way to ERA_ACTION, or about to finish a call that was made.
Preparing(p) == IF p.at \in {"continue", "commit"} \/ (p.at = "cb" /\ p.ctx = "A_ECALL") THEN 1 ELSE 0
Ending(p) == IF p.at = "finish" THEN 1 ELSE 0
Prompted == IF playing.ctx = "A_ECALL" THEN 1 ELSE 0

OnePrepared ==
  Preparing(th["task"]) + Preparing(th["player"]) + Prompted = IF ec.step = "PREPARE" THEN 1 ELSE 0
OneMade ==
  Outstanding + Ending(th["task"]) + Ending(th["player"]) = IF ec.step = "CALLING" THEN 1 ELSE 0

\* stopped says the same as step when nothing stops a call.
StoppedWhenIdle == ec.stopped <=> ec.step = "IDLE"

\* The player ends only calls that were cancelled, and the task is between calls while it
\* closes one, so that no wait begins in a call.
PlayerDrops == th["player"].at \in {"finish", "closing"} => th["player"].res \in Dropping
ClosedBetween == th["task"].at = "closing" => ec.step = "IDLE"
NobodyStops == \A t \in Threads : th[t].at # "stopping"
WaitsBetween == ec.step # "IDLE" => ~ec.auto_answer /\ timers = {}

CallInv ==
  /\ EcallTypes /\ ServiceTypes
  /\ OnePrepared /\ OneMade /\ StoppedWhenIdle
  /\ PlayerDrops /\ ClosedBetween /\ NobodyStops /\ WaitsBetween

LEMMA CallInvMeans == CallInv => OneCallAtATime /\ NoWaitingInCall
<1>. SUFFICES ASSUME CallInv PROVE OneCallAtATime /\ NoWaitingInCall
  OBVIOUS
<1>1. Count(inbox, "START") \in Nat /\ Count(ecallQ, "ERA_A_CALLBACK") \in Nat
  BY CountNat DEF CallInv, ServiceTypes
<1>2. Outstanding \in Nat
  BY <1>1 DEF Outstanding
<1>3. Outstanding <= 1 /\ (Outstanding > 0 => ec.step = "CALLING")
  BY <1>2 DEF CallInv, OneMade, Ending
<1>4. Outstanding > 0 => ~ec.stopped
  BY <1>3 DEF CallInv, StoppedWhenIdle
<1>. QED BY <1>2, <1>3, <1>4 DEF CallInv, WaitsBetween, OneCallAtATime, NoWaitingInCall

LEMMA CallInvInit == Init => CallInv
<1>. SUFFICES ASSUME Init PROVE CallInv
  OBVIOUS
<1>1. EcallTypes
  <2>1. ec = [step |-> "IDLE", stopped |-> TRUE, event |-> "MANUAL_SOS", resumed |-> FALSE,
              sos_pressed |-> FALSE, auto_answer |-> FALSE, incoming_call |-> FALSE,
              urc_listening |-> FALSE, sms_ecall_request |-> FALSE, mode |-> "ERA",
              callback |-> "none"]
    BY DEF Init, EcallInit
  <2>2. ec \in EcallStates
    BY <2>1 DEF EcallStates, Events
  <2>. QED BY <2>2, ReadyTypes DEF Init, EcallInit, EcallTypes
<1>2. ecallQ \in Seq(Messages) /\ Count(ecallQ, "ERA_A_CALLBACK") = 0
  <2>1. CASE ecallQ = <<>>
    BY <2>1, CountEmpty
  <2>2. ASSUME NEW e \in {"MANUAL_SOS", "AUTO"}, ecallQ = <<Request(e, "resumed")>>
        PROVE  ecallQ \in Seq(Messages) /\ Count(ecallQ, "ERA_A_CALLBACK") = 0
    <3>1. Request(e, "resumed") \in Messages /\ Request(e, "resumed").ev = e
      BY Senders DEF Events, Origins
    <3>2. <<>> \in Seq(Messages) /\ ecallQ = Append(<<>>, Request(e, "resumed"))
      BY <2>2
    <3>3. Count(ecallQ, "ERA_A_CALLBACK") = Count(<<>>, "ERA_A_CALLBACK") +
            (IF Request(e, "resumed").ev = "ERA_A_CALLBACK" THEN 1 ELSE 0)
      BY <3>1, <3>2, CountAppend
    <3>. QED BY <3>1, <3>2, <3>3, CountEmpty
  <2>. QED BY <2>1, <2>2 DEF Init
<1>3. ServiceTypes
  <2>1. inbox = <<>> /\ running = FALSE /\ closing = FALSE /\ result = "SUCCESS" /\ tone = "none"
    BY DEF Init, ServiceIdle
  <2>2. inbox \in Seq(Messages) /\ result \in Results /\ result # "none" /\ tone \in Results
    BY <2>1 DEF Results, Endings
  <2>3. running \in BOOLEAN /\ closing \in BOOLEAN
    BY <2>1, Zenon
  <2>. QED BY <1>2, <2>2, <2>3 DEF ServiceTypes
<1>4. Outstanding = 0
  BY <1>2, CountEmpty DEF Init, ServiceIdle, Outstanding
<1>5. /\ th["task"].at = "ready" /\ th["player"].at = "ready" /\ playing.ctx = "none"
      /\ ec.step = "IDLE" /\ ec.stopped /\ \A t \in Threads : th[t].at = "ready"
  BY ReadyTypes DEF Init, EcallInit, Threads
<1>. QED BY <1>1, <1>3, <1>4, <1>5
         DEF CallInv, OnePrepared, OneMade, StoppedWhenIdle, PlayerDrops, ClosedBetween, NobodyStops,
             WaitsBetween, Preparing, Ending, Prompted

----------------------------------------------------------------------------
(* ERA_ACTION and the senders.                                             *)

LEMMA Counted ==
  ASSUME ServiceTypes
  PROVE  /\ Count(inbox, "START") \in Nat /\ Count(ecallQ, "ERA_A_CALLBACK") \in Nat
         /\ Outstanding \in Nat
<1>1. Count(inbox, "START") \in Nat /\ Count(ecallQ, "ERA_A_CALLBACK") \in Nat
  BY CountNat DEF ServiceTypes
<1>. QED BY <1>1 DEF Outstanding

\* Nothing else of the invariant looks at ERA_ACTION.
LEMMA OnlyService ==
  ASSUME CallInv, UNCHANGED <<ec, th, timers, playing>>, ServiceTypes', Outstanding' = Outstanding
  PROVE  CallInv'
BY DEF CallInv, EcallTypes, OnePrepared, OneMade, StoppedWhenIdle, PlayerDrops, ClosedBetween,
       NobodyStops, WaitsBetween, Prompted

LEMMA ServiceKeeps == CallInv /\ ServiceStep => CallInv'
<1>. SUFFICES ASSUME CallInv, ServiceStep PROVE CallInv'
  OBVIOUS
<1>1. UNCHANGED <<ec, th, timers, playing>>
  BY DEF ServiceStep
<1>2. ServiceTypes
  BY DEF CallInv
<1>3. Outstanding \in Nat /\ Outstanding <= 1
  BY <1>2, Counted DEF CallInv, OneMade, Ending
<1>. DEFINE s == Count(inbox, "START")
            c == Count(ecallQ, "ERA_A_CALLBACK")
<1>4. /\ s \in Nat /\ c \in Nat
      /\ s + (IF running THEN 1 ELSE 0) + (IF closing THEN 1 ELSE 0)
           + (IF tone = "none" THEN 0 ELSE 1) + c \in {0, 1}
      /\ Outstanding = s + (IF running THEN 1 ELSE 0) + (IF closing THEN 1 ELSE 0)
           + (IF tone = "none" THEN 0 ELSE 1) + c
  BY <1>2, <1>3, Counted DEF Outstanding
<1>5. ServiceTypes' /\ Outstanding' = Outstanding
  <2>1. CASE TakeStart
    <3>1. /\ inbox # <<>> /\ Head(inbox).ev = "START" /\ inbox' = Tail(inbox)
          /\ running' = TRUE /\ closing' = FALSE /\ UNCHANGED <<result, tone, ecallQ>>
      BY <2>1 DEF TakeStart
    <3>2. Count(inbox', "START") = s - 1 /\ inbox' \in Seq(Messages)
      BY <1>2, <3>1, CountTail DEF ServiceTypes
    <3>3. ~running /\ ~closing
      <4>1. Count(inbox', "START") \in Nat
        BY <3>2, CountNat
      <4>. QED BY <1>2, <1>4, <3>2, <4>1 DEF ServiceTypes
    <3>4. Outstanding' = Outstanding
      BY <1>4, <3>1, <3>2, <3>3 DEF Outstanding
    <3>5. running' \in BOOLEAN /\ closing' \in BOOLEAN
      BY <3>1, Zenon
    <3>. QED BY <1>2, <3>1, <3>2, <3>4, <3>5 DEF ServiceTypes
  <2>2. CASE TakeStop
    <3>1. inbox # <<>> /\ Head(inbox).ev = "FORCED_STOP" /\ inbox \in Seq(Messages)
      BY <1>2, <2>2 DEF TakeStop, ServiceTypes
    <3>2. Head(inbox) \in Messages
      BY <3>1
    <3>. QED BY <3>1, <3>2 DEF Messages
  <2>3. CASE HandOver
    BY <1>2, <2>3 DEF HandOver, ServiceTypes, Outstanding
  <2>4. ASSUME NEW r \in Endings, End(r) PROVE ServiceTypes' /\ Outstanding' = Outstanding
    <3>1. /\ running = TRUE /\ running' = FALSE /\ closing' = TRUE /\ result' = r
          /\ UNCHANGED <<inbox, tone, ecallQ>>
      BY <1>2, <2>4 DEF End, ServiceTypes
    <3>2. ~closing
      BY <1>2, <1>4, <3>1 DEF ServiceTypes
    <3>3. Outstanding' = Outstanding
      BY <1>4, <3>1, <3>2 DEF Outstanding
    <3>4. running' \in BOOLEAN /\ closing' \in BOOLEAN
      BY <3>1, Zenon
    <3>5. r \in Results /\ r # "none"
      BY DEF Results, Endings
    <3>. QED BY <1>2, <3>1, <3>3, <3>4, <3>5 DEF ServiceTypes
  <2>5. CASE ToneStarts
    <3>1. closing = TRUE /\ closing' = FALSE /\ UNCHANGED <<inbox, running, result>>
      BY <1>2, <2>5 DEF ToneStarts, ServiceTypes
    <3>2. closing' \in BOOLEAN
      BY <3>1, Zenon
    <3>3. CASE tone = "none" /\ tone' = result /\ UNCHANGED ecallQ
      BY <1>2, <1>4, <3>1, <3>2, <3>3 DEF Outstanding, ServiceTypes
    <3>4. CASE ecallQ' = Append(ecallQ, ResultMsg(result)) /\ UNCHANGED tone
      <4>1. ecallQ' \in Seq(Messages) /\ Count(ecallQ', "ERA_A_CALLBACK") = c + 1
        BY <1>2, <3>4, Senders, CountAppend DEF ServiceTypes
      <4>. QED BY <1>2, <1>4, <3>1, <3>2, <3>4, <4>1, SMTT(40) DEF Outstanding, ServiceTypes
    <3>. QED BY <2>5, <3>3, <3>4 DEF ToneStarts
  <2>6. CASE ToneEnds
    <3>1. /\ tone # "none" /\ tone' = "none" /\ ecallQ' = Append(ecallQ, ResultMsg(tone))
          /\ UNCHANGED <<inbox, running, closing, result>>
      BY <2>6 DEF ToneEnds
    <3>2. ecallQ' \in Seq(Messages) /\ Count(ecallQ', "ERA_A_CALLBACK") = c + 1
      BY <1>2, <3>1, Senders, CountAppend DEF ServiceTypes
    <3>3. "none" \in Results
      BY DEF Results
    <3>. QED BY <1>2, <1>4, <3>1, <3>2, <3>3, SMTT(40) DEF Outstanding, ServiceTypes
  <2>. QED BY <2>1, <2>2, <2>3, <2>4, <2>5, <2>6 DEF ServiceStep
<1>. QED BY <1>1, <1>5, OnlyService

\* A message to ECALL that is no result.
LEMMA AskedKeeps ==
  ASSUME CallInv, NEW m \in Messages, m.ev # "ERA_A_CALLBACK", ecallQ' = Append(ecallQ, m),
         UNCHANGED <<inbox, running, closing, result, tone>>
  PROVE  ServiceTypes' /\ Outstanding' = Outstanding
<1>1. ServiceTypes
  BY DEF CallInv
<1>2. ecallQ' \in Seq(Messages) /\ Count(ecallQ', "ERA_A_CALLBACK") = Count(ecallQ, "ERA_A_CALLBACK")
  BY <1>1, CountAppend, Counted DEF ServiceTypes
<1>. QED BY <1>1, <1>2 DEF ServiceTypes, Outstanding

LEMMA SendersKeep ==
  ASSUME NobodyMayStop, CallInv, SendersNext
  PROVE  CallInv'
<1>1. ASSUME NEW kind, NEW m \in Messages, m.ev # "ERA_A_CALLBACK", Sends(kind, m) PROVE CallInv'
  <2>1. ecallQ' = Append(ecallQ, m) /\ UNCHANGED <<inbox, running, closing, result, tone>>
        /\ UNCHANGED <<ec, th, timers, playing>>
    BY <1>1 DEF Sends, Others
  <2>. QED BY <1>1, <2>1, AskedKeeps, OnlyService
<1>2. CASE CallRequested
  <2>1. PICK event \in {"MANUAL_SOS", "AUTO"} : Sends(event, Request(event, "fresh"))
    BY <1>2 DEF CallRequested
  <2>2. event \in Events /\ "fresh" \in Origins
    BY DEF Events, Origins
  <2>3. Request(event, "fresh") \in Messages /\ Request(event, "fresh").ev # "ERA_A_CALLBACK"
    BY <2>2, Senders DEF Events
  <2>. QED BY <1>1, <2>1, <2>3
<1>3. CASE TestRequested
  <2>1. Request("TEST", "tested") \in Messages /\ Request("TEST", "tested").ev = "TEST"
    BY Senders DEF Events, Origins
  <2>. QED BY <1>1, <1>3, <2>1 DEF TestRequested
<1>4. CASE TestAbandoned
  <2>1. UNCHANGED <<ec, th, timers, playing, serviceVars>>
    BY <1>4 DEF TestAbandoned
  <2>2. ServiceTypes' /\ Outstanding' = Outstanding
    BY <2>1 DEF CallInv, ServiceTypes, Outstanding, serviceVars
  <2>. QED BY <2>1, <2>2, OnlyService
<1>5. CASE CancelRequested
  <2>1. Sends("SOS_PRESSED", Plain("SOS_PRESSED"))
    BY <1>5 DEF CancelRequested, NobodyMayStop, Sends
  <2>2. Plain("SOS_PRESSED") \in Messages /\ Plain("SOS_PRESSED").ev = "SOS_PRESSED"
    BY Senders
  <2>. QED BY <1>1, <2>1, <2>2
<1>6. CASE Reported
  <2>1. PICK kind \in UrcKinds \cup {"SMS_REQUEST", "SMS_SENT", "DEREGISTRATION"} : Sends(kind, Plain(kind))
    BY <1>6 DEF Reported
  <2>2. Plain(kind) \in Messages /\ Plain(kind).ev # "ERA_A_CALLBACK"
    BY Senders DEF UrcKinds
  <2>. QED BY <1>1, <2>1, <2>2
<1>. QED BY <1>2, <1>3, <1>4, <1>5, <1>6 DEF SendersNext

----------------------------------------------------------------------------
(* The steps of the threads.                                               *)

Prepares == IF ec.step = "PREPARE" THEN 1 ELSE 0
Calls == IF ec.step = "CALLING" THEN 1 ELSE 0

\* A thread goes on: what it no longer has of the call is somewhere else, or the call is in
\* another state.
LEMMA ThreadGoesOn ==
  ASSUME CallInv, NEW t \in Threads, NEW p \in ThreadStates, Goto(t, p),
         ServiceTypes', ec' \in EcallStates, playing' \in Tones,
         Preparing(p) + Prompted' + Prepares = Preparing(th[t]) + Prompted + Prepares',
         Outstanding' + Ending(p) + Calls = Outstanding + Ending(th[t]) + Calls',
         StoppedWhenIdle', WaitsBetween', p.at # "stopping",
         p.at \in {"finish", "closing"} => t = "task" \/ p.res \in Dropping,
         p.at = "closing" => ec'.step = "IDLE",
         ec.step = "IDLE" => ec'.step = "IDLE" \/ t = "task"
  PROVE  CallInv'
<1>1. Outstanding \in Nat /\ Outstanding' \in Nat
  <2>1. Outstanding \in Nat
    BY Counted DEF CallInv
  <2>2. Count(inbox', "START") \in Nat /\ Count(ecallQ', "ERA_A_CALLBACK") \in Nat
    BY CountNat DEF ServiceTypes
  <2>. QED BY <2>1, <2>2 DEF Outstanding
<1>2. /\ th' \in [Threads -> ThreadStates] /\ th'[t] = p /\ \A u \in Threads : u # t => th'[u] = th[u]
      /\ Threads = {"task", "player"}
  BY DEF CallInv, EcallTypes, Goto, Threads
<1>3. OnePrepared'
  <2>. DEFINE a == Preparing(th["task"])
              b == Preparing(th["player"])
  <2>1. /\ a \in {0, 1} /\ b \in {0, 1} /\ Preparing(p) \in {0, 1} /\ Prompted \in {0, 1}
        /\ Prompted' \in {0, 1} /\ Prepares \in {0, 1} /\ Prepares' \in {0, 1}
    BY DEF Preparing, Prompted, Prepares
  <2>2. a + b + Prompted = Prepares
    BY DEF CallInv, OnePrepared, Prepares
  <2>3. Preparing(th'["task"]) + Preparing(th'["player"]) + Prompted' = Prepares'
    <3>1. CASE t = "task"
      <4>1. Preparing(th'["task"]) = Preparing(p) /\ Preparing(th'["player"]) = b /\ Preparing(th[t]) = a
        BY <1>2, <3>1
      <4>. HIDE DEF a, b
      <4>. QED BY <2>1, <2>2, <4>1
    <3>2. CASE t = "player"
      <4>1. Preparing(th'["player"]) = Preparing(p) /\ Preparing(th'["task"]) = a /\ Preparing(th[t]) = b
        BY <1>2, <3>2
      <4>. HIDE DEF a, b
      <4>. QED BY <2>1, <2>2, <4>1
    <3>. QED BY <1>2, <3>1, <3>2
  <2>. QED BY <2>3 DEF OnePrepared, Prepares, Preparing
<1>4. OneMade'
  <2>. DEFINE a == Ending(th["task"])
              b == Ending(th["player"])
  <2>1. /\ a \in {0, 1} /\ b \in {0, 1} /\ Ending(p) \in {0, 1}
        /\ Calls \in {0, 1} /\ Calls' \in {0, 1}
    BY DEF Ending, Calls
  <2>2. Outstanding + a + b = Calls
    BY DEF CallInv, OneMade, Calls
  <2>3. Outstanding' + Ending(th'["task"]) + Ending(th'["player"]) = Calls'
    <3>1. CASE t = "task"
      <4>1. Ending(th'["task"]) = Ending(p) /\ Ending(th'["player"]) = b /\ Ending(th[t]) = a
        BY <1>2, <3>1
      <4>. HIDE DEF a, b
      <4>. QED BY <1>1, <2>1, <2>2, <4>1
    <3>2. CASE t = "player"
      <4>1. Ending(th'["player"]) = Ending(p) /\ Ending(th'["task"]) = a /\ Ending(th[t]) = b
        BY <1>2, <3>2
      <4>. HIDE DEF a, b
      <4>. QED BY <1>1, <2>1, <2>2, <4>1
    <3>. QED BY <1>2, <3>1, <3>2
  <2>. QED BY <2>3 DEF OneMade, Calls, Ending
<1>5. PlayerDrops' /\ ClosedBetween' /\ NobodyStops'
  BY <1>2 DEF CallInv, PlayerDrops, ClosedBetween, NobodyStops
<1>. QED BY <1>2, <1>3, <1>4, <1>5 DEF CallInv, EcallTypes

LEMMA PlayGoesOn ==
  ASSUME EcallTypes, NEW t \in Threads, NEW ctx \in Contexts, NEW res \in Results, Play(t, ctx, res)
  PROVE  \E p \in ThreadStates :
           /\ Goto(t, p) /\ playing' \in Tones
           /\ Preparing(p) + Prompted' = Prompted + (IF ctx = "A_ECALL" THEN 1 ELSE 0)
           /\ Ending(p) = 0 /\ p.at \notin {"stopping", "finish", "closing"}
<1>1. ctx \in Marked /\ "cb" \in Places /\ ctx # "none"
  BY DEF Marked, Places, Contexts
<1>2. /\ At("cb", ctx, res) \in ThreadStates /\ At("cb", ctx, res).at = "cb" /\ At("cb", ctx, res).ctx = ctx
      /\ Tone(ctx, res) \in Tones /\ Tone(ctx, res).ctx = ctx
  BY <1>1, ThreadStateTypes
<1>3. CASE playing = Silence /\ playing' = Tone(ctx, res) /\ Goto(t, Ready)
  <2>1. playing.ctx = "none" /\ playing'.ctx = ctx
    BY <1>2, <1>3, ReadyTypes
  <2>. QED BY <1>2, <1>3, <2>1, ReadyTypes DEF Preparing, Ending, Prompted
<1>4. CASE Goto(t, At("cb", ctx, res)) /\ UNCHANGED playing
  <2>1. playing' \in Tones /\ Prompted' = Prompted
    BY <1>4 DEF EcallTypes, Prompted
  <2>2. /\ Preparing(At("cb", ctx, res)) = IF ctx = "A_ECALL" THEN 1 ELSE 0
        /\ Ending(At("cb", ctx, res)) = 0
    BY <1>2 DEF Preparing, Ending
  <2>. QED BY <1>2, <1>4, <2>1, <2>2 DEF Prompted
<1>. QED BY <1>3, <1>4 DEF Play

\* No thread moves: only the variables of ecall.c change that are not about the call.
LEMMA NobodyMoves ==
  ASSUME CallInv, UNCHANGED <<th, playing>>, ServiceTypes', Outstanding' = Outstanding,
         ec' \in EcallStates, ec'.step = ec.step, ec'.stopped = ec.stopped, WaitsBetween'
  PROVE  CallInv'
BY DEF CallInv, EcallTypes, OnePrepared, OneMade, StoppedWhenIdle, PlayerDrops, ClosedBetween,
       NobodyStops, Prompted

\* The task takes a message that is no result.
LEMMA TakenByTask ==
  ASSUME CallInv, NEW ev, ev # "ERA_A_CALLBACK", Receive(ev), Handled, Others, UNCHANGED inbox
  PROVE  /\ ServiceTypes' /\ Outstanding' = Outstanding /\ th["task"] = Ready
         /\ Preparing(Ready) = 0 /\ Ending(Ready) = 0
<1>1. ServiceTypes
  BY DEF CallInv
<1>2. ecallQ # <<>> /\ Head(ecallQ).ev = ev /\ ecallQ' = Tail(ecallQ) /\ th["task"] = Ready
      /\ UNCHANGED <<inbox, running, closing, result, tone>>
  BY DEF Receive, Handled, Others
<1>3. ecallQ' \in Seq(Messages) /\ Count(ecallQ', "ERA_A_CALLBACK") = Count(ecallQ, "ERA_A_CALLBACK")
  BY <1>1, <1>2, CountTail, Counted DEF ServiceTypes
<1>4. Preparing(Ready) = 0 /\ Ending(Ready) = 0
  BY ReadyTypes DEF Preparing, Ending
<1>. QED BY <1>1, <1>2, <1>3, <1>4 DEF ServiceTypes, Outstanding

LEMMA StartKeeps == CallInv /\ Start => CallInv'
<1>. SUFFICES ASSUME CallInv, Start PROVE CallInv'
  OBVIOUS
<1>1. PICK event \in Events, origin \in Origins :
        /\ Receive(event) /\ ec.step = "IDLE" /\ Handled /\ ec' = NewCall(event, origin)
        /\ timers' = {} /\ UNCHANGED inbox /\ Others
        /\ IF OneAndOne THEN Play("task", "A_ECALL", "none")
           ELSE Goto("task", At("continue", "none", "none")) /\ UNCHANGED playing
  BY DEF Start
<1>2. event # "ERA_A_CALLBACK" /\ "task" \in Threads /\ "A_ECALL" \in Contexts /\ "none" \in Results
      /\ "none" \in Marked /\ "continue" \in Places
  BY DEF Events, Threads, Contexts, Results, Marked, Places
<1>3. /\ ServiceTypes' /\ Outstanding' = Outstanding /\ th["task"] = Ready
      /\ Preparing(Ready) = 0 /\ Ending(Ready) = 0
  BY <1>1, <1>2, TakenByTask
<1>4. ec' \in EcallStates /\ ec'.step = "PREPARE" /\ ec'.stopped = FALSE /\ ec'.auto_answer = FALSE
  <2>. DEFINE resumed == origin = "resumed"
              mode == IF event = "TEST" THEN "TEST" ELSE "ECALL"
              callback == IF origin = "tested" THEN "tester" ELSE "none"
  <2>1. /\ resumed \in BOOLEAN /\ mode \in {"ERA", "ECALL", "TEST"} /\ callback \in {"none", "tester"}
        /\ ec \in EcallStates
    BY DEF CallInv, EcallTypes
  <2>2. ec' = [ec EXCEPT !.step = "PREPARE", !.stopped = FALSE, !.event = event, !.resumed = resumed,
                         !.sos_pressed = FALSE, !.auto_answer = FALSE, !.mode = mode,
                         !.callback = callback]
    BY <1>1 DEF NewCall
  <2>. HIDE DEF resumed, mode, callback
  <2>. QED BY <2>1, <2>2 DEF EcallStates
<1>5. PICK p \in ThreadStates :
        /\ Goto("task", p) /\ playing' \in Tones
        /\ Preparing(p) + Prompted' = Prompted + 1
        /\ Ending(p) = 0 /\ p.at \notin {"stopping", "finish", "closing"}
  <2>1. CASE OneAndOne
    BY <1>1, <1>2, <2>1, PlayGoesOn DEF CallInv
  <2>2. CASE ~OneAndOne
    <3>. DEFINE p == At("continue", "none", "none")
    <3>1. p \in ThreadStates /\ p.at = "continue"
      BY <1>2, ThreadStateTypes
    <3>2. Goto("task", p) /\ UNCHANGED playing
      BY <1>1, <2>2
    <3>3. playing' \in Tones /\ Prompted' = Prompted /\ Prompted \in {0, 1}
      BY <3>2 DEF CallInv, EcallTypes, Prompted
    <3>. HIDE DEF p
    <3>. QED BY <3>1, <3>2, <3>3 DEF Preparing, Ending
  <2>. QED BY <2>1, <2>2
<1>6. StoppedWhenIdle' /\ WaitsBetween'
  BY <1>1, <1>4 DEF StoppedWhenIdle, WaitsBetween
<1>7. Prepares = 0 /\ Prepares' = 1 /\ Calls = 0 /\ Calls' = 0 /\ Prompted \in {0, 1}
  BY <1>1, <1>4 DEF Prepares, Calls, Prompted
<1>8. /\ Preparing(p) + Prompted' + Prepares = Preparing(th["task"]) + Prompted + Prepares'
      /\ Outstanding' + Ending(p) + Calls = Outstanding + Ending(th["task"]) + Calls'
  BY <1>3, <1>5, <1>7 DEF Preparing
<1>. QED BY <1>2, <1>3, <1>4, <1>5, <1>6, <1>8, ThreadGoesOn

LEMMA MessagesKeep ==
  ASSUME CallInv, Refuse \/ SosPressed \/ UrcCreg \/ UrcConnected \/ Dereg \/ SmsRequest \/ SmsSent
                  \/ DeregExpires \/ CallAnswerExpires
  PROVE  CallInv'
<1>0. ec \in EcallStates /\ WaitsBetween /\ ServiceTypes
  BY DEF CallInv, EcallTypes
<1>1. CASE Refuse
  <2>1. PICK event \in Events, origin \in Origins :
          Receive(event) /\ Handled /\ Others /\ UNCHANGED <<ec, th, timers, playing, inbox>>
    BY <1>1 DEF Refuse
  <2>2. ServiceTypes' /\ Outstanding' = Outstanding
    BY <2>1, TakenByTask DEF Events
  <2>. QED BY <2>1, <2>2, OnlyService
<1>2. CASE SosPressed
  <2>. DEFINE pressed == ec.sos_pressed \/ (ec.step = "PREPARE" /\ ~testing)
  <2>1. /\ Receive("SOS_PRESSED") /\ Handled /\ Others /\ UNCHANGED <<th, timers, playing, inbox>>
        /\ ec' = [ec EXCEPT !.sos_pressed = pressed]
    BY <1>2 DEF SosPressed, Idle
  <2>2. pressed \in BOOLEAN
    BY <1>0, Zenon DEF EcallStates
  <2>. HIDE DEF pressed
  <2>3. ec' \in EcallStates /\ ec'.step = ec.step /\ ec'.stopped = ec.stopped
        /\ ec'.auto_answer = ec.auto_answer
    BY <1>0, <2>1, <2>2 DEF EcallStates
  <2>4. WaitsBetween'
    BY <1>0, <2>1, <2>3 DEF WaitsBetween
  <2>. QED BY <2>1, <2>3, <2>4, TakenByTask, NobodyMoves
<1>3. CASE UrcCreg
  <2>1. Receive("URC_CREG") /\ Handled /\ Others /\ UNCHANGED <<th, playing, inbox>>
    BY <1>3 DEF UrcCreg
  <2>2. \/ ec' = [ec EXCEPT !.urc_listening = FALSE] /\ timers' = {}
        \/ UNCHANGED <<ec, timers>>
    BY <1>3 DEF UrcCreg
  <2>3. ec' \in EcallStates /\ ec'.step = ec.step /\ ec'.stopped = ec.stopped
        /\ ec'.auto_answer = ec.auto_answer
    BY <1>0, <2>2 DEF EcallStates
  <2>4. WaitsBetween'
    BY <1>0, <2>2, <2>3 DEF WaitsBetween
  <2>. QED BY <2>1, <2>3, <2>4, TakenByTask, NobodyMoves
<1>4. CASE UrcConnected
  <2>1. Receive("URC_CONNECTED") /\ Handled /\ Others /\ UNCHANGED <<ec, th, timers, playing, inbox>>
    BY <1>4 DEF UrcConnected, Idle
  <2>. QED BY <2>1, TakenByTask, OnlyService
<1>5. CASE Dereg
  <2>1. Receive("DEREGISTRATION") /\ Handled /\ Others /\ UNCHANGED <<th, playing, inbox>>
    BY <1>5 DEF Dereg
  <2>2. \/ /\ ec' = [ec EXCEPT !.urc_listening = FALSE, !.auto_answer = FALSE]
           /\ timers' = timers \ {"call_answer"}
        \/ UNCHANGED <<ec, timers>>
    BY <1>5 DEF Dereg
  <2>3. ec' \in EcallStates /\ ec'.step = ec.step /\ ec'.stopped = ec.stopped
        /\ (~ec.auto_answer => ~ec'.auto_answer)
    BY <1>0, <2>2 DEF EcallStates
  <2>4. timers = {} => timers' = {}
    BY <2>2
  <2>5. WaitsBetween'
    BY <1>0, <2>3, <2>4 DEF WaitsBetween
  <2>. QED BY <2>1, <2>3, <2>5, TakenByTask, NobodyMoves
<1>6. CASE SmsRequest
  <2>1. /\ Receive("SMS_REQUEST") /\ Handled /\ Others /\ UNCHANGED <<th, timers, playing, inbox>>
        /\ ec' = [ec EXCEPT !.sms_ecall_request = TRUE]
    BY <1>6 DEF SmsRequest, Idle
  <2>2. ec' \in EcallStates /\ ec'.step = ec.step /\ ec'.stopped = ec.stopped
        /\ ec'.auto_answer = ec.auto_answer
    BY <1>0, <2>1 DEF EcallStates
  <2>3. WaitsBetween'
    BY <1>0, <2>1, <2>2 DEF WaitsBetween
  <2>. QED BY <2>1, <2>2, <2>3, TakenByTask, NobodyMoves
<1>7. CASE SmsSent
  <2>1. /\ Receive("SMS_SENT") /\ Others /\ UNCHANGED <<th, timers, playing, inbox>>
        /\ ecallQ' = Tail(ecallQ) \o
             (IF ec.sms_ecall_request THEN <<Request("MANUAL_SOS", "fresh")>> ELSE <<>>)
        /\ ec' = [ec EXCEPT !.sms_ecall_request = FALSE]
    BY <1>7 DEF SmsSent, Idle
  <2>2. ec' \in EcallStates /\ ec'.step = ec.step /\ ec'.stopped = ec.stopped
        /\ ec'.auto_answer = ec.auto_answer
    BY <1>0, <2>1 DEF EcallStates
  <2>3. WaitsBetween'
    BY <1>0, <2>1, <2>2 DEF WaitsBetween
  <2>4. ServiceTypes' /\ Outstanding' = Outstanding
    <3>. DEFINE q == Tail(ecallQ)
                m == Request("MANUAL_SOS", "fresh")
    <3>1. m \in Messages /\ m.ev = "MANUAL_SOS"
      BY Senders DEF Events, Origins
    <3>2. /\ ecallQ # <<>> /\ Head(ecallQ).ev = "SMS_SENT" /\ ecallQ \in Seq(Messages)
          /\ UNCHANGED <<inbox, running, closing, result, tone>>
      BY <1>0, <2>1 DEF Receive, Others, ServiceTypes
    <3>3. q \in Seq(Messages) /\ Count(q, "ERA_A_CALLBACK") = Count(ecallQ, "ERA_A_CALLBACK")
      BY <1>0, <3>2, CountTail, Counted
    <3>. HIDE DEF m, q
    <3>4. ecallQ' = Append(q, m) \/ ecallQ' = q
      <4>1. ecallQ' = q \o (IF ec.sms_ecall_request THEN <<m>> ELSE <<>>)
        BY <2>1 DEF q, m
      <4>. QED BY <3>1, <3>3, <4>1
    <3>5. Count(Append(q, m), "ERA_A_CALLBACK") = Count(q, "ERA_A_CALLBACK")
      BY <1>0, <3>1, <3>3, CountAppend, Counted
    <3>6. ecallQ' \in Seq(Messages) /\ Count(ecallQ', "ERA_A_CALLBACK") = Count(ecallQ, "ERA_A_CALLBACK")
      <4>1. Append(q, m) \in Seq(Messages)
        BY <3>1, <3>3
      <4>. QED BY <3>3, <3>4, <3>5, <4>1
    <3>. QED BY <1>0, <3>2, <3>6 DEF ServiceTypes, Outstanding
  <2>. QED BY <2>1, <2>2, <2>3, <2>4, NobodyMoves
<1>8. CASE DeregExpires
  <2>1. /\ "dereg" \in timers /\ ecallQ' = Append(ecallQ, Plain("DEREGISTRATION"))
        /\ UNCHANGED <<ec, th, playing, inbox>> /\ Others
    BY <1>8 DEF DeregExpires
  <2>2. Plain("DEREGISTRATION") \in Messages /\ Plain("DEREGISTRATION").ev = "DEREGISTRATION"
    BY Senders
  <2>3. ServiceTypes' /\ Outstanding' = Outstanding
    BY <2>1, <2>2, AskedKeeps DEF Others
  <2>4. WaitsBetween'
    BY <1>0, <2>1 DEF WaitsBetween
  <2>. QED BY <1>0, <2>1, <2>3, <2>4, NobodyMoves
<1>9. CASE CallAnswerExpires
  <2>1. /\ "call_answer" \in timers /\ ec' = [ec EXCEPT !.auto_answer = FALSE]
        /\ UNCHANGED <<th, playing, inbox, ecallQ>> /\ Others
    BY <1>9 DEF CallAnswerExpires
  <2>2. ec' \in EcallStates /\ ec'.step = ec.step /\ ec'.stopped = ec.stopped
    BY <1>0, <2>1 DEF EcallStates
  <2>3. ServiceTypes' /\ Outstanding' = Outstanding
    BY <1>0, <2>1 DEF ServiceTypes, Outstanding, Others
  <2>4. WaitsBetween'
    BY <1>0, <2>1, <2>2 DEF WaitsBetween
  <2>. QED BY <2>1, <2>2, <2>3, <2>4, NobodyMoves
<1>. QED BY <1>1, <1>2, <1>3, <1>4, <1>5, <1>6, <1>7, <1>8, <1>9

LEMMA TaskKeeps ==
  ASSUME CallInv, ForcedStop \/ Stopped \/ ResultReceived \/ UrcRing \/ UrcNoCarrier \/ UrcDisconnected
  PROVE  CallInv'
<1>0. /\ ec \in EcallStates /\ EcallTypes /\ WaitsBetween /\ StoppedWhenIdle /\ ServiceTypes
      /\ "task" \in Threads
  BY DEF CallInv, EcallTypes, Threads
<1>1. ~ForcedStop
  <2>1. ASSUME ForcedStop PROVE FALSE
    <3>1. ecallQ # <<>> /\ Head(ecallQ).ev = "FORCED_STOP" /\ ecallQ \in Seq(Messages)
      BY <1>0, <2>1 DEF ForcedStop, Receive, ServiceTypes
    <3>2. Head(ecallQ) \in Messages
      BY <3>1
    <3>. QED BY <3>1, <3>2 DEF Messages
  <2>. QED BY <2>1
<1>2. ~Stopped
  BY <1>0 DEF Stopped, CallInv, NobodyStops
<1>3. CASE ResultReceived
  <2>. DEFINE res == FinishResult(Head(ecallQ).arg)
              p == At("finish", "none", res)
  <2>1. /\ th["task"] = Ready /\ ecallQ # <<>> /\ Head(ecallQ).ev = "ERA_A_CALLBACK"
        /\ ecallQ' = Tail(ecallQ) /\ Goto("task", p)
        /\ UNCHANGED <<ec, timers, playing, inbox, running, closing, result, tone>>
    BY <1>3 DEF ResultReceived, Receive, Handled, Others
  <2>2. p \in ThreadStates /\ p.at = "finish"
    <3>1. res \in Results /\ "finish" \in Places /\ "none" \in Marked
      BY DEF FinishResult, Dropping, Results, FinishResults, Places, Marked
    <3>. QED BY <3>1, ThreadStateTypes
  <2>. HIDE DEF p
  <2>3. ecallQ' \in Seq(Messages) /\ Count(ecallQ', "ERA_A_CALLBACK") = Count(ecallQ, "ERA_A_CALLBACK") - 1
    BY <1>0, <2>1, CountTail DEF ServiceTypes
  <2>4. ServiceTypes' /\ Outstanding' = Outstanding - 1
    <3>1. ServiceTypes'
      BY <1>0, <2>1, <2>3 DEF ServiceTypes
    <3>2. Count(inbox, "START") \in Nat /\ Count(ecallQ, "ERA_A_CALLBACK") \in Nat
      BY <1>0, Counted
    <3>3. Outstanding' = Outstanding - 1
      <4>. DEFINE rest == Count(inbox, "START") + (IF running THEN 1 ELSE 0)
                          + (IF closing THEN 1 ELSE 0) + (IF tone = "none" THEN 0 ELSE 1)
                  c == Count(ecallQ, "ERA_A_CALLBACK")
      <4>1. rest \in Nat /\ c \in Nat /\ Outstanding = rest + c
        BY <3>2 DEF Outstanding
      <4>2. rest' = rest
        BY <2>1
      <4>3. Outstanding' = rest' + Count(ecallQ', "ERA_A_CALLBACK")
        BY DEF Outstanding
      <4>. HIDE DEF rest
      <4>. QED BY <2>3, <4>1, <4>2, <4>3
    <3>. QED BY <3>1, <3>3
  <2>5. Ending(p) = 1 /\ Preparing(p) = 0 /\ Ending(Ready) = 0 /\ Preparing(Ready) = 0
    BY <2>2, ReadyTypes DEF Ending, Preparing
  <2>6. /\ ec' \in EcallStates /\ playing' \in Tones /\ StoppedWhenIdle' /\ WaitsBetween'
        /\ Prompted' = Prompted /\ Prepares' = Prepares /\ Calls' = Calls /\ ec'.step = ec.step
    BY <1>0, <2>1 DEF EcallTypes, StoppedWhenIdle, WaitsBetween, Prompted, Prepares, Calls
  <2>7. Outstanding \in Nat /\ Prompted \in {0, 1} /\ Prepares \in {0, 1} /\ Calls \in {0, 1}
    BY <1>0, Counted DEF Prompted, Prepares, Calls
  <2>8. /\ Preparing(p) + Prompted' + Prepares = Preparing(th["task"]) + Prompted + Prepares'
        /\ Outstanding' + Ending(p) + Calls = Outstanding + Ending(th["task"]) + Calls'
    BY <2>1, <2>4, <2>5, <2>6, <2>7
  <2>. QED BY <1>0, <2>1, <2>2, <2>4, <2>6, <2>8, ThreadGoesOn
<1>4. ASSUME NEW ev, ev # "ERA_A_CALLBACK", Receive(ev), Handled, Others, UNCHANGED <<timers, inbox>>,
             ec' \in EcallStates, ec'.step = ec.step, ec'.stopped = ec.stopped,
             ec'.auto_answer = ec.auto_answer,
             NEW ctx \in Contexts, ctx # "A_ECALL", Play("task", ctx, "none")
      PROVE  CallInv'
  <2>1. "none" \in Results
    BY DEF Results
  <2>2. PICK p \in ThreadStates :
          /\ Goto("task", p) /\ playing' \in Tones
          /\ Preparing(p) + Prompted' = Prompted /\ Ending(p) = 0
          /\ p.at \notin {"stopping", "finish", "closing"}
    <3>1. Prompted \in {0, 1}
      BY DEF Prompted
    <3>. QED BY <1>0, <1>4, <2>1, <3>1, PlayGoesOn
  <2>3. /\ ServiceTypes' /\ Outstanding' = Outstanding /\ th["task"] = Ready
        /\ Preparing(Ready) = 0 /\ Ending(Ready) = 0
    BY <1>4, TakenByTask
  <2>4. StoppedWhenIdle' /\ WaitsBetween' /\ Prepares' = Prepares /\ Calls' = Calls
    BY <1>0, <1>4 DEF StoppedWhenIdle, WaitsBetween, Prepares, Calls
  <2>5. Outstanding \in Nat /\ Prompted \in {0, 1} /\ Prompted' \in {0, 1} /\ Prepares \in {0, 1}
        /\ Calls \in {0, 1} /\ Preparing(p) \in {0, 1}
    BY <1>0, Counted DEF Prompted, Prepares, Calls, Preparing
  <2>6. /\ Preparing(p) + Prompted' + Prepares = Preparing(th["task"]) + Prompted + Prepares'
        /\ Outstanding' + Ending(p) + Calls = Outstanding + Ending(th["task"]) + Calls'
    BY <2>2, <2>3, <2>4, <2>5
  <2>. QED BY <1>0, <1>4, <2>2, <2>3, <2>4, <2>6, ThreadGoesOn
<1>5. \A c \in {"A_ONE_TONE_2", "A_ONE_TONE_3", "A_ONE_TONE_4"} : c \in Contexts /\ c # "A_ECALL"
  BY DEF Contexts
<1>6. CASE UrcRing
  <2>1. Receive("URC_RING") /\ Handled /\ Others /\ UNCHANGED <<timers, inbox>>
    BY <1>6 DEF UrcRing
  <2>2. CASE ec' = [ec EXCEPT !.incoming_call = TRUE] /\ Play("task", "A_ONE_TONE_2", "none")
    <3>1. /\ ec' \in EcallStates /\ ec'.step = ec.step /\ ec'.stopped = ec.stopped
          /\ ec'.auto_answer = ec.auto_answer
      BY <1>0, <2>2 DEF EcallStates
    <3>. QED BY <1>4, <1>5, <2>1, <2>2, <3>1
  <2>3. CASE UNCHANGED <<ec, th, playing>>
    BY <2>1, <2>3, TakenByTask, OnlyService
  <2>. QED BY <1>6, <2>2, <2>3 DEF UrcRing
<1>7. CASE UrcNoCarrier
  <2>1. Receive("URC_NO_CARRIER") /\ Handled /\ Others /\ UNCHANGED <<ec, timers, inbox>>
    BY <1>7 DEF UrcNoCarrier
  <2>2. CASE Play("task", "A_ONE_TONE_3", "none")
    BY <1>0, <1>4, <1>5, <2>1, <2>2
  <2>3. CASE UNCHANGED <<th, playing>>
    BY <2>1, <2>3, TakenByTask, OnlyService
  <2>. QED BY <1>7, <2>2, <2>3 DEF UrcNoCarrier
<1>8. CASE UrcDisconnected
  <2>1. Receive("URC_DISCONNECTED") /\ Handled /\ Others /\ UNCHANGED <<timers, inbox>>
    BY <1>8 DEF UrcDisconnected
  <2>2. CASE ec' = [ec EXCEPT !.incoming_call = FALSE] /\ Play("task", "A_ONE_TONE_4", "none")
    <3>1. /\ ec' \in EcallStates /\ ec'.step = ec.step /\ ec'.stopped = ec.stopped
          /\ ec'.auto_answer = ec.auto_answer
      BY <1>0, <2>2 DEF EcallStates
    <3>. QED BY <1>4, <1>5, <2>1, <2>2, <3>1
  <2>3. CASE UNCHANGED <<ec, th, playing>>
    BY <2>1, <2>3, TakenByTask, OnlyService
  <2>. QED BY <1>8, <2>2, <2>3 DEF UrcDisconnected
<1>. QED BY <1>1, <1>2, <1>3, <1>6, <1>7, <1>8

\* What a thread does on its way when ERA_ACTION is not told.
LEMMA ThreadAlone ==
  ASSUME CallInv, UNCHANGED inbox, Others, UNCHANGED ecallQ
  PROVE  ServiceTypes' /\ Outstanding' = Outstanding /\ Outstanding \in Nat
<1>1. ServiceTypes /\ Outstanding \in Nat
  BY Counted DEF CallInv
<1>. QED BY <1>1 DEF ServiceTypes, Outstanding, Others

LEMMA Ones ==
  ASSUME NEW p
  PROVE  /\ Prompted \in {0, 1} /\ Prompted' \in {0, 1} /\ Prepares \in {0, 1} /\ Prepares' \in {0, 1}
         /\ Calls \in {0, 1} /\ Calls' \in {0, 1} /\ Preparing(p) \in {0, 1} /\ Ending(p) \in {0, 1}
         /\ p.at \notin {"continue", "commit", "cb"} => Preparing(p) = 0
         /\ p.at # "finish" => Ending(p) = 0
BY DEF Prompted, Prepares, Calls, Preparing, Ending

\* A thread that has the call in hand: what state the call is in.
LEMMA InHand ==
  ASSUME CallInv, NEW t \in Threads
  PROVE  /\ Preparing(th[t]) = 1 => ec.step = "PREPARE"
         /\ Ending(th[t]) = 1 => ec.step = "CALLING"
         /\ ec.stopped <=> ec.step = "IDLE"
<1>1. Outstanding \in Nat /\ Threads = {"task", "player"}
  BY Counted DEF CallInv, Threads
<1>2. /\ Preparing(th["task"]) \in {0, 1} /\ Preparing(th["player"]) \in {0, 1} /\ Prompted \in {0, 1}
      /\ Ending(th["task"]) \in {0, 1} /\ Ending(th["player"]) \in {0, 1}
  BY DEF Preparing, Ending, Prompted
<1>3. /\ Preparing(th["task"]) + Preparing(th["player"]) + Prompted = Prepares
      /\ Outstanding + Ending(th["task"]) + Ending(th["player"]) = Calls
  BY DEF CallInv, OnePrepared, OneMade, Prepares, Calls
<1>4. Preparing(th["task"]) = 1 \/ Preparing(th["player"]) = 1 => Prepares # 0
  BY <1>2, <1>3
<1>5. Ending(th["task"]) = 1 \/ Ending(th["player"]) = 1 => Calls # 0
  BY <1>1, <1>2, <1>3
<1>. QED BY <1>1, <1>4, <1>5 DEF Prepares, Calls, CallInv, StoppedWhenIdle

\* A thread that goes from place to place without the call changing hands.
LEMMA ThreadMoves ==
  ASSUME CallInv, NEW t \in Threads, NEW p \in ThreadStates, Goto(t, p),
         UNCHANGED <<inbox, ecallQ, playing>>, Others,
         ec' \in EcallStates, ec'.step = ec.step, ec'.stopped = ec.stopped, WaitsBetween',
         Preparing(p) = Preparing(th[t]), Ending(p) = Ending(th[t]),
         p.at \notin {"stopping", "finish", "closing"}
  PROVE  CallInv'
<1>1. ServiceTypes' /\ Outstanding' = Outstanding /\ Outstanding \in Nat
  BY ThreadAlone
<1>2. /\ Prompted' = Prompted /\ Prepares' = Prepares /\ Calls' = Calls /\ playing' \in Tones
      /\ StoppedWhenIdle'
  BY DEF Prompted, Prepares, Calls, CallInv, EcallTypes, StoppedWhenIdle
<1>3. /\ Preparing(p) + Prompted' + Prepares = Preparing(th[t]) + Prompted + Prepares'
      /\ Outstanding' + Ending(p) + Calls = Outstanding + Ending(th[t]) + Calls'
  BY <1>1, <1>2
<1>. QED BY <1>1, <1>2, <1>3, ThreadGoesOn

LEMMA WaysKeep ==
  ASSUME CallInv, NEW t \in Threads, CallPrompted(t) \/ RingPrompted(t) \/ EndPrompted(t) \/ Answer(t)
  PROVE  CallInv'
<1>0. ec \in EcallStates /\ WaitsBetween /\ th[t] \in ThreadStates
  BY DEF CallInv, EcallTypes
<1>1. /\ At("continue", "none", "none") \in ThreadStates /\ At("continue", "none", "none").at = "continue"
      /\ At("commit", "none", "none") \in ThreadStates /\ At("commit", "none", "none").at = "commit"
      /\ At("answer", "none", "none") \in ThreadStates /\ At("answer", "none", "none").at = "answer"
      /\ Ready \in ThreadStates /\ Ready.at = "ready"
  <2>1. {"continue", "commit", "answer"} \subseteq Places /\ "none" \in Marked /\ "none" \in Results
    BY DEF Places, Marked, Results
  <2>. QED BY <2>1, ThreadStateTypes, ReadyTypes
<1>2. CASE CallPrompted(t)
  <2>1. /\ th[t].at = "cb" /\ th[t].ctx = "A_ECALL" /\ UNCHANGED <<ec, timers, playing, inbox, ecallQ>>
        /\ Others
    BY <1>2 DEF CallPrompted
  <2>2. Preparing(th[t]) = 1 /\ Ending(th[t]) = 0
    BY <2>1 DEF Preparing, Ending
  <2>3. ~ec.stopped
    BY <2>2, InHand
  <2>4. \E p \in ThreadStates : Goto(t, p) /\ p.at \in {"continue", "commit"}
    BY <1>1, <1>2, <2>3 DEF CallPrompted
  <2>5. PICK p \in ThreadStates : Goto(t, p) /\ p.at \in {"continue", "commit"}
    BY <2>4
  <2>6. Preparing(p) = 1 /\ Ending(p) = 0
    BY <2>5 DEF Preparing, Ending
  <2>7. WaitsBetween' /\ ec' \in EcallStates
    BY <1>0, <2>1 DEF WaitsBetween
  <2>. QED BY <2>1, <2>2, <2>5, <2>6, <2>7, ThreadMoves
<1>3. CASE RingPrompted(t)
  <2>. DEFINE goes == ec.incoming_call /\ th[t].ctx # "A_ONE_TONE_3"
  <2>1. /\ th[t].at = "cb" /\ th[t].ctx \in {"A_ONE_TONE_2", "A_ONE_TONE_3", "A_ONE_TONE_4"}
        /\ ec' = [ec EXCEPT !.incoming_call = goes]
        /\ UNCHANGED <<timers, playing, inbox, ecallQ>> /\ Others
    BY <1>3 DEF RingPrompted
  <2>2. goes \in BOOLEAN
    BY <1>0, Zenon DEF EcallStates
  <2>. HIDE DEF goes
  <2>3. /\ ec' \in EcallStates /\ ec'.step = ec.step /\ ec'.stopped = ec.stopped
        /\ ec'.auto_answer = ec.auto_answer
    BY <1>0, <2>1, <2>2 DEF EcallStates
  <2>4. WaitsBetween'
    BY <1>0, <2>1, <2>3 DEF WaitsBetween
  <2>5. PICK p \in ThreadStates : Goto(t, p) /\ p.at \in {"answer", "ready"}
    BY <1>1, <1>3 DEF RingPrompted
  <2>6. Preparing(th[t]) = 0 /\ Ending(th[t]) = 0 /\ Preparing(p) = 0 /\ Ending(p) = 0
    BY <2>1, <2>5 DEF Preparing, Ending
  <2>. QED BY <2>1, <2>3, <2>4, <2>5, <2>6, ThreadMoves
<1>4. CASE EndPrompted(t) \/ Answer(t)
  <2>1. /\ th[t].at = "answer" \/ (th[t].at = "cb" /\ th[t].ctx = "A_ECALL_END")
        /\ UNCHANGED <<ec, timers, playing, inbox, ecallQ>> /\ Others /\ Goto(t, Ready)
    BY <1>4 DEF EndPrompted, Answer
  <2>2. Preparing(th[t]) = 0 /\ Ending(th[t]) = 0 /\ Preparing(Ready) = 0 /\ Ending(Ready) = 0
    BY <1>1, <2>1 DEF Preparing, Ending
  <2>3. WaitsBetween' /\ ec' \in EcallStates
    BY <1>0, <2>1 DEF WaitsBetween
  <2>. QED BY <1>1, <2>1, <2>2, <2>3, ThreadMoves
<1>. QED BY <1>2, <1>3, <1>4

LEMMA ContinueKeeps == ASSUME CallInv, NEW t \in Threads, Continue(t) PROVE CallInv'
<1>0. /\ EcallTypes /\ ec \in EcallStates /\ WaitsBetween /\ StoppedWhenIdle
      /\ "A_ECALL" \in Contexts /\ "none" \in Results /\ "commit" \in Places /\ "none" \in Marked
  BY DEF CallInv, EcallTypes, Contexts, Results, Places, Marked
<1>1. /\ th[t].at = "continue" /\ UNCHANGED <<ec, timers, inbox, ecallQ>> /\ Others
      /\ IF ~OneAndOne THEN Play(t, "A_ECALL", "none")
         ELSE Goto(t, IF ec.stopped THEN Ready ELSE At("commit", "none", "none")) /\ UNCHANGED playing
  BY DEF Continue
<1>2. Preparing(th[t]) = 1 /\ Ending(th[t]) = 0
  BY <1>1 DEF Preparing, Ending
<1>3. ServiceTypes' /\ Outstanding' = Outstanding /\ Outstanding \in Nat
  BY <1>1, ThreadAlone
<1>4. PICK p \in ThreadStates :
        /\ Goto(t, p) /\ playing' \in Tones
        /\ Preparing(p) + Prompted' = Prompted + 1
        /\ Ending(p) = 0 /\ p.at \notin {"stopping", "finish", "closing"}
  <2>1. CASE ~OneAndOne
    BY <1>0, <1>1, <2>1, PlayGoesOn
  <2>2. CASE OneAndOne
    <3>. DEFINE p == At("commit", "none", "none")
    <3>1. ~ec.stopped
      BY <1>2, InHand
    <3>2. p \in ThreadStates /\ p.at = "commit"
      BY <1>0, ThreadStateTypes
    <3>3. Goto(t, p) /\ UNCHANGED playing
      BY <1>1, <2>2, <3>1
    <3>4. playing' \in Tones /\ Prompted' = Prompted /\ Prompted \in {0, 1}
      BY <1>0, <3>3 DEF EcallTypes, Prompted
    <3>. HIDE DEF p
    <3>. QED BY <3>2, <3>3, <3>4 DEF Preparing, Ending
  <2>. QED BY <2>1, <2>2
<1>5. /\ StoppedWhenIdle' /\ WaitsBetween' /\ Prepares' = Prepares /\ Calls' = Calls
      /\ ec' \in EcallStates
  BY <1>0, <1>1 DEF StoppedWhenIdle, WaitsBetween, Prepares, Calls
<1>6. /\ Preparing(p) + Prompted' + Prepares = Preparing(th[t]) + Prompted + Prepares'
      /\ Outstanding' + Ending(p) + Calls = Outstanding + Ending(th[t]) + Calls'
  BY <1>2, <1>3, <1>4, <1>5, Ones
<1>. QED BY <1>1, <1>3, <1>4, <1>5, <1>6, ThreadGoesOn

LEMMA CommitKeeps == ASSUME CallInv, NEW t \in Threads, Commit(t) PROVE CallInv'
<1>0. /\ EcallTypes /\ ec \in EcallStates /\ WaitsBetween /\ ServiceTypes
      /\ "finish" \in Places /\ "MANUAL_CANCEL" \in Results /\ "none" \in Marked
      /\ "MANUAL_CANCEL" \in Dropping
  BY DEF CallInv, EcallTypes, Results, FinishResults, Places, Marked, Dropping
<1>1. th[t].at = "commit" /\ UNCHANGED <<timers, playing, ecallQ>> /\ Others
  BY DEF Commit
<1>2. Preparing(th[t]) = 1 /\ Ending(th[t]) = 0
  BY <1>1 DEF Preparing, Ending
<1>3. ec.step = "PREPARE" /\ ~ec.stopped
  BY <1>2, InHand
<1>4. /\ ec' \in EcallStates /\ ec'.step = "CALLING" /\ ec'.stopped = ec.stopped
      /\ ec'.auto_answer = ec.auto_answer
  <2>1. \/ ec' = [ec EXCEPT !.step = "CALLING"]
        \/ ec' = [ec EXCEPT !.step = "CALLING", !.urc_listening = FALSE]
    BY DEF Commit
  <2>. QED BY <1>0, <2>1 DEF EcallStates
<1>5. /\ StoppedWhenIdle' /\ WaitsBetween' /\ playing' \in Tones /\ Prompted' = Prompted
      /\ Prepares = 1 /\ Prepares' = 0 /\ Calls = 0 /\ Calls' = 1
  BY <1>0, <1>1, <1>3, <1>4 DEF StoppedWhenIdle, WaitsBetween, EcallTypes, Prompted, Prepares, Calls
<1>6. CASE Goto(t, At("finish", "none", "MANUAL_CANCEL")) /\ UNCHANGED inbox
  <2>. DEFINE p == At("finish", "none", "MANUAL_CANCEL")
  <2>1. p \in ThreadStates /\ p.at = "finish" /\ p.res = "MANUAL_CANCEL"
    BY <1>0, ThreadStateTypes
  <2>2. ServiceTypes' /\ Outstanding' = Outstanding /\ Outstanding \in Nat
    BY <1>1, <1>6, ThreadAlone
  <2>3. Goto(t, p)
    BY <1>6
  <2>. HIDE DEF p
  <2>4. Preparing(p) = 0 /\ Ending(p) = 1
    BY <2>1 DEF Preparing, Ending
  <2>5. /\ Preparing(p) + Prompted' + Prepares = Preparing(th[t]) + Prompted + Prepares'
        /\ Outstanding' + Ending(p) + Calls = Outstanding + Ending(th[t]) + Calls'
    BY <1>2, <1>5, <2>2, <2>4, Ones
  <2>. QED BY <1>0, <1>3, <1>4, <1>5, <2>1, <2>2, <2>3, <2>5, ThreadGoesOn
<1>7. CASE Goto(t, Ready) /\ inbox' = Append(inbox, StartMsg(ec.event))
  <2>1. ec.event \in Events
    BY <1>0 DEF EcallStates
  <2>2. Count(inbox', "START") = Count(inbox, "START") + 1 /\ inbox' \in Seq(Messages)
    BY <1>0, <1>7, <2>1, Senders, CountAppend DEF ServiceTypes
  <2>3. ServiceTypes'
    BY <1>0, <1>1, <2>2 DEF ServiceTypes, Others
  <2>4. Outstanding' = Outstanding + 1 /\ Outstanding \in Nat
    <3>. DEFINE rest == (IF running THEN 1 ELSE 0) + (IF closing THEN 1 ELSE 0)
                        + (IF tone = "none" THEN 0 ELSE 1)
                c == Count(ecallQ, "ERA_A_CALLBACK")
                s == Count(inbox, "START")
    <3>1. rest \in Nat /\ c \in Nat /\ s \in Nat /\ Outstanding = s + rest + c
      BY <1>0, Counted DEF Outstanding
    <3>2. rest' = rest /\ c' = c
      BY <1>1 DEF Others
    <3>3. Outstanding' = Count(inbox', "START") + rest' + c'
      <4>1. rest' \in Nat /\ c' \in Nat /\ Count(inbox', "START") \in Nat
        BY <2>2, <3>1, <3>2
      <4>. QED BY <4>1 DEF Outstanding
    <3>. HIDE DEF rest, c, s
    <3>4. Count(inbox', "START") = s + 1
      BY <2>2 DEF s
    <3>. QED BY <3>1, <3>2, <3>3, <3>4
  <2>5. Preparing(Ready) = 0 /\ Ending(Ready) = 0 /\ Ready \in ThreadStates /\ Ready.at = "ready"
    BY ReadyTypes DEF Preparing, Ending
  <2>6. /\ Preparing(Ready) + Prompted' + Prepares = Preparing(th[t]) + Prompted + Prepares'
        /\ Outstanding' + Ending(Ready) + Calls = Outstanding + Ending(th[t]) + Calls'
    BY <1>2, <1>5, <2>4, <2>5, Ones
  <2>. QED BY <1>3, <1>4, <1>5, <1>7, <2>3, <2>5, <2>6, ThreadGoesOn
<1>. QED BY <1>6, <1>7 DEF Commit

LEMMA FinishKeeps == ASSUME CallInv, NEW t \in Threads, Finish(t) PROVE CallInv'
<1>0. EcallTypes /\ ec \in EcallStates /\ th[t] \in ThreadStates /\ "closing" \in Places
  BY DEF CallInv, EcallTypes, Places
<1>1. th[t].at = "finish" /\ UNCHANGED <<timers, playing, inbox, ecallQ>> /\ Others
  BY DEF Finish
<1>2. Preparing(th[t]) = 0 /\ Ending(th[t]) = 1
  BY <1>1 DEF Preparing, Ending
<1>3. ec.step = "CALLING" /\ ~ec.stopped
  BY <1>2, InHand
<1>. DEFINE p == [th[t] EXCEPT !.at = "closing"]
<1>4. ec' = [ec EXCEPT !.step = "IDLE", !.stopped = TRUE, !.mode = "ERA"] /\ Goto(t, p)
  BY <1>3 DEF Finish
<1>5. p \in ThreadStates /\ p.at = "closing" /\ p.res = th[t].res
  BY <1>0 DEF ThreadStates
<1>. HIDE DEF p
<1>6. ec' \in EcallStates /\ ec'.step = "IDLE" /\ ec'.stopped
  BY <1>0, <1>4 DEF EcallStates
<1>7. ServiceTypes' /\ Outstanding' = Outstanding /\ Outstanding \in Nat
  BY <1>1, ThreadAlone
<1>8. /\ StoppedWhenIdle' /\ WaitsBetween' /\ playing' \in Tones /\ Prompted' = Prompted
      /\ Prepares = 0 /\ Prepares' = 0 /\ Calls = 1 /\ Calls' = 0 /\ Preparing(p) = 0 /\ Ending(p) = 0
  BY <1>0, <1>1, <1>3, <1>5, <1>6
     DEF StoppedWhenIdle, WaitsBetween, EcallTypes, Prompted, Prepares, Calls, Preparing, Ending
<1>9. /\ Preparing(p) + Prompted' + Prepares = Preparing(th[t]) + Prompted + Prepares'
      /\ Outstanding' + Ending(p) + Calls = Outstanding + Ending(th[t]) + Calls'
  BY <1>2, <1>7, <1>8, Ones
<1>10. t = "task" \/ p.res \in Dropping
  BY <1>1, <1>5 DEF CallInv, PlayerDrops, Threads
<1>. QED BY <1>3, <1>4, <1>5, <1>6, <1>7, <1>8, <1>9, <1>10, ThreadGoesOn

LEMMA CloseKeeps == ASSUME CallInv, NEW t \in Threads, CloseMade(t) \/ CloseDropped(t) PROVE CallInv'
<1>0. EcallTypes /\ ec \in EcallStates /\ th[t] \in ThreadStates /\ StoppedWhenIdle /\ WaitsBetween
  BY DEF CallInv, EcallTypes
<1>1. th[t].at = "closing" /\ UNCHANGED <<inbox, ecallQ>> /\ Others
  BY DEF CloseMade, CloseDropped
<1>2. Preparing(th[t]) = 0 /\ Ending(th[t]) = 0
  BY <1>1 DEF Preparing, Ending
<1>3. ServiceTypes' /\ Outstanding' = Outstanding /\ Outstanding \in Nat
  BY <1>1, ThreadAlone
<1>4. CASE CloseMade(t)
  <2>1. /\ th[t].res \notin Dropping /\ Goto(t, Ready) /\ UNCHANGED playing
        /\ ec' = [ec EXCEPT !.auto_answer = TRUE, !.urc_listening = TRUE]
    BY <1>4 DEF CloseMade
  <2>2. ec.step = "IDLE"
    BY <1>1, <2>1 DEF CallInv, PlayerDrops, ClosedBetween, Threads
  <2>3. ec' \in EcallStates /\ ec'.step = ec.step /\ ec'.stopped = ec.stopped
    BY <1>0, <2>1 DEF EcallStates
  <2>4. WaitsBetween'
    BY <2>2, <2>3 DEF WaitsBetween
  <2>5. Ready \in ThreadStates /\ Ready.at = "ready" /\ Preparing(Ready) = 0 /\ Ending(Ready) = 0
    BY ReadyTypes DEF Preparing, Ending
  <2>. QED BY <1>1, <1>2, <2>1, <2>3, <2>4, <2>5, ThreadMoves
<1>5. CASE CloseDropped(t)
  <2>1. Play(t, "A_ECALL_END", th[t].res) /\ UNCHANGED <<ec, timers>>
    BY <1>5 DEF CloseDropped
  <2>2. "A_ECALL_END" \in Contexts /\ th[t].res \in Results
    BY <1>0 DEF Contexts, ThreadStates
  <2>3. PICK p \in ThreadStates :
          /\ Goto(t, p) /\ playing' \in Tones
          /\ Preparing(p) + Prompted' = Prompted /\ Ending(p) = 0
          /\ p.at \notin {"stopping", "finish", "closing"}
    <3>1. Prompted \in {0, 1}
      BY DEF Prompted
    <3>. QED BY <1>0, <2>1, <2>2, <3>1, PlayGoesOn
  <2>4. /\ StoppedWhenIdle' /\ WaitsBetween' /\ Prepares' = Prepares /\ Calls' = Calls
        /\ ec' \in EcallStates /\ ec'.step = ec.step
    BY <1>0, <2>1 DEF StoppedWhenIdle, WaitsBetween, Prepares, Calls
  <2>5. /\ Preparing(p) + Prompted' + Prepares = Preparing(th[t]) + Prompted + Prepares'
        /\ Outstanding' + Ending(p) + Calls = Outstanding + Ending(th[t]) + Calls'
    BY <1>2, <1>3, <2>3, <2>4, Ones
  <2>. QED BY <1>3, <2>3, <2>4, <2>5, ThreadGoesOn
<1>. QED BY <1>4, <1>5

LEMMA ToneOverKeeps == CallInv /\ ToneOver => CallInv'
<1>. SUFFICES ASSUME CallInv, ToneOver PROVE CallInv'
  OBVIOUS
<1>0. /\ EcallTypes /\ ec \in EcallStates /\ StoppedWhenIdle /\ WaitsBetween
      /\ "player" \in Threads /\ "cb" \in Places /\ playing.ctx \in Marked /\ playing.res \in Results
  BY DEF CallInv, EcallTypes, Threads, Places, Tones
<1>. DEFINE p == At("cb", playing.ctx, playing.res)
<1>1. /\ th["player"] = Ready /\ playing' = Silence /\ Goto("player", p)
      /\ UNCHANGED <<ec, timers, inbox, ecallQ>> /\ Others
  BY DEF ToneOver
<1>2. p \in ThreadStates /\ p.at = "cb" /\ p.ctx = playing.ctx
  BY <1>0, ThreadStateTypes
<1>. HIDE DEF p
<1>3. /\ Preparing(p) = Prompted /\ Ending(p) = 0 /\ Preparing(th["player"]) = 0
      /\ Ending(th["player"]) = 0 /\ Prompted' = 0 /\ playing' \in Tones
  BY <1>1, <1>2, ReadyTypes DEF Preparing, Ending, Prompted
<1>4. ServiceTypes' /\ Outstanding' = Outstanding /\ Outstanding \in Nat
  BY <1>1, ThreadAlone
<1>5. /\ StoppedWhenIdle' /\ WaitsBetween' /\ Prepares' = Prepares /\ Calls' = Calls
      /\ ec' \in EcallStates /\ ec'.step = ec.step
  BY <1>0, <1>1 DEF StoppedWhenIdle, WaitsBetween, Prepares, Calls
<1>6. /\ Preparing(p) + Prompted' + Prepares = Preparing(th["player"]) + Prompted + Prepares'
      /\ Outstanding' + Ending(p) + Calls = Outstanding + Ending(th["player"]) + Calls'
  BY <1>3, <1>4, <1>5, Ones
<1>. QED BY <1>0, <1>1, <1>2, <1>3, <1>4, <1>5, <1>6, ThreadGoesOn

LEMMA CallInvStep == NobodyMayStop /\ CallInv /\ [Next]_vars => CallInv'
<1>. SUFFICES ASSUME NobodyMayStop, CallInv, [Next]_vars PROVE CallInv'
  OBVIOUS
<1>1. ASSUME NEW t \in Threads, ThreadNext(t) PROVE CallInv'
  BY <1>1, ContinueKeeps, CommitKeeps, FinishKeeps, CloseKeeps, WaysKeep DEF ThreadNext
<1>2. CASE TaskStep
  <2>1. "task" \in Threads
    BY DEF Threads
  <2>. QED BY <1>1, <1>2, <2>1, StartKeeps, MessagesKeep, TaskKeeps DEF TaskStep
<1>3. CASE PlayerStep
  <2>1. "player" \in Threads
    BY DEF Threads
  <2>. QED BY <1>1, <1>3, <2>1, ToneOverKeeps DEF PlayerStep
<1>4. CASE TimerStep
  BY <1>4, MessagesKeep DEF TimerStep
<1>5. CASE ServiceStep
  BY <1>5, ServiceKeeps
<1>6. CASE SendersNext
  BY <1>6, SendersKeep
<1>7. CASE UNCHANGED vars
  <2>1. UNCHANGED <<ec, th, timers, playing>> /\ UNCHANGED serviceVars
    BY <1>7 DEF vars, ecallVars
  <2>2. ServiceTypes' /\ Outstanding' = Outstanding
    BY <2>1 DEF CallInv, ServiceTypes, Outstanding, serviceVars
  <2>. QED BY <2>1, <2>2, OnlyService
<1>. QED BY <1>2, <1>3, <1>4, <1>5, <1>6, <1>7 DEF Next

----------------------------------------------------------------------------
(* The MSD of the call.  Its invariant rests on the one above.             *)

HasMsd == \E i \in 1..Len(buf) : buf[i].id = msds /\ buf[i].flag # "SAVED"

StoreTypes == buf \in Seq(Records(Nat)) /\ Len(buf) <= MAX_NUMBER_MSD /\ msds \in Nat

\* The call resumed at boot is the first thing ECALL is asked for, and nothing happens to its
\* MSD before.
FreshMessages == {m \in Messages : m.arg # "resumed"}
ResumedFirst ==
  /\ ecallQ # <<>> /\ Tail(ecallQ) \in Seq(FreshMessages)
  /\ Head(ecallQ).arg = "resumed" /\ Head(ecallQ).ev \in Events
  /\ ec.step = "IDLE" /\ playing = Silence /\ HasMsd
  /\ \A t \in Threads : th[t].at = "ready"
ResumedOnce == ecallQ \in Seq(FreshMessages) \/ ResumedFirst

\* Where nobody has pressed the button, no press is on its way and the player ends no call.
Unpressed == {m \in Messages : m.ev # "SOS_PRESSED"}
CancelKnown ==
  ~cancelled =>
    /\ ~ec.sos_pressed /\ ecallQ \in Seq(Unpressed)
    /\ th["player"].at \notin {"finish", "closing"}

\* The call has no MSD yet: it goes to starting_continue.
ToContinue(p) == p.at = "continue" \/ (OneAndOne /\ p.at = "cb" /\ p.ctx = "A_ECALL")
BeforeMsd == (OneAndOne /\ playing.ctx = "A_ECALL") \/ \E t \in Threads : ToContinue(th[t])

\* A call that is prepared, or made and not over.
Underway == ec.step = "PREPARE" \/ running \/ Count(inbox, "START") # 0

MsdThere ==
  /\ ~cancelled /\ Underway
  /\ ec.resumed \/ (ec.event # "TEST" /\ ~BeforeMsd)
  => HasMsd

MsdInv == StoreTypes /\ ResumedOnce /\ CancelKnown /\ MsdThere

LEMMA MsdInvMeans == CallInv /\ MsdInv => MsdOfCallKept
<1>. SUFFICES ASSUME CallInv, MsdInv, running, ec.event # "TEST", ~cancelled PROVE HasMsd
  BY DEF MsdOfCallKept, HasMsd
<1>1. Outstanding >= 1
  BY Counted DEF CallInv, Outstanding
<1>2. Outstanding \in Nat /\ Ending(th["task"]) \in {0, 1} /\ Ending(th["player"]) \in {0, 1}
  BY Counted DEF CallInv, Ending
<1>3. ec.step = "CALLING"
  BY <1>1, <1>2 DEF CallInv, OneMade
<1>4. /\ Preparing(th["task"]) \in {0, 1} /\ Preparing(th["player"]) \in {0, 1} /\ Prompted \in {0, 1}
      /\ Preparing(th["task"]) + Preparing(th["player"]) + Prompted = 0
  BY <1>3 DEF CallInv, OnePrepared, Preparing, Prompted
<1>5. Preparing(th["task"]) = 0 /\ Preparing(th["player"]) = 0 /\ Prompted = 0
  BY <1>4
<1>6. ~BeforeMsd
  BY <1>5 DEF BeforeMsd, ToContinue, Preparing, Prompted, Threads
<1>. QED BY <1>6 DEF MsdInv, MsdThere, Underway

LEMMA MsdInvInit == Init => MsdInv
<1>. SUFFICES ASSUME Init PROVE MsdInv
  OBVIOUS
<1>1. /\ ec.step = "IDLE" /\ playing = Silence /\ \A t \in Threads : th[t].at = "ready"
      /\ running = FALSE /\ inbox = <<>> /\ ec.sos_pressed = FALSE /\ ec.resumed = FALSE
      /\ ec.event = "MANUAL_SOS"
  BY ReadyTypes DEF Init, EcallInit, ServiceIdle
<1>2. ~Underway
  BY <1>1, CountEmpty DEF Underway
<1>3. CASE buf = <<>> /\ ecallQ = <<>> /\ msds = 0
  <2>1. StoreTypes
    BY <1>3, MaxNumberAssumption DEF StoreTypes
  <2>2. CancelKnown
    BY <1>1, <1>3 DEF CancelKnown, Threads
  <2>3. ResumedOnce
    BY <1>3 DEF ResumedOnce
  <2>. QED BY <1>2, <2>1, <2>2, <2>3 DEF MsdInv, MsdThere
<1>4. ASSUME NEW e \in {"MANUAL_SOS", "AUTO"}, buf = <<[id |-> 1, flag |-> "INBAND"]>>, msds = 1,
             ecallQ = <<Request(e, "resumed")>>
      PROVE  MsdInv
  <2>. DEFINE m == [id |-> 1, flag |-> "INBAND"]
              r == Request(e, "resumed")
  <2>1. m \in Records(Nat) /\ m.id = 1 /\ m.flag = "INBAND"
    BY DEF Records, Flags
  <2>2. r \in Messages /\ r.ev = e /\ r.arg = "resumed" /\ e \in Events
    <3>1. e \in Events /\ "resumed" \in Origins
      BY DEF Events, Origins
    <3>. QED BY <3>1, Senders DEF Request
  <2>. HIDE DEF m, r
  <2>3. buf = <<m>> /\ ecallQ = <<r>>
    BY <1>4 DEF m, r
  <2>4. StoreTypes
    BY <1>4, <2>1, <2>3, MaxNumberAssumption DEF StoreTypes
  <2>5. HasMsd
    <3>1. 1 \in 1..Len(buf) /\ buf[1].id = msds /\ buf[1].flag # "SAVED"
      BY <1>4, <2>1, <2>3
    <3>. QED BY <3>1 DEF HasMsd
  <2>6. ResumedFirst
    BY <1>1, <2>2, <2>3, <2>5 DEF ResumedFirst
  <2>7. CancelKnown
    <3>1. r \in Unpressed
      BY <2>2 DEF Unpressed, Events
    <3>. QED BY <1>1, <2>3, <3>1 DEF CancelKnown, Threads
  <2>. QED BY <1>2, <2>4, <2>6, <2>7 DEF MsdInv, MsdThere, ResumedOnce
<1>. QED BY <1>3, <1>4 DEF Init

\* A step that leaves the MSD of the call in the storage.
LEMMA StoreAlone ==
  ASSUME MsdInv, StoreTypes', HasMsd => HasMsd', cancelled => cancelled', ResumedOnce',
         ~cancelled' => ecallQ' \in Seq(Unpressed),
         ec'.sos_pressed => ec.sos_pressed, ec'.resumed => ec.resumed, ec'.event = ec.event,
         ~cancelled /\ th'["player"].at \in {"finish", "closing"} =>
           th["player"].at \in {"finish", "closing"},
         BeforeMsd => BeforeMsd', Underway' => Underway
  PROVE  MsdInv'
<1>1. CancelKnown'
  BY DEF MsdInv, CancelKnown
<1>2. MsdThere'
  BY DEF MsdInv, MsdThere
<1>. QED BY <1>1, <1>2 DEF MsdInv

LEMMA StoreUnchanged ==
  ASSUME MsdInv, UNCHANGED <<buf, msds>>
  PROVE  StoreTypes' /\ (HasMsd => HasMsd')
BY DEF MsdInv, StoreTypes, HasMsd

\* What the mailbox of ECALL holds when a message is taken, added or neither.
LEMMA QueueTaken ==
  ASSUME MsdInv, NEW ev, Receive(ev), Handled, UNCHANGED cancelled
  PROVE  /\ ResumedOnce' /\ (~cancelled' => ecallQ' \in Seq(Unpressed))
         /\ ecallQ' \in Seq(FreshMessages)
         /\ ev \notin Events => ecallQ \in Seq(FreshMessages)
         /\ ~cancelled => ev # "SOS_PRESSED"
<1>1. ecallQ # <<>> /\ ecallQ' = Tail(ecallQ) /\ Head(ecallQ).ev = ev
  BY DEF Receive, Handled
<1>2. ecallQ' \in Seq(FreshMessages)
  <2>1. CASE ecallQ \in Seq(FreshMessages)
    BY <1>1, <2>1
  <2>2. CASE ResumedFirst
    BY <1>1, <2>2 DEF ResumedFirst
  <2>. QED BY <2>1, <2>2 DEF MsdInv, ResumedOnce
<1>3. ~cancelled => ecallQ' \in Seq(Unpressed) /\ Head(ecallQ) \in Unpressed
  BY <1>1 DEF MsdInv, CancelKnown
<1>4. ev \notin Events => ecallQ \in Seq(FreshMessages)
  BY <1>1 DEF MsdInv, ResumedOnce, ResumedFirst
<1>. QED BY <1>1, <1>2, <1>3, <1>4 DEF ResumedOnce, Unpressed

LEMMA QueueGrows ==
  ASSUME CallInv, MsdInv, NEW m \in FreshMessages, ecallQ' = Append(ecallQ, m),
         UNCHANGED <<th, playing, buf, msds>>, ec'.step = ec.step,
         cancelled => cancelled', m.ev = "SOS_PRESSED" => cancelled'
  PROVE  ResumedOnce' /\ (~cancelled' => ecallQ' \in Seq(Unpressed))
<1>1. ~cancelled' => ecallQ' \in Seq(Unpressed)
  <2>1. ~cancelled' => m \in Unpressed
    BY DEF FreshMessages, Unpressed
  <2>. QED BY <2>1 DEF MsdInv, CancelKnown
<1>2. CASE ecallQ \in Seq(FreshMessages)
  BY <1>1, <1>2 DEF ResumedOnce
<1>3. CASE ResumedFirst
  <2>1. ecallQ # <<>> /\ Tail(ecallQ) \in Seq(FreshMessages)
    BY <1>3 DEF ResumedFirst
  <2>2. ecallQ' # <<>> /\ Head(ecallQ') = Head(ecallQ) /\ Tail(ecallQ') = Append(Tail(ecallQ), m)
    BY <2>1, HeadTailAppend DEF CallInv, ServiceTypes
  <2>3. Tail(ecallQ') \in Seq(FreshMessages)
    BY <2>1, <2>2
  <2>4. HasMsd'
    BY <1>3 DEF ResumedFirst, HasMsd
  <2>5. ResumedFirst'
    BY <1>3, <2>2, <2>3, <2>4 DEF ResumedFirst
  <2>. QED BY <1>1, <2>5 DEF ResumedOnce
<1>. QED BY <1>2, <1>3 DEF MsdInv, ResumedOnce

\* Once something goes on, the call resumed at boot is no longer asked for.
LEMMA NotAtBoot ==
  ASSUME CallInv, MsdInv,
         (\E t \in Threads : th[t].at # "ready") \/ playing # Silence \/ ec.step # "IDLE"
         \/ Outstanding # 0
  PROVE  ecallQ \in Seq(FreshMessages)
<1>. SUFFICES ASSUME ResumedFirst PROVE FALSE
  BY DEF MsdInv, ResumedOnce
<1>1. ec.step = "IDLE" /\ playing = Silence /\ \A t \in Threads : th[t].at = "ready"
  BY DEF ResumedFirst
<1>2. Outstanding \in Nat /\ Outstanding = 0
  BY <1>1, Counted DEF CallInv, OneMade, Ending, Threads
<1>. QED BY <1>1, <1>2

\* Where ECALL is idle nothing of a call is under way, and while ERA_ACTION makes a call no
\* other is asked of it.
LEMMA NothingUnderway ==
  ASSUME CallInv
  PROVE  /\ ec.step = "IDLE" => ~Underway
         /\ running => ec.step = "CALLING" /\ Count(inbox, "START") = 0 /\ Outstanding # 0
<1>1. /\ Count(inbox, "START") \in Nat /\ Count(ecallQ, "ERA_A_CALLBACK") \in Nat
      /\ Outstanding \in Nat
  BY Counted DEF CallInv
<1>2. Outstanding <= 1 /\ (Outstanding # 0 => ec.step = "CALLING")
  BY <1>1 DEF CallInv, OneMade, Ending
<1>3. running => Outstanding >= 1 + Count(inbox, "START")
  BY <1>1 DEF Outstanding
<1>4. Outstanding >= Count(inbox, "START")
  BY <1>1 DEF Outstanding
<1>. QED BY <1>1, <1>2, <1>3, <1>4 DEF Underway

\* Neither the threads nor the mailbox of ECALL change.
LEMMA StillFirst ==
  ASSUME MsdInv, UNCHANGED <<ecallQ, th, playing, cancelled>>, ec'.step = ec.step, HasMsd => HasMsd'
  PROVE  ResumedOnce' /\ (~cancelled' => ecallQ' \in Seq(Unpressed))
BY DEF MsdInv, ResumedOnce, ResumedFirst, CancelKnown

LEMMA SameThreads ==
  ASSUME UNCHANGED <<th, playing>>
  PROVE  BeforeMsd' = BeforeMsd
BY DEF BeforeMsd

\* A thread goes on and leaves the storage alone.
LEMMA ThreadLeavesStore ==
  ASSUME CallInv, MsdInv, NEW t \in Threads, NEW p, Goto(t, p), UNCHANGED <<buf, msds, cancelled>>,
         ResumedOnce', ~cancelled' => ecallQ' \in Seq(Unpressed),
         ec'.sos_pressed => ec.sos_pressed, ec'.resumed => ec.resumed, ec'.event = ec.event,
         OneAndOne /\ playing.ctx = "A_ECALL" => playing'.ctx = "A_ECALL" \/ ToContinue(p),
         ToContinue(th[t]) => ToContinue(p) \/ (OneAndOne /\ playing'.ctx = "A_ECALL"),
         t = "player" /\ ~cancelled /\ p.at \in {"finish", "closing"} =>
           th[t].at \in {"finish", "closing"},
         Underway' => Underway
  PROVE  MsdInv'
<1>1. th'[t] = p /\ \A u \in Threads : u # t => th'[u] = th[u]
  BY DEF CallInv, EcallTypes, Goto
<1>2. BeforeMsd => BeforeMsd'
  <2>1. \A u \in Threads : ToContinue(th[u]) =>
          (\E v \in Threads : ToContinue(th'[v])) \/ (OneAndOne /\ playing'.ctx = "A_ECALL")
    BY <1>1
  <2>2. OneAndOne /\ playing.ctx = "A_ECALL" =>
          (OneAndOne /\ playing'.ctx = "A_ECALL") \/ \E v \in Threads : ToContinue(th'[v])
    BY <1>1
  <2>. QED BY <2>1, <2>2 DEF BeforeMsd, ToContinue
<1>3. ~cancelled /\ th'["player"].at \in {"finish", "closing"} => th["player"].at \in {"finish", "closing"}
  BY <1>1 DEF Threads
<1>. QED BY <1>2, <1>3, StoreUnchanged, StoreAlone

\* The task or the timers, with a message and no thread.
LEMMA MessagesLeaveStore ==
  ASSUME CallInv, MsdInv, UNCHANGED <<th, playing, buf, msds>>, cancelled => cancelled',
         ResumedOnce', ~cancelled' => ecallQ' \in Seq(Unpressed),
         ec'.sos_pressed => ec.sos_pressed, ec'.resumed => ec.resumed, ec'.event = ec.event,
         ec'.step = ec.step, UNCHANGED <<running, inbox>>
  PROVE  MsdInv'
<1>1. Underway' = Underway
  BY DEF Underway
<1>. QED BY <1>1, SameThreads, StoreUnchanged, StoreAlone

LEMMA MsdSendersKeep ==
  ASSUME NobodyMayStop, CallInv, MsdInv, SendersNext
  PROVE  MsdInv'
<1>1. ASSUME NEW kind, NEW m \in Messages, m.arg # "resumed", Sends(kind, m),
             cancelled => cancelled', m.ev = "SOS_PRESSED" => cancelled'
      PROVE  MsdInv'
  <2>1. /\ ecallQ' = Append(ecallQ, m) /\ UNCHANGED <<ec, th, playing, buf, msds, running, inbox>>
    BY <1>1 DEF Sends, Others
  <2>2. m \in FreshMessages
    BY <1>1 DEF FreshMessages
  <2>3. ResumedOnce' /\ (~cancelled' => ecallQ' \in Seq(Unpressed))
    BY <1>1, <2>1, <2>2, QueueGrows
  <2>. QED BY <1>1, <2>1, <2>3, MessagesLeaveStore
<1>2. CASE CallRequested
  <2>1. PICK event \in {"MANUAL_SOS", "AUTO"} : Sends(event, Request(event, "fresh"))
    BY <1>2 DEF CallRequested
  <2>2. event \in Events /\ "fresh" \in Origins /\ event # "SOS_PRESSED"
    BY DEF Events, Origins
  <2>3. Request(event, "fresh") \in Messages /\ Request(event, "fresh").ev = event
        /\ Request(event, "fresh").arg # "resumed"
    BY <2>2, Senders DEF Request
  <2>. QED BY <1>1, <1>2, <2>1, <2>2, <2>3 DEF CallRequested
<1>3. CASE TestRequested
  <2>1. Request("TEST", "tested") \in Messages /\ Request("TEST", "tested").ev = "TEST"
        /\ Request("TEST", "tested").arg # "resumed"
    BY Senders DEF Events, Origins, Request
  <2>. QED BY <1>1, <1>3, <2>1 DEF TestRequested
<1>4. CASE TestAbandoned
  <2>1. UNCHANGED <<ec, th, playing, buf, msds, running, inbox, ecallQ, cancelled>>
    BY <1>4 DEF TestAbandoned, serviceVars
  <2>2. ResumedOnce' /\ (~cancelled' => ecallQ' \in Seq(Unpressed))
    BY <2>1, StillFirst, StoreUnchanged
  <2>. QED BY <2>1, <2>2, MessagesLeaveStore
<1>5. CASE CancelRequested
  <2>1. Sends("SOS_PRESSED", Plain("SOS_PRESSED")) /\ cancelled'
    BY <1>5 DEF CancelRequested, NobodyMayStop, Sends
  <2>2. Plain("SOS_PRESSED") \in Messages /\ Plain("SOS_PRESSED").arg # "resumed"
    BY Senders DEF Plain
  <2>. QED BY <1>1, <2>1, <2>2
<1>6. CASE Reported
  <2>1. PICK kind \in UrcKinds \cup {"SMS_REQUEST", "SMS_SENT", "DEREGISTRATION"} : Sends(kind, Plain(kind))
    BY <1>6 DEF Reported
  <2>2. Plain(kind) \in Messages /\ Plain(kind).arg # "resumed" /\ Plain(kind).ev # "SOS_PRESSED"
    BY Senders DEF UrcKinds, Plain
  <2>. QED BY <1>1, <1>6, <2>1, <2>2 DEF Reported
<1>. QED BY <1>2, <1>3, <1>4, <1>5, <1>6 DEF SendersNext

\* The hand-over of an in-band MSD to the SMS task does not make it one that was delivered.
LEMMA MoveKeepsMsd ==
  ASSUME StoreTypes, buf' = MoveBuf(buf, "INBAND", "SMS"), UNCHANGED msds
  PROVE  StoreTypes' /\ (HasMsd => HasMsd')
<1>. DEFINE n == FindNumb(buf, "INBAND")
<1>1. buf \in Seq(Records(Nat)) /\ Len(buf) \in Nat /\ "SMS" \in Flags
  BY DEF StoreTypes, Flags
<1>2. /\ buf' \in Seq(Records(Nat)) /\ Len(buf') = Len(buf)
      /\ \A i \in 1..Len(buf) : buf'[i].id = buf[i].id
  BY <1>1, MoveBufProperties
<1>3. \A i \in 1..Len(buf) : buf[i].flag # "SAVED" => buf'[i].flag # "SAVED"
  <2>1. CASE n = NoMsd
    BY <2>1 DEF MoveBuf
  <2>2. CASE n # NoMsd
    <3>. DEFINE k == n + 1
                e == [buf[k] EXCEPT !.flag = "SMS"]
    <3>1. n \in 0..(Len(buf) - 1)
      BY <1>1, <2>2, FindNumbProperties
    <3>2. k \in 1..Len(buf)
      BY <1>1, <3>1
    <3>3. buf[k] \in Records(Nat)
      BY <1>1, <3>2, ElementOfSeq
    <3>4. e \in Records(Nat) /\ e.flag = "SMS"
      BY <1>1, <3>3 DEF Records
    <3>5. buf' = [buf EXCEPT ![k] = e]
      BY <2>2 DEF MoveBuf
    <3>. HIDE DEF k, e
    <3>6. \A j \in 1..Len(buf) : buf'[j] = IF j = k THEN e ELSE buf[j]
      BY <1>1, <3>2, <3>4, <3>5, ExceptSeq
    <3>. QED BY <3>4, <3>6
  <2>. QED BY <2>1, <2>2
<1>4. HasMsd => HasMsd'
  BY <1>2, <1>3 DEF HasMsd
<1>. QED BY <1>2, <1>4 DEF StoreTypes

LEMMA DeleteKeepsTypes ==
  ASSUME StoreTypes
  PROVE  /\ DeleteBuf(buf, FindNumb(buf, "INBAND")) \in Seq(Records(Nat))
         /\ Len(DeleteBuf(buf, FindNumb(buf, "INBAND"))) <= MAX_NUMBER_MSD
<1>. DEFINE n == FindNumb(buf, "INBAND")
<1>1. buf \in Seq(Records(Nat)) /\ Len(buf) \in Nat /\ MAX_NUMBER_MSD \in Nat
  BY MaxNumberAssumption DEF StoreTypes
<1>2. n \in Int
  BY <1>1, FindNumbProperties DEF NoMsd
<1>. HIDE DEF n
<1>3. /\ DeleteBuf(buf, n) \in Seq(Records(Nat))
      /\ DeleteBuf(buf, n) = buf \/ Len(DeleteBuf(buf, n)) = Len(buf) - 1
  BY <1>1, <1>2, DeleteBufProperties
<1>. QED BY <1>1, <1>3 DEF StoreTypes, n

LEMMA MsdServiceKeeps ==
  ASSUME CallInv, MsdInv, ServiceStep
  PROVE  MsdInv'
<1>1. UNCHANGED <<ec, th, playing, msds, cancelled>> /\ StoreTypes /\ ServiceTypes
  BY DEF ServiceStep, MsdInv, CallInv
<1>2. CASE TakeStart
  <2>1. /\ inbox # <<>> /\ Head(inbox).ev = "START" /\ inbox' = Tail(inbox)
        /\ UNCHANGED <<ecallQ, buf>>
    BY <1>2 DEF TakeStart
  <2>2. Count(Tail(inbox), "START") = Count(inbox, "START") - 1 /\ Tail(inbox) \in Seq(Messages)
    BY <1>1, <2>1, CountTail DEF ServiceTypes
  <2>3. Count(inbox, "START") # 0
    <3>1. Count(Tail(inbox), "START") \in Nat
      BY <2>2, CountNat
    <3>. QED BY <2>2, <3>1
  <2>4. Underway
    BY <2>3 DEF Underway
  <2>5. ResumedOnce' /\ (~cancelled' => ecallQ' \in Seq(Unpressed))
    BY <1>1, <2>1, StillFirst, StoreUnchanged
  <2>. QED BY <1>1, <2>1, <2>4, <2>5, SameThreads, StoreUnchanged, StoreAlone
<1>3. ~TakeStop
  <2>. SUFFICES ASSUME TakeStop PROVE FALSE
    OBVIOUS
  <2>1. inbox # <<>> /\ Head(inbox).ev = "FORCED_STOP" /\ inbox \in Seq(Messages)
    BY <1>1 DEF TakeStop, ServiceTypes
  <2>2. Head(inbox) \in Messages
    BY <2>1
  <2>. QED BY <2>1, <2>2 DEF Messages
<1>4. CASE HandOver
  <2>1. buf' = MoveBuf(buf, "INBAND", "SMS") /\ UNCHANGED <<inbox, running, ecallQ>>
    BY <1>4 DEF HandOver
  <2>2. StoreTypes' /\ (HasMsd => HasMsd')
    BY <1>1, <2>1, MoveKeepsMsd
  <2>3. ResumedOnce' /\ (~cancelled' => ecallQ' \in Seq(Unpressed))
    BY <1>1, <2>1, <2>2, StillFirst
  <2>4. Underway' = Underway
    BY <1>1, <2>1 DEF Underway
  <2>. QED BY <1>1, <2>2, <2>3, <2>4, SameThreads, StoreAlone
<1>5. ASSUME NEW r \in Endings, End(r) PROVE MsdInv'
  <2>1. running /\ ~running' /\ buf' \in Disposed /\ UNCHANGED <<inbox, ecallQ>>
    BY <1>5 DEF End
  <2>2. StoreTypes'
    <3>1. \/ buf' = buf
          \/ buf' = DeleteBuf(buf, FindNumb(buf, "INBAND"))
          \/ buf' = MoveBuf(buf, "INBAND", "SMS")
      BY <2>1 DEF Disposed
    <3>. QED BY <1>1, <3>1, MoveKeepsMsd, DeleteKeepsTypes DEF StoreTypes
  <2>3. ~Underway'
    BY <1>1, <2>1, NothingUnderway DEF Underway
  <2>4. ResumedOnce'
    BY <1>1, <2>1, NothingUnderway, NotAtBoot DEF ResumedOnce
  <2>5. CancelKnown'
    BY <1>1, <2>1 DEF MsdInv, CancelKnown
  <2>. QED BY <2>2, <2>3, <2>4, <2>5 DEF MsdInv, MsdThere
<1>6. CASE ToneStarts \/ ToneEnds
  <2>1. /\ UNCHANGED <<inbox, running, buf>>
        /\ \/ UNCHANGED ecallQ
           \/ ecallQ' = Append(ecallQ, ResultMsg(result))
           \/ ecallQ' = Append(ecallQ, ResultMsg(tone))
    BY <1>6 DEF ToneStarts, ToneEnds
  <2>2. \A r \in Results : ResultMsg(r) \in FreshMessages /\ ResultMsg(r).ev # "SOS_PRESSED"
    <3>1. "resumed" \notin Results
      BY DEF Results, Endings, FinishResults
    <3>2. \A r \in Results : ResultMsg(r).arg = r
      BY DEF ResultMsg
    <3>. QED BY <3>1, <3>2, Senders DEF FreshMessages
  <2>3. ResumedOnce' /\ (~cancelled' => ecallQ' \in Seq(Unpressed))
    BY <1>1, <2>1, <2>2, StillFirst, QueueGrows, StoreUnchanged DEF ServiceTypes
  <2>. QED BY <1>1, <2>1, <2>3, MessagesLeaveStore
<1>. QED BY <1>2, <1>3, <1>4, <1>5, <1>6 DEF ServiceStep

LEMMA MsdMessagesKeep ==
  ASSUME CallInv, MsdInv, UNCHANGED cancelled,
         Refuse \/ SosPressed \/ UrcCreg \/ UrcConnected \/ Dereg \/ SmsRequest \/ SmsSent
         \/ DeregExpires \/ CallAnswerExpires
  PROVE  MsdInv'
<1>0. ec \in EcallStates
  BY DEF CallInv, EcallTypes
<1>1. ASSUME NEW ev, Receive(ev), Handled, Others, UNCHANGED <<th, playing, buf, msds, inbox>>,
             ec'.sos_pressed => ec.sos_pressed \/ ev = "SOS_PRESSED", ec'.resumed = ec.resumed,
             ec'.event = ec.event, ec'.step = ec.step
      PROVE  MsdInv'
  <2>1. /\ ResumedOnce' /\ (~cancelled' => ecallQ' \in Seq(Unpressed))
        /\ ~cancelled => ev # "SOS_PRESSED"
    BY <1>1, QueueTaken
  <2>2. CASE ~cancelled
    BY <1>1, <2>1, <2>2, MessagesLeaveStore DEF Others
  <2>3. CASE cancelled
    <3>1. StoreTypes'
      BY <1>1, StoreUnchanged
    <3>. QED BY <2>1, <2>3, <3>1 DEF MsdInv, CancelKnown, MsdThere
  <2>. QED BY <2>2, <2>3
<1>2. CASE Refuse
  <2>1. PICK event \in Events, origin \in Origins :
          /\ Receive(event) /\ Handled /\ Others
          /\ UNCHANGED <<ec, th, playing, buf, msds, inbox>>
    BY <1>2 DEF Refuse
  <2>. QED BY <1>1, <2>1
<1>3. CASE SosPressed
  <2>. DEFINE pressed == ec.sos_pressed \/ (ec.step = "PREPARE" /\ ~testing)
  <2>1. /\ Receive("SOS_PRESSED") /\ Handled /\ Others
        /\ UNCHANGED <<th, playing, buf, msds, inbox>> /\ ec' = [ec EXCEPT !.sos_pressed = pressed]
    BY <1>3 DEF SosPressed, Idle
  <2>. HIDE DEF pressed
  <2>2. ec'.resumed = ec.resumed /\ ec'.event = ec.event /\ ec'.step = ec.step
    BY <1>0, <2>1 DEF EcallStates
  <2>. QED BY <1>1, <2>1, <2>2
<1>4. CASE UrcCreg
  <2>1. /\ Receive("URC_CREG") /\ Handled /\ Others /\ UNCHANGED <<th, playing, buf, msds, inbox>>
        /\ ec' = ec \/ ec' = [ec EXCEPT !.urc_listening = FALSE]
    BY <1>4 DEF UrcCreg
  <2>2. /\ ec'.sos_pressed = ec.sos_pressed /\ ec'.resumed = ec.resumed
        /\ ec'.event = ec.event /\ ec'.step = ec.step
    BY <1>0, <2>1 DEF EcallStates
  <2>. QED BY <1>1, <2>1, <2>2
<1>5. CASE UrcConnected
  <2>1. /\ Receive("URC_CONNECTED") /\ Handled /\ Others
        /\ UNCHANGED <<ec, th, playing, buf, msds, inbox>>
    BY <1>5 DEF UrcConnected, Idle
  <2>. QED BY <1>1, <2>1
<1>6. CASE Dereg
  <2>1. /\ Receive("DEREGISTRATION") /\ Handled /\ Others
        /\ UNCHANGED <<th, playing, buf, msds, inbox>>
        /\ ec' = ec \/ ec' = [ec EXCEPT !.urc_listening = FALSE, !.auto_answer = FALSE]
    BY <1>6 DEF Dereg
  <2>2. /\ ec'.sos_pressed = ec.sos_pressed /\ ec'.resumed = ec.resumed
        /\ ec'.event = ec.event /\ ec'.step = ec.step
    BY <1>0, <2>1 DEF EcallStates
  <2>. QED BY <1>1, <2>1, <2>2
<1>7. CASE SmsRequest
  <2>1. /\ Receive("SMS_REQUEST") /\ Handled /\ Others
        /\ UNCHANGED <<th, playing, buf, msds, inbox>>
        /\ ec' = [ec EXCEPT !.sms_ecall_request = TRUE]
    BY <1>7 DEF SmsRequest, Idle
  <2>2. /\ ec'.sos_pressed = ec.sos_pressed /\ ec'.resumed = ec.resumed
        /\ ec'.event = ec.event /\ ec'.step = ec.step
    BY <1>0, <2>1 DEF EcallStates
  <2>. QED BY <1>1, <2>1, <2>2
<1>8. CASE SmsSent
  <2>. DEFINE q == Tail(ecallQ)
              m == Request("MANUAL_SOS", "fresh")
  <2>1. /\ ecallQ # <<>> /\ Others /\ UNCHANGED <<th, playing, buf, msds, inbox>>
        /\ ecallQ' = q \o (IF ec.sms_ecall_request THEN <<m>> ELSE <<>>)
        /\ ec' = [ec EXCEPT !.sms_ecall_request = FALSE]
    BY <1>8 DEF SmsSent, Receive, Idle
  <2>2. q \in Seq(FreshMessages) /\ (~cancelled => q \in Seq(Unpressed))
    BY <2>1 DEF MsdInv, ResumedOnce, ResumedFirst, CancelKnown
  <2>3. m \in FreshMessages /\ m \in Unpressed
    <3>1. m \in Messages /\ m.ev = "MANUAL_SOS"
      BY Senders DEF Events, Origins
    <3>2. m.arg = "fresh"
      BY DEF Request
    <3>. QED BY <3>1, <3>2 DEF FreshMessages, Unpressed
  <2>. HIDE DEF m, q
  <2>4. ecallQ' = Append(q, m) \/ ecallQ' = q
    BY <2>1, <2>2, <2>3
  <2>5. ResumedOnce' /\ (~cancelled' => ecallQ' \in Seq(Unpressed))
    BY <2>2, <2>3, <2>4 DEF ResumedOnce
  <2>6. /\ ec'.sos_pressed = ec.sos_pressed /\ ec'.resumed = ec.resumed
        /\ ec'.event = ec.event /\ ec'.step = ec.step
    BY <1>0, <2>1 DEF EcallStates
  <2>. QED BY <2>1, <2>5, <2>6, MessagesLeaveStore DEF Others
<1>9. CASE DeregExpires
  <2>1. /\ ecallQ' = Append(ecallQ, Plain("DEREGISTRATION"))
        /\ UNCHANGED <<ec, th, playing, buf, msds, inbox>> /\ Others
    BY <1>9 DEF DeregExpires
  <2>2. /\ Plain("DEREGISTRATION") \in FreshMessages
        /\ Plain("DEREGISTRATION").ev # "SOS_PRESSED"
    BY Senders DEF FreshMessages, Plain
  <2>3. ResumedOnce' /\ (~cancelled' => ecallQ' \in Seq(Unpressed))
    BY <2>1, <2>2, QueueGrows
  <2>. QED BY <2>1, <2>3, MessagesLeaveStore DEF Others
<1>10. CASE CallAnswerExpires
  <2>1. /\ ec' = [ec EXCEPT !.auto_answer = FALSE] /\ UNCHANGED <<th, playing, buf, msds, inbox, ecallQ>>
        /\ Others
    BY <1>10 DEF CallAnswerExpires
  <2>2. /\ ec'.sos_pressed = ec.sos_pressed /\ ec'.resumed = ec.resumed
        /\ ec'.event = ec.event /\ ec'.step = ec.step
    BY <1>0, <2>1 DEF EcallStates
  <2>3. ResumedOnce' /\ (~cancelled' => ecallQ' \in Seq(Unpressed))
    BY <2>1, <2>2, StillFirst, StoreUnchanged
  <2>. QED BY <2>1, <2>2, <2>3, MessagesLeaveStore DEF Others
<1>. QED BY <1>2, <1>3, <1>4, <1>5, <1>6, <1>7, <1>8, <1>9, <1>10

\* A tone, or the call of its callback, that is not the prompt of a call.
LEMMA PlayLeavesStore ==
  ASSUME CallInv, MsdInv, NEW ctx \in Contexts, ctx # "A_ECALL", Play("task", ctx, "none"),
         th["task"] = Ready, UNCHANGED <<buf, msds, cancelled, running, inbox>>,
         ResumedOnce', ~cancelled' => ecallQ' \in Seq(Unpressed),
         ec'.sos_pressed => ec.sos_pressed, ec'.resumed => ec.resumed, ec'.event = ec.event,
         ec'.step = ec.step
  PROVE  MsdInv'
<1>1. Underway' = Underway
  BY DEF Underway
<1>2. ~ToContinue(th["task"]) /\ "task" \in Threads
  BY ReadyTypes DEF ToContinue, Threads
<1>3. CASE playing = Silence /\ Goto("task", Ready)
  <2>1. playing.ctx # "A_ECALL"
    BY <1>3, ReadyTypes
  <2>. QED BY <1>1, <1>2, <1>3, <2>1, ThreadLeavesStore
<1>4. CASE Goto("task", At("cb", ctx, "none")) /\ UNCHANGED playing
  BY <1>1, <1>2, <1>4, ThreadLeavesStore
<1>. QED BY <1>3, <1>4 DEF Play

LEMMA MsdTaskKeeps ==
  ASSUME CallInv, MsdInv, UNCHANGED cancelled,
         ForcedStop \/ Stopped \/ ResultReceived \/ UrcRing \/ UrcNoCarrier \/ UrcDisconnected
  PROVE  MsdInv'
<1>0. ec \in EcallStates /\ ServiceTypes /\ "task" \in Threads
  BY DEF CallInv, EcallTypes, Threads
<1>1. ~ForcedStop
  <2>. SUFFICES ASSUME ForcedStop PROVE FALSE
    OBVIOUS
  <2>1. ecallQ # <<>> /\ Head(ecallQ).ev = "FORCED_STOP" /\ ecallQ \in Seq(Messages)
    BY <1>0 DEF ForcedStop, Receive, ServiceTypes
  <2>2. Head(ecallQ) \in Messages
    BY <2>1
  <2>. QED BY <2>1, <2>2 DEF Messages
<1>2. ~Stopped
  BY <1>0 DEF Stopped, CallInv, NobodyStops
<1>3. CASE ResultReceived
  <2>1. /\ Receive("ERA_A_CALLBACK") /\ Handled /\ Others /\ th["task"] = Ready
        /\ Goto("task", At("finish", "none", FinishResult(Head(ecallQ).arg)))
        /\ UNCHANGED <<ec, playing, msds, inbox, buf>>
    BY <1>3 DEF ResultReceived, Receive
  <2>2. ResumedOnce' /\ (~cancelled' => ecallQ' \in Seq(Unpressed))
    BY <2>1, QueueTaken
  <2>3. ~ToContinue(th["task"]) /\ "task" # "player"
    BY <2>1, ReadyTypes DEF ToContinue
  <2>4. Underway' = Underway
    BY <2>1 DEF Underway, Others
  <2>. QED BY <1>0, <2>1, <2>2, <2>3, <2>4, ThreadLeavesStore
<1>4. ASSUME NEW ev, Receive(ev), Handled, Others, UNCHANGED <<buf, msds, inbox>>,
             ec'.sos_pressed = ec.sos_pressed, ec'.resumed = ec.resumed, ec'.event = ec.event,
             ec'.step = ec.step,
             \/ UNCHANGED <<th, playing>>
             \/ \E ctx \in Contexts \ {"A_ECALL"} : Play("task", ctx, "none")
      PROVE  MsdInv'
  <2>1. ResumedOnce' /\ (~cancelled' => ecallQ' \in Seq(Unpressed)) /\ th["task"] = Ready
        /\ UNCHANGED running
    BY <1>4, QueueTaken DEF Receive, Others
  <2>2. CASE UNCHANGED <<th, playing>>
    BY <1>4, <2>1, <2>2, MessagesLeaveStore
  <2>3. ASSUME NEW ctx \in Contexts \ {"A_ECALL"}, Play("task", ctx, "none") PROVE MsdInv'
    BY <1>4, <2>1, <2>3, PlayLeavesStore
  <2>. QED BY <1>4, <2>2, <2>3
<1>5. "A_ONE_TONE_2" \in Contexts /\ "A_ONE_TONE_3" \in Contexts /\ "A_ONE_TONE_4" \in Contexts
  BY DEF Contexts
<1>6. CASE UrcRing
  <2>1. /\ Receive("URC_RING") /\ Handled /\ Others /\ UNCHANGED <<buf, msds, inbox>>
        /\ \/ ec' = [ec EXCEPT !.incoming_call = TRUE] /\ Play("task", "A_ONE_TONE_2", "none")
           \/ ec' = ec /\ UNCHANGED <<th, playing>>
    BY <1>6 DEF UrcRing
  <2>2. /\ ec'.sos_pressed = ec.sos_pressed /\ ec'.resumed = ec.resumed
        /\ ec'.event = ec.event /\ ec'.step = ec.step
    BY <1>0, <2>1 DEF EcallStates
  <2>. QED BY <1>4, <1>5, <2>1, <2>2
<1>7. CASE UrcNoCarrier
  <2>1. /\ Receive("URC_NO_CARRIER") /\ Handled /\ Others /\ UNCHANGED <<ec, buf, msds, inbox>>
        /\ Play("task", "A_ONE_TONE_3", "none") \/ UNCHANGED <<th, playing>>
    BY <1>7 DEF UrcNoCarrier
  <2>. QED BY <1>4, <1>5, <2>1
<1>8. CASE UrcDisconnected
  <2>1. /\ Receive("URC_DISCONNECTED") /\ Handled /\ Others /\ UNCHANGED <<buf, msds, inbox>>
        /\ \/ ec' = [ec EXCEPT !.incoming_call = FALSE] /\ Play("task", "A_ONE_TONE_4", "none")
           \/ ec' = ec /\ UNCHANGED <<th, playing>>
    BY <1>8 DEF UrcDisconnected
  <2>2. /\ ec'.sos_pressed = ec.sos_pressed /\ ec'.resumed = ec.resumed
        /\ ec'.event = ec.event /\ ec'.step = ec.step
    BY <1>0, <2>1 DEF EcallStates
  <2>. QED BY <1>4, <1>5, <2>1, <2>2
<1>. QED BY <1>1, <1>2, <1>3, <1>6, <1>7, <1>8

\* A call begins: the one resumed at boot has its MSD, another has yet to make it.
LEMMA MsdStartKeeps ==
  ASSUME CallInv, MsdInv, Start, UNCHANGED cancelled
  PROVE  MsdInv'
<1>1. PICK event \in Events, origin \in Origins :
        /\ Receive(event) /\ Head(ecallQ).arg = origin /\ Handled /\ ec' = NewCall(event, origin)
        /\ UNCHANGED <<msds, buf>>
        /\ IF OneAndOne THEN Play("task", "A_ECALL", "none")
           ELSE Goto("task", At("continue", "none", "none")) /\ UNCHANGED playing
  BY DEF Start
<1>2. ResumedOnce' /\ (~cancelled' => ecallQ' \in Seq(Unpressed))
  BY <1>1, QueueTaken
<1>3. StoreTypes' /\ (HasMsd => HasMsd')
  BY <1>1, StoreUnchanged
<1>4. /\ "task" \in Threads /\ "player" \in Threads /\ "continue" \in Places /\ "cb" \in Places
      /\ "none" \in Marked /\ "none" \in Results /\ "A_ECALL" \in Marked
      /\ th \in [Threads -> ThreadStates] /\ ec \in EcallStates
  BY DEF Threads, Places, Marked, Results, Contexts, CallInv, EcallTypes
<1>5. ec'.sos_pressed = FALSE /\ (ec'.resumed <=> origin = "resumed")
  <2>. DEFINE resumed == origin = "resumed"
              mode == IF event = "TEST" THEN "TEST" ELSE "ECALL"
              callback == IF origin = "tested" THEN "tester" ELSE "none"
  <2>1. ec' = [ec EXCEPT !.step = "PREPARE", !.stopped = FALSE, !.event = event, !.resumed = resumed,
                         !.sos_pressed = FALSE, !.auto_answer = FALSE, !.mode = mode,
                         !.callback = callback]
    BY <1>1 DEF NewCall
  <2>2. ec'.sos_pressed = FALSE /\ ec'.resumed = resumed
    <3>. HIDE DEF resumed, mode, callback
    <3>. QED BY <1>4, <2>1 DEF EcallStates
  <2>. QED BY <2>2
<1>6. th'["player"] = th["player"]
  <2>1. \E p : Goto("task", p)
    BY <1>1 DEF Play
  <2>. QED BY <1>4, <2>1 DEF Goto
<1>7. BeforeMsd'
  <2>1. CASE OneAndOne
    <3>1. /\ At("cb", "A_ECALL", "none").at = "cb" /\ At("cb", "A_ECALL", "none").ctx = "A_ECALL"
          /\ Tone("A_ECALL", "none").ctx = "A_ECALL"
      BY <1>4, ThreadStateTypes
    <3>2. CASE playing' = Tone("A_ECALL", "none")
      BY <2>1, <3>1, <3>2 DEF BeforeMsd
    <3>3. CASE Goto("task", At("cb", "A_ECALL", "none"))
      <4>1. th'["task"] = At("cb", "A_ECALL", "none")
        BY <1>4, <3>3 DEF Goto
      <4>. QED BY <1>4, <2>1, <3>1, <4>1 DEF BeforeMsd, ToContinue
    <3>. QED BY <1>1, <2>1, <3>2, <3>3 DEF Play
  <2>2. CASE ~OneAndOne
    <3>1. th'["task"] = At("continue", "none", "none")
      BY <1>1, <1>4, <2>2 DEF Goto
    <3>2. th'["task"].at = "continue"
      BY <1>4, <3>1, ThreadStateTypes
    <3>. QED BY <1>4, <3>2 DEF BeforeMsd, ToContinue
  <2>. QED BY <2>1, <2>2
<1>8. origin = "resumed" => HasMsd
  <2>1. ecallQ # <<>> /\ Head(ecallQ).arg = origin
    BY <1>1 DEF Receive
  <2>2. ecallQ \in Seq(FreshMessages) => origin # "resumed"
    <3>1. ecallQ \in Seq(FreshMessages) => Head(ecallQ) \in FreshMessages
      BY <2>1
    <3>. QED BY <2>1, <3>1 DEF FreshMessages
  <2>. QED BY <2>2 DEF MsdInv, ResumedOnce, ResumedFirst
<1>9. CancelKnown'
  BY <1>2, <1>5, <1>6 DEF MsdInv, CancelKnown
<1>10. MsdThere'
  BY <1>3, <1>5, <1>7, <1>8 DEF MsdThere
<1>. QED BY <1>2, <1>3, <1>9, <1>10 DEF MsdInv

\* starting_continue: the MSD that is made is the last of the storage.
LEMMA MsdContinueKeeps ==
  ASSUME CallInv, MsdInv, NEW t \in Threads, Continue(t), UNCHANGED cancelled
  PROVE  MsdInv'
<1>0. /\ th[t].at = "continue" /\ UNCHANGED <<ec, inbox, ecallQ, running>>
      /\ StoreTypes /\ th \in [Threads -> ThreadStates]
  BY DEF Continue, Others, MsdInv, CallInv, EcallTypes
<1>1. StoreTypes' /\ (NewMsdNeeded \/ HasMsd => HasMsd')
  <2>1. CASE NewMsdNeeded
    <3>. DEFINE m == [id |-> msds + 1, flag |-> "INBAND"]
    <3>1. msds' = msds + 1 /\ buf' = SaveBuf(buf, m)
      BY <2>1 DEF Continue
    <3>2. m \in Records(Nat) /\ m.id = msds' /\ m.flag # "SAVED" /\ msds' \in Nat
      BY <1>0, <3>1 DEF StoreTypes, Records, Flags
    <3>. HIDE DEF m
    <3>3. /\ buf' \in Seq(Records(Nat)) /\ Len(buf') <= MAX_NUMBER_MSD /\ buf'[Len(buf')] = m
          /\ Len(buf') = Len(buf) + 1 - Dropped(buf)
      BY <1>0, <3>1, <3>2, SaveBufProperties DEF StoreTypes
    <3>4. Len(buf') \in 1..Len(buf')
      <4>1. Len(buf) \in Nat /\ MAX_NUMBER_MSD \in 1..255
        BY <1>0, MaxNumberAssumption DEF StoreTypes
      <4>. QED BY <3>3, <4>1 DEF Dropped
    <3>. QED BY <3>2, <3>3, <3>4 DEF StoreTypes, HasMsd
  <2>2. CASE ~NewMsdNeeded
    BY <2>2, StoreUnchanged DEF Continue
  <2>. QED BY <2>1, <2>2
<1>2. ResumedOnce'
  BY <1>0, NotAtBoot DEF ResumedOnce
<1>3. CancelKnown'
  <2>1. \E p : Goto(t, p) /\ p.at \notin {"finish", "closing"}
    <3>1. "cb" \in Places /\ "commit" \in Places /\ "A_ECALL" \in Marked /\ "none" \in Marked
          /\ "none" \in Results
      BY DEF Places, Marked, Contexts, Results
    <3>2. /\ At("cb", "A_ECALL", "none").at = "cb" /\ At("commit", "none", "none").at = "commit"
          /\ Ready.at = "ready"
      BY <3>1, ThreadStateTypes, ReadyTypes
    <3>. QED BY <3>2 DEF Continue, Play
  <2>2. PICK p : Goto(t, p) /\ p.at \notin {"finish", "closing"}
    BY <2>1
  <2>3. th'["player"] = IF t = "player" THEN p ELSE th["player"]
    BY <1>0, <2>2 DEF Goto, Threads
  <2>. QED BY <1>0, <2>2, <2>3 DEF MsdInv, CancelKnown
<1>4. ec.step = "PREPARE"
  BY <1>0, InHand DEF Preparing
<1>5. MsdThere'
  <2>. SUFFICES ASSUME ~cancelled, ec.resumed \/ ec.event # "TEST" PROVE HasMsd'
    BY <1>0 DEF MsdThere
  <2>1. CASE NewMsdNeeded
    BY <1>1, <2>1
  <2>2. CASE ~NewMsdNeeded
    <3>1. ec.resumed
      BY <2>2 DEF NewMsdNeeded
    <3>2. HasMsd
      BY <1>4, <3>1 DEF MsdInv, MsdThere, Underway
    <3>. QED BY <1>1, <3>2
  <2>. QED BY <2>1, <2>2
<1>. QED BY <1>1, <1>2, <1>3, <1>5 DEF MsdInv

\* A thread on its way: what it holds of the call, it goes on with.
LEMMA MsdThreadKeeps ==
  ASSUME CallInv, MsdInv, NEW t \in Threads, UNCHANGED cancelled,
         \/ Commit(t) \/ Finish(t) \/ CloseMade(t)
         \/ CallPrompted(t) \/ RingPrompted(t) \/ EndPrompted(t) \/ Answer(t)
  PROVE  MsdInv'
<1>0. /\ UNCHANGED <<buf, msds, ecallQ, playing, running>> /\ ec \in EcallStates
      /\ th[t] \in ThreadStates /\ th[t].at # "ready"
  BY DEF Commit, Finish, CloseMade, CallPrompted, RingPrompted, EndPrompted, Answer, Others,
         CallInv, EcallTypes
<1>1. ResumedOnce' /\ (~cancelled' => ecallQ' \in Seq(Unpressed))
  BY <1>0, NotAtBoot DEF ResumedOnce, MsdInv, CancelKnown
<1>2. /\ At("continue", "none", "none").at = "continue" /\ At("commit", "none", "none").at = "commit"
      /\ At("answer", "none", "none").at = "answer" /\ Ready.at = "ready"
  <2>1. {"continue", "commit", "answer"} \subseteq Places /\ "none" \in Marked /\ "none" \in Results
    BY DEF Places, Marked, Results
  <2>. QED BY <2>1, ThreadStateTypes, ReadyTypes
<1>3. ASSUME NEW p, Goto(t, p), ToContinue(th[t]) => ToContinue(p),
             t = "player" /\ ~cancelled /\ p.at \in {"finish", "closing"} =>
               th[t].at \in {"finish", "closing"},
             ec'.sos_pressed = ec.sos_pressed, ec'.resumed = ec.resumed, ec'.event = ec.event,
             Underway' => Underway
      PROVE  MsdInv'
  BY <1>0, <1>1, <1>3, ThreadLeavesStore
<1>4. CASE Commit(t)
  <2>1. th[t].at = "commit"
    BY <1>4 DEF Commit
  <2>2. Underway
    BY <2>1, InHand DEF Preparing, Underway
  <2>3. ec'.sos_pressed = ec.sos_pressed /\ ec'.resumed = ec.resumed /\ ec'.event = ec.event
    <3>1. \/ ec' = [ec EXCEPT !.step = "CALLING"]
          \/ ec' = [ec EXCEPT !.step = "CALLING", !.urc_listening = FALSE]
      BY <1>4 DEF Commit
    <3>. QED BY <1>0, <3>1 DEF EcallStates
  <2>4. ~ToContinue(th[t])
    BY <2>1 DEF ToContinue
  <2>5. CASE ec.sos_pressed
    BY <1>3, <1>4, <2>2, <2>3, <2>4, <2>5 DEF Commit, MsdInv, CancelKnown
  <2>6. CASE ~ec.sos_pressed
    BY <1>2, <1>3, <1>4, <2>2, <2>3, <2>4, <2>6 DEF Commit
  <2>. QED BY <2>5, <2>6
<1>5. CASE Finish(t)
  <2>1. th[t].at = "finish" /\ UNCHANGED inbox
    BY <1>5 DEF Finish
  <2>2. ~ec.stopped
    BY <2>1, InHand DEF Ending
  <2>3. /\ ec' = [ec EXCEPT !.step = "IDLE", !.stopped = TRUE, !.mode = "ERA"]
        /\ Goto(t, [th[t] EXCEPT !.at = "closing"])
    BY <1>5, <2>2 DEF Finish
  <2>4. /\ ec'.sos_pressed = ec.sos_pressed /\ ec'.resumed = ec.resumed /\ ec'.event = ec.event
        /\ ec'.step = "IDLE"
    BY <1>0, <2>3 DEF EcallStates
  <2>5. ~ToContinue(th[t])
    BY <2>1 DEF ToContinue
  <2>6. Underway' => Underway
    BY <1>0, <2>1, <2>4 DEF Underway
  <2>. QED BY <1>3, <2>1, <2>3, <2>4, <2>5, <2>6
<1>6. ASSUME UNCHANGED inbox, NEW p, Goto(t, p), p.at \notin {"finish", "closing"},
             ToContinue(th[t]) => ToContinue(p),
             ec'.sos_pressed = ec.sos_pressed, ec'.resumed = ec.resumed, ec'.event = ec.event,
             ec'.step = ec.step
      PROVE  MsdInv'
  <2>1. Underway' = Underway
    BY <1>0, <1>6 DEF Underway
  <2>. QED BY <1>3, <1>6, <2>1
<1>7. CASE CloseMade(t)
  <2>1. /\ th[t].at = "closing" /\ UNCHANGED inbox /\ Goto(t, Ready)
        /\ ec' = [ec EXCEPT !.auto_answer = TRUE, !.urc_listening = TRUE]
    BY <1>7 DEF CloseMade
  <2>2. /\ ec'.sos_pressed = ec.sos_pressed /\ ec'.resumed = ec.resumed /\ ec'.event = ec.event
        /\ ec'.step = ec.step
    BY <1>0, <2>1 DEF EcallStates
  <2>. QED BY <1>2, <1>6, <2>1, <2>2 DEF ToContinue
<1>8. CASE CallPrompted(t)
  <2>1. th[t].at = "cb" /\ th[t].ctx = "A_ECALL" /\ UNCHANGED <<ec, inbox>>
    BY <1>8 DEF CallPrompted
  <2>2. \E p : Goto(t, p) /\ p.at \in {"continue", "ready", "commit"} /\ (OneAndOne => p.at = "continue")
    BY <1>2, <1>8 DEF CallPrompted
  <2>. QED BY <1>6, <2>1, <2>2 DEF ToContinue
<1>9. CASE RingPrompted(t)
  <2>. DEFINE goes == ec.incoming_call /\ th[t].ctx # "A_ONE_TONE_3"
  <2>1. /\ th[t].at = "cb" /\ th[t].ctx \in {"A_ONE_TONE_2", "A_ONE_TONE_3", "A_ONE_TONE_4"}
        /\ ec' = [ec EXCEPT !.incoming_call = goes] /\ UNCHANGED inbox
    BY <1>9 DEF RingPrompted
  <2>. HIDE DEF goes
  <2>2. /\ ec'.sos_pressed = ec.sos_pressed /\ ec'.resumed = ec.resumed /\ ec'.event = ec.event
        /\ ec'.step = ec.step
    BY <1>0, <2>1 DEF EcallStates
  <2>3. \E p : Goto(t, p) /\ p.at \in {"answer", "ready"}
    BY <1>2, <1>9 DEF RingPrompted
  <2>4. ~ToContinue(th[t])
    BY <2>1 DEF ToContinue
  <2>. QED BY <1>6, <2>1, <2>2, <2>3, <2>4
<1>10. CASE EndPrompted(t) \/ Answer(t)
  <2>1. /\ th[t].at = "answer" \/ (th[t].at = "cb" /\ th[t].ctx = "A_ECALL_END")
        /\ UNCHANGED <<ec, inbox>> /\ Goto(t, Ready)
    BY <1>10 DEF EndPrompted, Answer
  <2>. QED BY <1>2, <1>6, <2>1 DEF ToContinue
<1>. QED BY <1>4, <1>5, <1>7, <1>8, <1>9, <1>10

\* finish() of a cancelled call: the MSD it deletes is of no call that is under way.
LEMMA MsdCloseKeeps ==
  ASSUME CallInv, MsdInv, NEW t \in Threads, CloseDropped(t), UNCHANGED cancelled
  PROVE  MsdInv'
<1>0. /\ th[t].at = "closing" /\ UNCHANGED <<ec, msds, ecallQ, inbox, running>>
      /\ buf' = DeleteBuf(buf, FindNumb(buf, "INBAND")) /\ StoreTypes
  BY DEF CloseDropped, Others, MsdInv
<1>1. StoreTypes'
  BY <1>0, DeleteKeepsTypes DEF StoreTypes
<1>2. ResumedOnce'
  BY <1>0, NotAtBoot DEF ResumedOnce
<1>3. ~cancelled => t = "task"
  BY <1>0 DEF MsdInv, CancelKnown, Threads
<1>4. ~cancelled => ~Underway
  BY <1>0, <1>3, NothingUnderway DEF CallInv, ClosedBetween
<1>5. MsdThere'
  BY <1>0, <1>4 DEF MsdThere, Underway
<1>6. CancelKnown'
  <2>1. ~cancelled => th'["player"] = th["player"]
    BY <1>3 DEF CloseDropped, Play, Goto, CallInv, EcallTypes, Threads
  <2>. QED BY <1>0, <2>1 DEF MsdInv, CancelKnown
<1>. QED BY <1>1, <1>2, <1>5, <1>6 DEF MsdInv

LEMMA MsdToneKeeps ==
  ASSUME CallInv, MsdInv, ToneOver, UNCHANGED cancelled
  PROVE  MsdInv'
<1>. DEFINE p == At("cb", playing.ctx, playing.res)
<1>1. /\ th["player"] = Ready /\ playing # Silence /\ playing' = Silence /\ Goto("player", p)
      /\ UNCHANGED <<ec, buf, msds, inbox, ecallQ, running>>
  BY DEF ToneOver, Others
<1>2. /\ p.at = "cb" /\ p.ctx = playing.ctx /\ "player" \in Threads
  <2>1. "cb" \in Places /\ playing.ctx \in Marked /\ playing.res \in Results
    BY DEF Places, CallInv, EcallTypes, Tones
  <2>. QED BY <2>1, ThreadStateTypes DEF Threads
<1>. HIDE DEF p
<1>3. ResumedOnce' /\ (~cancelled' => ecallQ' \in Seq(Unpressed))
  BY <1>1, NotAtBoot DEF ResumedOnce, MsdInv, CancelKnown
<1>4. ~ToContinue(th["player"]) /\ (OneAndOne /\ playing.ctx = "A_ECALL" => ToContinue(p))
  BY <1>1, <1>2, ReadyTypes DEF ToContinue
<1>5. Underway' = Underway
  BY <1>1 DEF Underway
<1>. QED BY <1>1, <1>2, <1>3, <1>4, <1>5, ThreadLeavesStore

LEMMA MsdInvStep == NobodyMayStop /\ CallInv /\ MsdInv /\ [Next]_vars => MsdInv'
<1>. SUFFICES ASSUME NobodyMayStop, CallInv, MsdInv, [Next]_vars PROVE MsdInv'
  OBVIOUS
<1>1. ASSUME NEW t \in Threads, ThreadNext(t), UNCHANGED cancelled PROVE MsdInv'
  BY <1>1, MsdContinueKeeps, MsdThreadKeeps, MsdCloseKeeps DEF ThreadNext
<1>2. CASE TaskStep
  <2>1. "task" \in Threads /\ UNCHANGED cancelled
    BY <1>2 DEF TaskStep, Threads
  <2>. QED BY <1>1, <1>2, <2>1, MsdStartKeeps, MsdMessagesKeep, MsdTaskKeeps DEF TaskStep
<1>3. CASE PlayerStep
  <2>1. "player" \in Threads
    BY DEF Threads
  <2>. QED BY <1>1, <1>3, <2>1, MsdToneKeeps DEF PlayerStep
<1>4. CASE TimerStep
  BY <1>4, MsdMessagesKeep DEF TimerStep
<1>5. CASE ServiceStep
  BY <1>5, MsdServiceKeeps
<1>6. CASE SendersNext
  BY <1>6, MsdSendersKeep
<1>7. CASE UNCHANGED vars
  <2>1. UNCHANGED <<ec, th, playing, buf, msds, running, inbox, ecallQ, cancelled>>
    BY <1>7 DEF vars, ecallVars, serviceVars
  <2>2. ResumedOnce' /\ (~cancelled' => ecallQ' \in Seq(Unpressed))
    BY <2>1, StillFirst, StoreUnchanged
  <2>. QED BY <2>1, <2>2, MessagesLeaveStore
<1>. QED BY <1>2, <1>3, <1>4, <1>5, <1>6, <1>7 DEF Next

----------------------------------------------------------------------------
(* The theorems.                                                           *)

LEMMA CallInvAlways == NobodyMayStop => (Spec => []CallInv)
<1>. SUFFICES ASSUME NobodyMayStop PROVE Spec => []CallInv
  OBVIOUS
<1>1. CallInv /\ [Next]_vars => CallInv'
  BY CallInvStep
<1>. QED BY <1>1, CallInvInit, PTL DEF Spec

\* Where no command stops a call, ERA_ACTION has at most one call in all its stages together,
\* and only while ECALL is CALLING, for any storage, bound and order of the senders, with the
\* prompt before or after the MSD.
THEOREM AlwaysOneCallAtATime == NobodyMayStop => (Spec => []OneCallAtATime)
<1>. SUFFICES ASSUME NobodyMayStop PROVE Spec => []OneCallAtATime
  OBVIOUS
<1>. QED BY CallInvAlways, CallInvMeans, PTL

\* There, too, the wait for the operator begins and ends between calls: a call that is made
\* or prepared finds neither the answering nor a timer of the wait left.
THEOREM NeverWaitsInCall == NobodyMayStop => (Spec => []NoWaitingInCall)
<1>. SUFFICES ASSUME NobodyMayStop PROVE Spec => []NoWaitingInCall
  OBVIOUS
<1>. QED BY CallInvAlways, CallInvMeans, PTL

\* There, too, the MSD of a call that is made stays in the storage until ERA_ACTION ends the
\* call, for a storage of any capacity and whatever MSDs it was full of, as long as nobody has
\* pressed the button: no call, tone or end of an earlier call drops it.
THEOREM MsdOfCallAlwaysKept == NobodyMayStop => (Spec => []MsdOfCallKept)
<1>. SUFFICES ASSUME NobodyMayStop PROVE Spec => []MsdOfCallKept
  OBVIOUS
<1>1. CallInv /\ CallInv' /\ MsdInv /\ [Next]_vars => MsdInv'
  BY MsdInvStep
<1>. QED BY <1>1, CallInvAlways, MsdInvInit, MsdInvMeans, PTL DEF Spec
=============================================================================
