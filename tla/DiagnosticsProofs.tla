------------------------- MODULE DiagnosticsProofs -------------------------
(***************************************************************************)
(* Proofs about the protocols of diagnostics.  SecurityAccess.tla, for     *)
(* every size of the mailbox: an open access is always watched, also when  *)
(* messages find no place; the delay after wrong keys and their counter    *)
(* agree; and the access is opened by the right key only, that was asked   *)
(* for.                                                                    *)
(* FileTool.tla, for any files, blocks and commands: no transfer leaves a  *)
(* torso, unless both threads end transfers at once.  IsoTp.tla, for any   *)
(* lengths and blocks: what arrives in several frames is one message, if   *)
(* not so many frames are lost that their numbers come round.              *)
(***************************************************************************)
EXTENDS MCDiagnostics, TLAPS

SaMessages == {"RESET_SA", "INVALID_KEY"}

\* Only the delay keeps an INVALID_KEY about, and there is one at most: the reader about to
\* send it, the mailbox, or the task asleep on it.
Delaying == Queued("INVALID_KEY") \/ saTask = "delay" \/ reader.at = "postDelay"

OneDelay ==
  /\ Delaying => sa.delay
  /\ ~(reader.at = "postDelay" /\ (saTask = "delay" \/ Queued("INVALID_KEY")))
  /\ ~(saTask = "delay" /\ Queued("INVALID_KEY"))
  /\ \A i, j \in 1..Len(saBox) :
       saBox[i] = "INVALID_KEY" /\ saBox[j] = "INVALID_KEY" => i = j

\* The handler of a key past its look at the stage.
WithKey == {"judged", "opened", "entering", "counting"}

\* While the delay runs no request is handled, and everything is locked, as it is before.
DelayLocks ==
  /\ sa.delay => sa.stage = 1 /\ ~sa.isAccess /\ (sa.testMode => tmZero)
  /\ sa.delay => reader.at \notin {"handle", "postReset"} \cup WithKey
  /\ reader.at = "counting" => sa.stage = 1 /\ ~sa.isAccess /\ (sa.testMode => tmZero)

\* Stage 2 with the access closed: the seed was the request just before.
SeedIsFresh ==
  sa.stage = 2 /\ ~sa.isAccess =>
    /\ previous = "seed"
    /\ \/ reader.at \in {"idle", "received"} /\ awaitKey
       \/ reader.at \in {"handle", "judged"} /\ reader.req \in Keys

\* A key is judged when the seed was the request just before, or the access was open.
KeyIsAsked ==
  reader.at = "judged" => reader.req \in Keys /\ (previous = "seed" \/ reader.open)

Fresh == SeedIsFresh /\ KeyIsAsked

SaInv ==
  /\ SaTypeOK /\ DelayAtThree /\ OneDelay /\ DelayLocks /\ Fresh /\ AccessIsWatched

----------------------------------------------------------------------------
(* The mailbox.                                                            *)

\* A message is added behind the others, or there is no place and all stay.
LEMMA PostedMailbox ==
  ASSUME NEW m \in SaMessages, saBox \in Seq(SaMessages), Len(saBox) <= SaMbox
  PROVE  /\ SaPosted(m) \in Seq(SaMessages) /\ Len(SaPosted(m)) <= SaMbox
         /\ Len(SaPosted(m)) >= Len(saBox) /\ Len(SaPosted(m)) >= 1
         /\ \A i \in 1..Len(saBox) : SaPosted(m)[i] = saBox[i]
         /\ \A i \in 1..Len(SaPosted(m)) :
              i \in 1..Len(saBox) \/ (i = Len(saBox) + 1 /\ SaPosted(m)[i] = m)
         /\ Len(SaPosted(m)) = Len(saBox) + 1 \/ Len(saBox) = SaMbox
  BY SaAssumption DEF SaPosted, SaMessages

\* The first message is taken out.
LEMMA TakenMailbox ==
  ASSUME saBox \in Seq(SaMessages), saBox # <<>>
  PROVE  /\ Tail(saBox) \in Seq(SaMessages) /\ Len(Tail(saBox)) = Len(saBox) - 1
         /\ Len(saBox) \in Nat \ {0} /\ Head(saBox) = saBox[1] /\ saBox[1] \in SaMessages
         /\ \A i \in 1..Len(Tail(saBox)) : Tail(saBox)[i] = saBox[i + 1]
  BY DEF SaMessages

----------------------------------------------------------------------------
(* The invariant.                                                          *)

\* The invariant holds at first.
LEMMA SaInvInit == SaInit => SaInv
<1>. SUFFICES ASSUME SaInit PROVE SaInv
  OBVIOUS
<1>1. SaTypeOK
  <2>1. hasMessage \in BOOLEAN /\ awaitKey \in BOOLEAN /\ tmZero \in BOOLEAN
    BY Zenon DEF SaInit
  <2>2. /\ sa \in SaStates
        /\ reader \in [at : ReaderAt, req : Requests, open : BOOLEAN] /\ saTask \in TaskAt
    BY DEF SaInit, SaStates, Requests, ReaderAt, TaskAt
  <2>3. saBox \in Seq({"RESET_SA", "INVALID_KEY"}) /\ Len(saBox) <= SaMbox
    BY SaAssumption DEF SaInit
  <2>4. previous \in Requests /\ requests \in 0..MaxRequests
    BY SaAssumption DEF SaInit, Requests
  <2>. QED BY <2>1, <2>2, <2>3, <2>4 DEF SaTypeOK
<1>2. ~Queued("INVALID_KEY") /\ ~Delaying
  BY DEF SaInit, Delaying, Queued
<1>3. DelayAtThree /\ DelayLocks
  BY DEF SaInit, DelayAtThree, DelayLocks, WithKey
<1>4. OneDelay
  BY <1>2 DEF SaInit, OneDelay
<1>5. Fresh /\ AccessIsWatched
  BY DEF SaInit, Fresh, SeedIsFresh, KeyIsAsked, AccessIsWatched
<1>. QED BY <1>1, <1>3, <1>4, <1>5 DEF SaInv

\* What a request does that neither sends a message nor counts a wrong key: whatever it
\* opens is followed by RESET_SA, and in the delay it changes nothing.
Served ==
  /\ UNCHANGED <<saBox, saTask, tmZero>>
  /\ sa'.invalid = sa.invalid /\ sa'.delay = sa.delay
  /\ reader.at \notin {"postReset", "postDelay"} /\ reader'.at # "postDelay"
  /\ sa.delay => sa' = sa /\ reader'.at \in {"idle", "received"}
  /\ reader'.at = "counting" => sa'.stage = 1 /\ ~sa'.isAccess /\ ~sa'.testMode
  /\ reader.at = "opened" => reader'.at = "postReset"
  /\ sa'.isAccess => sa.isAccess \/ reader'.at \in {"opened", "postReset"}
  /\ sa'.testMode => sa.testMode \/ reader'.at = "postReset"

\* Such a request leaves the delay and the watch as they are.
LEMMA ServedKeeps ==
  ASSUME SaInv, Served
  PROVE  DelayAtThree' /\ OneDelay' /\ DelayLocks' /\ AccessIsWatched'
<1>1. DelayAtThree'
  BY DEF SaInv, Served, DelayAtThree
<1>2. \A m : Queued(m)' <=> Queued(m)
  BY DEF Served, Queued
<1>3. OneDelay'
  BY <1>2 DEF SaInv, Served, OneDelay, Delaying
<1>4. DelayLocks'
  BY DEF SaInv, Served, DelayLocks, WithKey
<1>5. AccessIsWatched'
  BY <1>2 DEF SaInv, Served, AccessIsWatched
<1>. QED BY <1>1, <1>3, <1>4, <1>5

\* The types of the variables, and of the fields the requests change.
LEMMA SaTypes ==
  ASSUME SaInv
  PROVE  /\ sa = [stage |-> sa.stage, isAccess |-> sa.isAccess, testMode |-> sa.testMode,
                  invalid |-> sa.invalid, delay |-> sa.delay]
         /\ sa.stage \in 1..2 /\ sa.isAccess \in BOOLEAN /\ sa.testMode \in BOOLEAN
         /\ sa.delay \in BOOLEAN /\ sa.invalid \in 0..3 /\ (sa.delay <=> sa.invalid = 3)
         /\ reader = [at |-> reader.at, req |-> reader.req, open |-> reader.open]
         /\ reader.at \in ReaderAt /\ reader.req \in Requests /\ reader.open \in BOOLEAN
  BY DEF SaInv, SaTypeOK, SaStates, DelayAtThree

\* What the lock leaves.
LEMMA LockedTypes ==
  ASSUME SaInv
  PROVE  /\ Locked(sa) \in SaStates
         /\ Locked(sa).stage = 1 /\ ~Locked(sa).isAccess /\ ~Locked(sa).testMode
         /\ Locked(sa).invalid = sa.invalid /\ Locked(sa).delay = sa.delay
<1>1. sa \in SaStates
  BY DEF SaInv, SaTypeOK
<1>2. Locked(sa) \in SaStates
  <2>1. 1 \in 1..2
    OBVIOUS
  <2>. QED BY <1>1, <2>1, Zenon DEF SaStates, Locked
<1>3. Locked(sa).stage = 1 /\ Locked(sa).isAccess = FALSE /\ Locked(sa).testMode = FALSE
  BY <1>1 DEF SaStates, Locked
<1>4. Locked(sa).invalid = sa.invalid /\ Locked(sa).delay = sa.delay
  BY <1>1 DEF SaStates, Locked
<1>. QED BY <1>2, <1>3, <1>4

\* A request comes, and is refused, accepted or answered.
LEMMA TesterServed ==
  ASSUME SaInv, Tester
  PROVE  Served /\ SaTypeOK' /\ Fresh'
<1>1. PICK r \in Requests : Receive(r)
  BY DEF Tester
<1>2. reader' = [at |-> "received", req |-> r, open |-> FALSE] /\ reader.at = "idle"
      /\ UNCHANGED <<sa, awaitKey, saBox, saTask, tmZero, previous>>
  BY <1>1 DEF Receive
<1>3. Served
  BY <1>2 DEF Served
<1>4. SaTypeOK'
  BY <1>1, <1>2, SaAssumption DEF SaInv, SaTypeOK, Receive, ReaderAt
<1>5. Fresh'
  BY <1>2 DEF SaInv, Fresh, SeedIsFresh, KeyIsAsked
<1>. QED BY <1>3, <1>4, <1>5

LEMMA GateServed ==
  ASSUME SaInv, Refuse \/ Accept
  PROVE  Served /\ SaTypeOK' /\ Fresh'
<1>1. CASE Refuse
  <2>1. reader' = [at |-> "idle", req |-> reader.req, open |-> reader.open] /\ previous' = reader.req
        /\ reader.at = "received" /\ sa.delay
        /\ UNCHANGED <<sa, hasMessage, awaitKey, saBox, saTask, tmZero, requests>>
    BY <1>1, SaTypes DEF Refuse, Answered
  <2>2. Served
    BY <2>1 DEF Served
  <2>3. SaTypeOK'
    BY <2>1, SaTypes DEF SaInv, SaTypeOK, ReaderAt
  <2>4. Fresh'
    BY <2>1 DEF SaInv, Fresh, SeedIsFresh, KeyIsAsked, DelayLocks
  <2>. QED BY <2>2, <2>3, <2>4
<1>2. CASE Accept
  <2>1. reader' = [at |-> "handle", req |-> reader.req, open |-> reader.open] /\ ~awaitKey' /\ awaitKey' \in BOOLEAN
        /\ reader.at = "received" /\ ~sa.delay
        /\ UNCHANGED <<hasMessage, saBox, saTask, tmZero, previous, requests>>
    BY <1>2, SaTypes DEF Accept
  <2>2. CASE awaitKey /\ reader.req \notin Keys
    <3>1. sa' = Locked(sa)
      BY <1>2, <2>2 DEF Accept
    <3>2. Served /\ Fresh'
      BY <2>1, <3>1, LockedTypes DEF Served, Fresh, SeedIsFresh, KeyIsAsked
    <3>3. SaTypeOK'
      BY <2>1, <3>1, LockedTypes, SaTypes DEF SaInv, SaTypeOK, ReaderAt
    <3>. QED BY <3>2, <3>3
  <2>3. CASE ~(awaitKey /\ reader.req \notin Keys)
    <3>1. sa' = sa
      BY <1>2, <2>3 DEF Accept
    <3>2. Served
      BY <2>1, <3>1 DEF Served
    <3>3. SaTypeOK'
      BY <2>1, <3>1, SaTypes DEF SaInv, SaTypeOK, ReaderAt
    <3>4. Fresh'
      BY <2>1, <2>3, <3>1 DEF SaInv, Fresh, SeedIsFresh, KeyIsAsked
    <3>. QED BY <3>2, <3>3, <3>4
  <2>. QED BY <2>2, <2>3
<1>. QED BY <1>1, <1>2

\* What a request that is handled leaves as it is.
LEMMA HandledTypes ==
  ASSUME SaInv, UNCHANGED <<hasMessage, saBox, saTask, tmZero, requests>>,
         sa' \in SaStates,
         awaitKey' \in BOOLEAN, previous' \in Requests,
         reader' \in [at : ReaderAt, req : Requests, open : BOOLEAN]
  PROVE  SaTypeOK'
  BY DEF SaInv, SaTypeOK

LEMMA AnswerTypes ==
  ASSUME SaInv, Answered
  PROVE  /\ reader' = [at |-> "idle", req |-> reader.req, open |-> reader.open]
         /\ previous' = reader.req
         /\ reader' \in [at : ReaderAt, req : Requests, open : BOOLEAN] /\ previous' \in Requests
  BY SaTypes DEF Answered, ReaderAt

\* Requests handled without a key that is taken.
LEMMA RequestServed ==
  ASSUME SaInv, RequestSeed \/ KeyOutOfTurn \/ Session \/ Other
  PROVE  Served /\ SaTypeOK' /\ Fresh'
<1>1. reader.at = "handle" /\ ~sa.delay
      /\ UNCHANGED <<hasMessage, saBox, saTask, tmZero, requests>>
  BY DEF SaInv, DelayLocks, RequestSeed, KeyOutOfTurn, Session, Other
<1>2. sa \in SaStates /\ awaitKey \in BOOLEAN /\ previous \in Requests
  BY DEF SaInv, SaTypeOK
<1>3. Answered
  BY DEF RequestSeed, KeyOutOfTurn, Session, Other
<1>4. KeyIsAsked'
  BY <1>3, AnswerTypes DEF KeyIsAsked
<1>5. CASE RequestSeed
  <2>1. CASE sa.isAccess
    <3>1. UNCHANGED <<sa, awaitKey>>
      BY <1>5, <2>1 DEF RequestSeed
    <3>. QED BY <1>1, <1>2, <1>3, <1>4, <2>1, <3>1, AnswerTypes, HandledTypes
         DEF Served, Fresh, SeedIsFresh
  <2>2. CASE ~sa.isAccess
    <3>1. sa' = [sa EXCEPT !.stage = 2] /\ awaitKey' = TRUE /\ reader.req = "seed"
      BY <1>5, <2>2 DEF RequestSeed
    <3>2. /\ sa' \in SaStates /\ awaitKey' \in BOOLEAN
          /\ sa'.isAccess = sa.isAccess /\ sa'.testMode = sa.testMode
          /\ sa'.invalid = sa.invalid /\ sa'.delay = sa.delay
      BY <1>2, <3>1 DEF SaStates
    <3>3. SeedIsFresh'
      BY <1>3, <3>1, AnswerTypes DEF SeedIsFresh
    <3>. QED BY <1>1, <1>3, <1>4, <3>2, <3>3, AnswerTypes, HandledTypes DEF Served, Fresh
  <2>. QED BY <2>1, <2>2
<1>6. CASE KeyOutOfTurn \/ Other
  <2>1. UNCHANGED <<sa, awaitKey>> /\ (sa.stage # 2 \/ reader.req = "other")
    BY <1>6 DEF KeyOutOfTurn, Other
  <2>2. SeedIsFresh'
    BY <1>1, <2>1 DEF SaInv, Fresh, SeedIsFresh, Keys
  <2>. QED BY <1>1, <1>2, <1>3, <1>4, <2>1, <2>2, AnswerTypes, HandledTypes DEF Served, Fresh
<1>7. CASE Session
  <2>1. awaitKey' = awaitKey /\ reader.req \in Sessions /\ sa' \in {sa, Locked(sa)}
    BY <1>7 DEF Session
  <2>2. sa' \in SaStates
    BY <1>2, <2>1, LockedTypes
  <2>3. SeedIsFresh'
    BY <1>1, <2>1, LockedTypes DEF SaInv, Fresh, SeedIsFresh, Sessions, Keys
  <2>4. Served
    BY <1>1, <1>3, <2>1, LockedTypes, AnswerTypes DEF Served
  <2>. QED BY <1>1, <1>2, <1>3, <1>4, <2>1, <2>2, <2>3, <2>4, AnswerTypes, HandledTypes DEF Fresh
<1>. QED BY <1>5, <1>6, <1>7

\* A key that is judged has its effect; CAN_SA may have locked everything meanwhile.
KeyTaken == KeyRight \/ TestModeOff \/ KeyTest \/ TestModeOn \/ KeyWrong

LEMMA KeyServed ==
  ASSUME SaInv, KeyInTurn \/ KeyTaken
  PROVE  Served /\ SaTypeOK' /\ Fresh'
<1>1. /\ reader.at \in {"handle"} \cup WithKey /\ ~sa.delay
      /\ UNCHANGED <<hasMessage, awaitKey, saBox, saTask, tmZero, previous, requests>>
  BY DEF SaInv, DelayLocks, WithKey, KeyInTurn, KeyTaken, KeyRight, TestModeOff, KeyTest,
     TestModeOn, KeyWrong, Goes
<1>2. sa \in SaStates /\ awaitKey \in BOOLEAN /\ previous \in Requests
  BY DEF SaInv, SaTypeOK
<1>3. ASSUME sa' \in SaStates, reader' \in [at : ReaderAt, req : Requests, open : BOOLEAN]
      PROVE  SaTypeOK'
  BY <1>1, <1>2, <1>3, HandledTypes
<1>4. CASE KeyInTurn
  <2>1. /\ reader.at = "handle" /\ reader.req \in Keys /\ sa.stage = 2 /\ sa' = sa
        /\ reader' = [at |-> "judged", req |-> reader.req, open |-> sa.isAccess]
    BY <1>4, SaTypes DEF KeyInTurn
  <2>2. reader' \in [at : ReaderAt, req : Requests, open : BOOLEAN]
    BY <2>1, SaTypes DEF ReaderAt
  <2>3. Fresh'
    BY <1>1, <2>1 DEF SaInv, Fresh, SeedIsFresh, KeyIsAsked
  <2>. QED BY <1>1, <1>2, <1>3, <2>1, <2>2, <2>3 DEF Served
<1>5. ASSUME NEW at \in {"opened", "entering", "counting", "postReset"}, NEW s \in SaStates,
             Goes(at, s), reader.at \in WithKey, reader.at = "opened" => at = "postReset",
             s.invalid = sa.invalid, s.delay = sa.delay,
             s.isAccess => sa.isAccess \/ at = "opened",
             s.testMode => sa.testMode \/ at = "postReset",
             at = "counting" => s.stage = 1 /\ ~s.isAccess /\ ~s.testMode,
             s.stage = 1 \/ s.isAccess
      PROVE  Served /\ SaTypeOK' /\ Fresh'
  <2>1. sa' = s /\ reader' = [at |-> at, req |-> reader.req, open |-> reader.open]
    BY <1>5, SaTypes DEF Goes
  <2>2. reader' \in [at : ReaderAt, req : Requests, open : BOOLEAN]
    BY <2>1, SaTypes DEF ReaderAt
  <2>3. Fresh'
    BY <1>5, <2>1 DEF Fresh, SeedIsFresh, KeyIsAsked
  <2>4. Served
    BY <1>1, <1>5, <2>1 DEF Served, WithKey
  <2>. QED BY <1>3, <1>5, <2>1, <2>2, <2>3, <2>4
<1>6. CASE KeyRight
  <2>. DEFINE s == [sa EXCEPT !.isAccess = TRUE]
  <2>1. s \in SaStates /\ s.isAccess /\ s.invalid = sa.invalid /\ s.delay = sa.delay
        /\ s.testMode = sa.testMode
    BY <1>2 DEF SaStates
  <2>2. Goes("opened", s) /\ reader.at = "judged"
    BY <1>6 DEF KeyRight
  <2>. HIDE DEF s
  <2>. QED BY <1>5, <2>1, <2>2 DEF WithKey
<1>7. CASE KeyTest
  <2>1. Goes("entering", Locked(sa)) /\ reader.at = "judged"
    BY <1>7 DEF KeyTest
  <2>. QED BY <1>5, <2>1, LockedTypes DEF WithKey
<1>8. CASE KeyWrong
  <2>1. Goes("counting", Locked(sa)) /\ reader.at = "judged"
    BY <1>8 DEF KeyWrong
  <2>. QED BY <1>5, <2>1, LockedTypes DEF WithKey
<1>9. ASSUME NEW b \in BOOLEAN, Goes("postReset", [sa EXCEPT !.testMode = b]),
             reader.at \in {"opened", "entering"}
      PROVE  Served /\ SaTypeOK' /\ Fresh'
  <2>. DEFINE s == [sa EXCEPT !.testMode = b]
  <2>1. s \in SaStates /\ s.isAccess = sa.isAccess /\ s.stage = sa.stage
        /\ s.invalid = sa.invalid /\ s.delay = sa.delay
    BY <1>2 DEF SaStates
  <2>2. sa.stage = 1 \/ sa.isAccess
    BY <1>9, SaTypes DEF SaInv, Fresh, SeedIsFresh
  <2>3. Goes("postReset", s) /\ reader.at \in WithKey
    BY <1>9 DEF WithKey
  <2>. HIDE DEF s
  <2>. QED BY <1>5, <2>1, <2>2, <2>3
<1>10. CASE TestModeOff \/ TestModeOn
  BY <1>9, <1>10 DEF TestModeOff, TestModeOn
<1>. QED BY <1>4, <1>6, <1>7, <1>8, <1>10 DEF KeyTaken

\* A wrong key is counted, and the messages the reader sends.
LEMMA CountWrongKeeps ==
  ASSUME SaInv, CountWrong
  PROVE  SaInv'
<1>1. /\ reader.at = "counting" /\ ~sa.delay
      /\ UNCHANGED <<hasMessage, awaitKey, saBox, saTask, tmZero, requests>>
      /\ awaitKey \in BOOLEAN /\ previous \in Requests /\ sa \in SaStates
      /\ sa.stage = 1 /\ ~sa.isAccess /\ (sa.testMode => tmZero)
  BY DEF SaInv, SaTypeOK, DelayLocks, WithKey, CountWrong
<1>2. /\ sa' \in SaStates /\ sa'.stage = 1 /\ ~sa'.isAccess /\ sa'.testMode = sa.testMode
      /\ sa'.invalid = sa.invalid + 1 /\ (sa'.delay <=> sa.invalid + 1 = 3)
  <2>1. sa' = [sa EXCEPT !.invalid = sa.invalid + 1, !.delay = (sa.invalid + 1 = 3) \/ @]
    BY DEF CountWrong
  <2>2. sa.invalid + 1 \in Nat
    BY SaTypes
  <2>. QED BY <1>1, <2>1, <2>2 DEF SaStates
<1>3. \/ /\ sa'.delay /\ reader' = [at |-> "postDelay", req |-> reader.req, open |-> reader.open]
         /\ previous' = previous
      \/ ~sa'.delay /\ Answered
  BY <1>2, SaTypes DEF CountWrong
<1>4. reader' \in [at : ReaderAt, req : Requests, open : BOOLEAN] /\ previous' \in Requests
      /\ (reader'.at = "postDelay" <=> sa'.delay) /\ reader'.at \in {"idle", "postDelay"}
  BY <1>1, <1>3, AnswerTypes, SaTypes DEF ReaderAt
<1>5. SaTypeOK'
  BY <1>1, <1>2, <1>4, HandledTypes
<1>6. \A m : Queued(m)' <=> Queued(m)
  BY <1>1 DEF Queued
<1>7. ~Queued("INVALID_KEY") /\ saTask # "delay"
  BY <1>1 DEF SaInv, OneDelay, Delaying
<1>8. OneDelay'
  BY <1>1, <1>4, <1>6, <1>7 DEF SaInv, OneDelay, Delaying
<1>9. DelayAtThree' /\ DelayLocks' /\ Fresh' /\ AccessIsWatched'
  BY <1>1, <1>2, <1>4, SaTypes DEF DelayAtThree, DelayLocks, WithKey, Fresh, SeedIsFresh,
     KeyIsAsked, AccessIsWatched
<1>. QED BY <1>5, <1>8, <1>9 DEF SaInv

LEMMA PostResetKeeps ==
  ASSUME SaInv, PostReset
  PROVE  SaInv'
<1>. DEFINE box == SaPosted("RESET_SA")
<1>1. /\ reader.at = "postReset" /\ saBox' = box
      /\ UNCHANGED <<sa, hasMessage, awaitKey, saTask, tmZero, requests>> /\ Answered
  BY DEF PostReset
<1>2. saBox \in Seq(SaMessages) /\ Len(saBox) <= SaMbox
  BY DEF SaInv, SaTypeOK, SaMessages
<1>3. ~sa.delay /\ ~Queued("INVALID_KEY") /\ saTask # "delay"
  BY <1>1 DEF SaInv, DelayLocks, OneDelay, Delaying
<1>4. /\ box \in Seq(SaMessages) /\ Len(box) <= SaMbox /\ Len(box) >= 1
      /\ \A i \in 1..Len(box) : box[i] = "RESET_SA"
  BY <1>2, <1>3, PostedMailbox, SMTT(20) DEF Queued, SaMessages
<1>. HIDE DEF box
<1>5. Queued("RESET_SA")' /\ ~Queued("INVALID_KEY")'
  BY <1>1, <1>4 DEF Queued
<1>6. SaTypeOK'
  BY <1>1, <1>4, AnswerTypes DEF SaInv, SaTypeOK, SaMessages
<1>7. DelayAtThree' /\ DelayLocks' /\ AccessIsWatched'
  BY <1>1, <1>3, <1>5, AnswerTypes DEF SaInv, DelayAtThree, DelayLocks, AccessIsWatched
<1>8. OneDelay'
  BY <1>1, <1>3, <1>5, AnswerTypes DEF OneDelay, Delaying, Queued
<1>9. Fresh'
  BY <1>1, AnswerTypes DEF SaInv, Fresh, SeedIsFresh, KeyIsAsked
<1>. QED BY <1>6, <1>7, <1>8, <1>9 DEF SaInv

LEMMA PostDelayKeeps ==
  ASSUME SaInv, PostDelay
  PROVE  SaInv'
<1>. DEFINE box == SaPosted("INVALID_KEY")
<1>1. /\ reader.at = "postDelay" /\ saBox' = box
      /\ UNCHANGED <<sa, hasMessage, awaitKey, saTask, tmZero, requests>> /\ Answered
  BY DEF PostDelay
<1>2. saBox \in Seq(SaMessages) /\ Len(saBox) <= SaMbox
  BY DEF SaInv, SaTypeOK, SaMessages
<1>3. sa.delay /\ ~Queued("INVALID_KEY") /\ saTask # "delay"
  BY <1>1 DEF SaInv, OneDelay, Delaying
<1>4. /\ box \in Seq(SaMessages) /\ Len(box) <= SaMbox
      /\ \A i, j \in 1..Len(box) : box[i] = "INVALID_KEY" /\ box[j] = "INVALID_KEY" => i = j
  BY <1>2, <1>3, PostedMailbox, SMTT(20) DEF Queued, SaMessages
<1>. HIDE DEF box
<1>5. SaTypeOK'
  BY <1>1, <1>4, AnswerTypes DEF SaInv, SaTypeOK, SaMessages
<1>6. DelayAtThree' /\ DelayLocks' /\ AccessIsWatched'
  BY <1>1, <1>3, AnswerTypes DEF SaInv, DelayAtThree, DelayLocks, WithKey, AccessIsWatched
<1>7. OneDelay'
  BY <1>1, <1>3, <1>4, AnswerTypes DEF OneDelay, Delaying
<1>8. Fresh'
  BY <1>1, <1>3, AnswerTypes DEF SaInv, Fresh, SeedIsFresh, KeyIsAsked, DelayLocks
<1>. QED BY <1>5, <1>6, <1>7, <1>8 DEF SaInv

\* CAN_SA.
LEMMA TakeMessageKeeps ==
  ASSUME SaInv, TakeMessage
  PROVE  SaInv'
<1>1. /\ saTask = "ready" /\ saBox # <<>> /\ saBox' = Tail(saBox)
      /\ saTask' = (IF Head(saBox) = "INVALID_KEY" THEN "delay" ELSE "reset")
      /\ UNCHANGED <<sa, hasMessage, awaitKey, reader, tmZero, previous, requests>>
  BY DEF TakeMessage
<1>2. saBox \in Seq(SaMessages) /\ Len(saBox) <= SaMbox
  BY DEF SaInv, SaTypeOK, SaMessages
<1>3. /\ saBox' \in Seq(SaMessages) /\ Len(saBox') = Len(saBox) - 1
      /\ Len(saBox) \in Nat \ {0} /\ Head(saBox) = saBox[1] /\ saBox[1] \in SaMessages
      /\ \A i \in 1..Len(saBox') : saBox'[i] = saBox[i + 1]
  BY <1>1, <1>2, TakenMailbox
<1>4. SaTypeOK'
  <2>1. Len(saBox') <= SaMbox
    BY <1>2, <1>3, SaAssumption
  <2>2. saTask' \in TaskAt
    BY <1>1 DEF TaskAt
  <2>. QED BY <1>1, <1>3, <2>1, <2>2 DEF SaInv, SaTypeOK, SaMessages
<1>5. DelayAtThree' /\ DelayLocks' /\ Fresh'
  BY <1>1 DEF SaInv, DelayAtThree, DelayLocks, Fresh, SeedIsFresh, KeyIsAsked
<1>6. CASE saBox[1] = "INVALID_KEY"
  <2>1. /\ saTask' = "delay" /\ sa.delay /\ reader.at # "postDelay"
        /\ \A i \in 1..Len(saBox') : saBox'[i] # "INVALID_KEY"
    BY <1>1, <1>3, <1>6 DEF SaInv, OneDelay, Delaying, Queued
  <2>2. OneDelay'
    BY <1>1, <2>1 DEF OneDelay, Delaying, Queued
  <2>3. AccessIsWatched'
    BY <1>1, <2>1 DEF SaInv, DelayLocks, AccessIsWatched
  <2>. QED BY <1>4, <1>5, <2>2, <2>3 DEF SaInv
<1>7. CASE saBox[1] # "INVALID_KEY"
  <2>1. saTask' = "reset" /\ (Queued("INVALID_KEY")' => Queued("INVALID_KEY"))
    BY <1>1, <1>3, <1>7 DEF Queued
  <2>2. \A i, j \in 1..Len(saBox') :
           saBox'[i] = "INVALID_KEY" /\ saBox'[j] = "INVALID_KEY" => i = j
    BY <1>3 DEF SaInv, OneDelay
  <2>3. OneDelay'
    BY <1>1, <2>1, <2>2 DEF SaInv, OneDelay, Delaying
  <2>4. AccessIsWatched'
    BY <2>1 DEF AccessIsWatched
  <2>. QED BY <1>4, <1>5, <2>3, <2>4 DEF SaInv
<1>. QED BY <1>6, <1>7

LEMMA DelayOverKeeps ==
  ASSUME SaInv, DelayOver
  PROVE  SaInv'
<1>1. /\ saTask = "delay" /\ saTask' = "ready"
      /\ sa' = [sa EXCEPT !.delay = FALSE, !.invalid = (sa.invalid + 65535) % 65536]
      /\ UNCHANGED <<hasMessage, awaitKey, reader, saBox, tmZero, previous, requests>>
  BY DEF DelayOver
<1>2. sa.delay /\ sa.invalid = 3 /\ ~Queued("INVALID_KEY") /\ reader.at # "postDelay"
  BY <1>1, SaTypes DEF SaInv, OneDelay, Delaying
<1>3. sa' = [sa EXCEPT !.delay = FALSE, !.invalid = 2]
  BY <1>1, <1>2
<1>4. /\ sa' \in SaStates /\ ~sa'.delay /\ sa'.invalid = 2 /\ sa'.stage = sa.stage
      /\ sa'.isAccess = sa.isAccess /\ sa'.testMode = sa.testMode
  BY <1>3 DEF SaInv, SaTypeOK, SaStates
<1>5. SaTypeOK'
  BY <1>1, <1>4 DEF SaInv, SaTypeOK, TaskAt
<1>6. DelayAtThree' /\ DelayLocks'
  BY <1>1, <1>4 DEF SaInv, DelayAtThree, DelayLocks, WithKey
<1>7. OneDelay'
  BY <1>1, <1>2 DEF SaInv, OneDelay, Delaying, Queued
<1>8. Fresh' /\ AccessIsWatched'
  BY <1>1, <1>2, <1>4, SaTypes DEF SaInv, DelayLocks, Fresh, SeedIsFresh, KeyIsAsked, AccessIsWatched
<1>. QED BY <1>5, <1>6, <1>7, <1>8 DEF SaInv

LEMMA LookKeeps ==
  ASSUME SaInv, Look
  PROVE  SaInv'
<1>1. /\ saTask = "reset" /\ saTask' \in {"ready", "keep", "drop"}
      /\ saTask' = "ready" => tmZero /\ ~sa.isAccess
      /\ UNCHANGED <<sa, hasMessage, awaitKey, reader, saBox, tmZero, previous, requests>>
  BY DEF Look
<1>2. SaTypeOK'
  BY <1>1 DEF SaInv, SaTypeOK, TaskAt
<1>3. DelayAtThree' /\ DelayLocks' /\ Fresh'
  BY <1>1 DEF SaInv, DelayAtThree, DelayLocks, Fresh, SeedIsFresh, KeyIsAsked
<1>4. OneDelay'
  BY <1>1 DEF SaInv, OneDelay, Delaying, Queued
<1>5. AccessIsWatched'
  BY <1>1 DEF AccessIsWatched
<1>. QED BY <1>2, <1>3, <1>4, <1>5 DEF SaInv

LEMMA KeepKeeps ==
  ASSUME SaInv, Keep
  PROVE  SaInv'
<1>. DEFINE box == SaPosted("RESET_SA")
<1>1. /\ saTask = "keep" /\ saTask' = "ready" /\ hasMessage' = FALSE /\ saBox' = box
      /\ UNCHANGED <<sa, awaitKey, reader, tmZero, previous, requests>>
  BY DEF Keep
<1>2. saBox \in Seq(SaMessages) /\ Len(saBox) <= SaMbox
  BY DEF SaInv, SaTypeOK, SaMessages
<1>3. /\ box \in Seq(SaMessages) /\ Len(box) <= SaMbox
      /\ \A i \in 1..Len(box) : box[i] = "RESET_SA" \/ (i \in 1..Len(saBox) /\ box[i] = saBox[i])
      /\ Len(box) >= 1
  BY <1>2, PostedMailbox, SMTT(20) DEF SaMessages
<1>. HIDE DEF box
<1>4. SaTypeOK'
  <2>1. hasMessage' \in BOOLEAN
    BY <1>1, Zenon
  <2>2. saTask' \in TaskAt
    BY <1>1 DEF TaskAt
  <2>. QED BY <1>1, <1>3, <2>1, <2>2 DEF SaInv, SaTypeOK, SaMessages
<1>5. DelayAtThree' /\ DelayLocks' /\ Fresh'
  BY <1>1 DEF SaInv, DelayAtThree, DelayLocks, Fresh, SeedIsFresh, KeyIsAsked
<1>6. Queued("INVALID_KEY")' => Queued("INVALID_KEY")
  BY <1>1, <1>3 DEF Queued
<1>7. \A i, j \in 1..Len(box) : box[i] = "INVALID_KEY" /\ box[j] = "INVALID_KEY" => i = j
  BY <1>3 DEF SaInv, OneDelay
<1>8. OneDelay'
  BY <1>1, <1>6, <1>7 DEF SaInv, OneDelay, Delaying
<1>9. AccessIsWatched'
  <2>1. CASE sa.delay
    BY <1>1, <2>1 DEF SaInv, DelayLocks, AccessIsWatched
  <2>2. CASE ~sa.delay
    <3>1. ~Queued("INVALID_KEY")'
      BY <1>6, <2>2 DEF SaInv, OneDelay, Delaying
    <3>2. Queued("RESET_SA")'
      BY <1>1, <1>3, <3>1 DEF Queued, SaMessages
    <3>. QED BY <3>2 DEF AccessIsWatched
  <2>. QED BY <2>1, <2>2
<1>. QED BY <1>4, <1>5, <1>8, <1>9 DEF SaInv

LEMMA DropKeeps ==
  ASSUME SaInv, Drop
  PROVE  SaInv'
<1>1. /\ saTask = "drop" /\ saTask' = "entering" /\ sa' = Locked(sa)
      /\ UNCHANGED <<hasMessage, awaitKey, reader, saBox, tmZero, previous, requests>>
  BY DEF Drop
<1>2. SaTypeOK'
  BY <1>1, LockedTypes DEF SaInv, SaTypeOK, TaskAt
<1>3. DelayAtThree' /\ DelayLocks' /\ Fresh' /\ AccessIsWatched'
  BY <1>1, LockedTypes DEF SaInv, DelayAtThree, DelayLocks, WithKey, Fresh, SeedIsFresh,
     KeyIsAsked, AccessIsWatched
<1>4. OneDelay'
  BY <1>1, LockedTypes DEF SaInv, OneDelay, Delaying, Queued
<1>. QED BY <1>2, <1>3, <1>4 DEF SaInv

LEMMA DroppedKeeps ==
  ASSUME SaInv, Dropped
  PROVE  SaInv'
<1>. DEFINE mode == sa.testMode \/ tmZero
<1>1. /\ saTask = "entering" /\ saTask' = "ready" /\ sa' = [sa EXCEPT !.testMode = mode]
      /\ UNCHANGED <<hasMessage, awaitKey, reader, saBox, tmZero, previous, requests>>
  BY DEF Dropped
<1>2. mode \in BOOLEAN /\ sa \in SaStates /\ (mode /\ ~tmZero => sa.testMode)
  BY DEF SaInv, SaTypeOK
<1>. HIDE DEF mode
<1>3. /\ sa' \in SaStates /\ sa'.testMode = mode /\ sa'.stage = sa.stage
      /\ sa'.isAccess = sa.isAccess /\ sa'.invalid = sa.invalid /\ sa'.delay = sa.delay
  BY <1>1, <1>2 DEF SaStates
<1>4. SaTypeOK'
  BY <1>1, <1>3 DEF SaInv, SaTypeOK, TaskAt
<1>5. DelayAtThree' /\ DelayLocks' /\ Fresh' /\ AccessIsWatched'
  BY <1>1, <1>2, <1>3 DEF SaInv, DelayAtThree, DelayLocks, WithKey, Fresh, SeedIsFresh,
     KeyIsAsked, AccessIsWatched, Queued
<1>6. OneDelay'
  BY <1>1, <1>3 DEF SaInv, OneDelay, Delaying, Queued
<1>. QED BY <1>4, <1>5, <1>6 DEF SaInv

LEMMA SaInvStuttering ==
  ASSUME SaInv, UNCHANGED saVars
  PROVE  SaInv'
<1>1. \A m : Queued(m)' <=> Queued(m)
  BY DEF saVars, Queued
<1>. QED BY <1>1 DEF saVars, SaInv, SaTypeOK, DelayAtThree, OneDelay, Delaying, DelayLocks,
     Fresh, SeedIsFresh, KeyIsAsked, AccessIsWatched

\* Every step keeps the invariant.
LEMMA SaInvStep == SaInv /\ [SaNext]_saVars => SaInv'
<1>. SUFFICES ASSUME SaInv, [SaNext]_saVars PROVE SaInv'
  OBVIOUS
<1>1. CASE Tester
  BY <1>1, TesterServed, ServedKeeps DEF SaInv
<1>2. CASE Refuse \/ Accept
  BY <1>2, GateServed, ServedKeeps DEF SaInv
<1>3. CASE RequestSeed \/ KeyOutOfTurn \/ KeyInTurn \/ KeyTaken \/ Session \/ Other
  BY <1>3, RequestServed, KeyServed, ServedKeeps DEF SaInv
<1>4. CASE CountWrong
  BY <1>4, CountWrongKeeps
<1>5. CASE PostReset
  BY <1>5, PostResetKeeps
<1>6. CASE PostDelay
  BY <1>6, PostDelayKeeps
<1>7. CASE SaTaskNext
  BY <1>7, TakeMessageKeeps, DelayOverKeeps, LookKeeps, KeepKeeps, DropKeeps,
     DroppedKeeps DEF SaTaskNext
<1>8. CASE UNCHANGED saVars
  BY <1>8, SaInvStuttering
<1>. QED BY <1>1, <1>2, <1>3, <1>4, <1>5, <1>6, <1>7, <1>8
     DEF SaNext, ReaderNext, KeyTaken

----------------------------------------------------------------------------
(* The theorems.                                                           *)

\* The variables keep their types.
THEOREM SaTypeCorrect == SaSpec => []SaTypeOK
<1>1. SaInv => SaTypeOK
  BY DEF SaInv
<1>. QED BY <1>1, SaInvInit, SaInvStep, PTL DEF SaSpec

\* An access or a test mode that was opened is watched, whatever messages found no place
\* in the mailbox and however the two threads alternate (securityAccess_27.c:30-53, 230).
THEOREM AccessWatched == SaSpec => []AccessIsWatched
<1>1. SaInv => AccessIsWatched
  BY DEF SaInv
<1>. QED BY <1>1, SaInvInit, SaInvStep, PTL DEF SaSpec

\* The counter of wrong keys stays at three or below, and the delay is that it is three
\* (securityAccess_27.c:83-87, 212-221).
THEOREM DelayAtThreeAlways == SaSpec => []DelayAtThree
<1>1. SaInv => DelayAtThree
  BY DEF SaInv
<1>. QED BY <1>1, SaInvInit, SaInvStep, PTL DEF SaSpec

\* Only the right key opens the access, right after its seed, or when the access was open as
\* the handler looked at the stage (securityAccess_27.c:157-211).
THEOREM AccessOpenedByKey == SaSpec => OpenedByKey
<1>. DEFINE Asked == reader.req = "right" /\ (previous = "seed" \/ reader.open)
<1>1. SaInv /\ [SaNext]_saVars => [~sa.isAccess /\ sa'.isAccess => Asked]_saVars
  <2>. SUFFICES ASSUME SaInv, SaNext, ~sa.isAccess, sa'.isAccess
                PROVE  Asked
    OBVIOUS
  <2>1. CASE KeyRight
    BY <2>1 DEF KeyRight, SaInv, Fresh, KeyIsAsked
  <2>2. CASE KeyTest \/ KeyWrong \/ Drop
    <3>1. sa' = Locked(sa)
      BY <2>2 DEF KeyTest, KeyWrong, Drop, Goes
    <3>. QED BY <3>1, LockedTypes
  <2>3. CASE Tester \/ Refuse \/ Accept \/ RequestSeed \/ KeyOutOfTurn \/ KeyInTurn \/ Session
             \/ Other \/ PostReset \/ PostDelay \/ TakeMessage \/ Look \/ Keep
    <3>1. sa' \in {sa, Locked(sa), [sa EXCEPT !.stage = 2]}
      BY <2>3 DEF Tester, Receive, Refuse, Accept, RequestSeed, KeyOutOfTurn, KeyInTurn,
         Session, Other, PostReset, PostDelay, TakeMessage, Look, Keep
    <3>2. [sa EXCEPT !.stage = 2].isAccess = sa.isAccess
      BY DEF SaInv, SaTypeOK, SaStates
    <3>. QED BY <3>1, <3>2, LockedTypes
  <2>4. CASE TestModeOff \/ TestModeOn \/ Dropped
    <3>1. PICK b : sa' = [sa EXCEPT !.testMode = b]
      <4>1. CASE Dropped
        BY <4>1, Zenon DEF Dropped
      <4>2. CASE TestModeOff \/ TestModeOn
        BY <4>2 DEF TestModeOff, TestModeOn, Goes
      <4>. QED BY <2>4, <4>1, <4>2
    <3>. QED BY <3>1 DEF SaInv, SaTypeOK, SaStates
  <2>5. CASE CountWrong \/ DelayOver
    <3>. DEFINE n == sa.invalid + 1
                after == (sa.invalid + 65535) % 65536
                wrong == (n = 3) \/ sa.delay
    <3>1. \/ sa' = [sa EXCEPT !.invalid = n, !.delay = wrong]
          \/ sa' = [sa EXCEPT !.delay = FALSE, !.invalid = after]
      BY <2>5 DEF CountWrong, DelayOver
    <3>. HIDE DEF n, after, wrong
    <3>. QED BY <3>1 DEF SaInv, SaTypeOK, SaStates
  <2>. QED BY <2>1, <2>2, <2>3, <2>4, <2>5 DEF SaNext, ReaderNext, SaTaskNext
<1>. QED BY <1>1, SaInvInit, SaInvStep, PTL DEF SaSpec, OpenedByKey

----------------------------------------------------------------------------
(* The transfer of files.                                                  *)

\* The types the proof needs.
Tools == [stream : Files \cup {NoFile}, path : Files \cup {NoFile}, exp : Int, size : Int,
          seq : Int, busy : BOOLEAN, hasNew : BOOLEAN, deal : {"IDLE", "SAVE", "GET"}]
Readers == [at : ReaderStates, kind : Kinds, file : Files \cup {NoFile}, size : Sizes]
FtTypes ==
  /\ ft \in Tools
  /\ disk \in [Files -> Int] /\ want \in [Files -> Int]
  /\ rd \in Readers /\ (rd.at \in {"busySet", "posted"} => rd.file \in Files)
  /\ loop \in LoopStates

\* A file that is whole or not there.
Whole(f) == disk[f] \in {Absent, want[f]}

\* One thread at a time ends a transfer, and none while one is being started.
OneFinisher ==
  /\ rd.at \in Finishing => loop \notin Finishing
  /\ rd.at \in {"busySet", "posted"} =>
       loop \notin Finishing /\ ft.busy /\ ft.deal = "IDLE" /\ ft.stream = NoFile

\* A tool that is free has nothing going on, and nothing goes on before the file is open.
NothingLeft == (~ft.busy => ft.deal = "IDLE") /\ (ft.deal = "IDLE" => ft.size = 0)

\* Who ends the transfer has closed the file.
Closed ==
  {rd.at, loop} \cap {"removing", "resetting"} # {} => ft.stream = NoFile

\* Only the file that is being saved may be a torso: its size is what was counted, and what
\* is expected is what it is to get; before the reset it is whole.
OneTorso ==
  /\ \A f \in Files : Whole(f) \/ (ft.deal = "SAVE" /\ ft.path = f)
  /\ ft.deal = "SAVE" =>
       /\ ft.path \in Files /\ ft.stream \in {NoFile, ft.path} /\ want[ft.path] = ft.exp
       /\ disk[ft.path] \in {Absent, ft.size} /\ ft.size >= 0
       /\ ft.size > ft.exp => disk[ft.path] = Absent
       /\ "resetting" \in {rd.at, loop} => Whole(ft.path)

FtInv == FtTypes /\ (~overlap => OneFinisher /\ NothingLeft /\ Closed /\ OneTorso)

USE DEF Tools, Readers

LEMMA FtInvInit == FtInit => FtInv
<1>. SUFFICES ASSUME FtInit PROVE FtInv
  OBVIOUS
<1>1. MaxBlocks \in Nat
  BY FtAssumption
<1>2. FtTypes
  <2>1. disk \in [Files -> Int]
    BY <1>1 DEF FtInit, Absent
  <2>2. ft = IdleTool /\ rd = ReaderIdle /\ loop = "ready" /\ want = disk
    BY DEF FtInit
  <2>3. 0 \in Sizes
    BY <1>1 DEF Sizes
  <2>4. rd \in Readers /\ rd.at = "idle"
    BY <2>2, <2>3 DEF ReaderIdle, ReaderStates, Kinds, Readers
  <2>5. ft \in Tools
    <3>1. 0 \in Int /\ 1 \in Int /\ FALSE \in BOOLEAN /\ "IDLE" \in {"IDLE", "SAVE", "GET"}
          /\ NoFile \in Files \cup {NoFile}
      OBVIOUS
    <3>. QED BY <2>2, <3>1, Zenon DEF IdleTool
  <2>. QED BY <2>1, <2>2, <2>4, <2>5 DEF FtTypes, LoopStates
<1>3. ft.deal = "IDLE" /\ ft.size = 0 /\ rd.at = "idle" /\ loop = "ready" /\ want = disk
  BY DEF FtInit, IdleTool, ReaderIdle
<1>. QED BY <1>2, <1>3 DEF FtInv, OneFinisher, NothingLeft, Closed, OneTorso, Finishing, Whole

\* What a step of finish_all_deals leaves.
Finishes(from) ==
  /\ NothingLeft'
  /\ ft'.stream = NoFile
  /\ \A f \in Files : Whole(f)' \/ (ft'.deal = "SAVE" /\ ft'.path = f)
  /\ ft'.deal = "SAVE" =>
       /\ ft'.path \in Files /\ want'[ft'.path] = ft'.exp
       /\ disk'[ft'.path] \in {Absent, ft'.size} /\ ft'.size >= 0
       /\ ft'.size > ft'.exp => disk'[ft'.path] = Absent
       /\ from # "closing" => disk'[ft'.path] \in {Absent, want'[ft'.path]}
  /\ from = "resetting" => ft'.deal # "SAVE"

LEMMA FinishTypes ==
  ASSUME FtTypes, NEW from, NEW to, NEW end, FinishStep(from, to, end)
  PROVE  ft' \in Tools /\ disk' \in [Files -> Int]
<1>0. ft \in Tools /\ disk \in [Files -> Int] /\ NoFile \in Files \cup {NoFile} /\ Absent \in Int
  BY DEF FtTypes, Absent
<1>1. CASE CloseStream
  BY <1>0, <1>1 DEF CloseStream, Tools
<1>2. CASE RemoveTorso
  BY <1>0, <1>2 DEF RemoveTorso, Remove
<1>3. CASE ResetTool
  <2>1. ft.stream \in Files \cup {NoFile} /\ ft.hasNew \in BOOLEAN
    BY <1>0 DEF Tools
  <2>. DEFINE s == ft.stream
              h == ft.hasNew
  <2>2. s \in Files \cup {NoFile} /\ h \in BOOLEAN /\ disk' = disk
        /\ ft' = [IdleTool EXCEPT !.stream = s, !.hasNew = h]
    BY <1>3, <2>1 DEF Reset, ResetTool
  <2>. HIDE DEF s, h
  <2>3. ft' = [stream |-> s, path |-> NoFile, exp |-> 0, size |-> 0, seq |-> 1, busy |-> FALSE,
               hasNew |-> h, deal |-> "IDLE"]
    BY <2>2 DEF IdleTool
  <2>4. ft' \in Tools
    <3>1. [stream |-> s, path |-> NoFile, exp |-> 0, size |-> 0, seq |-> 1, busy |-> FALSE,
           hasNew |-> h, deal |-> "IDLE"] \in Tools
      <4>1. s \in Files \cup {NoFile} /\ h \in BOOLEAN
        BY <2>2
      <4>. QED BY <4>1
    <3>. QED BY <2>3, <3>1
  <2>. QED BY <1>0, <2>2, <2>4
<1>. QED BY <1>1, <1>2, <1>3 DEF FinishStep

\* What finish_all_deals does, step by step, in whichever thread.
LEMMA FinishKeeps ==
  ASSUME FtTypes, NothingLeft, Closed, OneTorso, NEW from, NEW to, NEW end, FinishStep(from, to, end),
         from \in {rd.at, loop}, end \in {"idle", "woken"}, UNCHANGED want
  PROVE  ft' \in Tools /\ disk' \in [Files -> Int] /\ Finishes(from)
<1>1. CASE from = "closing" /\ to = "removing" /\ CloseStream
  <2>1. /\ ft' = [ft EXCEPT !.stream = NoFile] /\ disk' = disk /\ want' = want
        /\ ft'.stream = NoFile /\ ft'.path = ft.path /\ ft'.exp = ft.exp /\ ft'.size = ft.size
        /\ ft'.busy = ft.busy /\ ft'.deal = ft.deal
    BY <1>1 DEF CloseStream, FtTypes
  <2>2. /\ ft' \in Tools
        /\ disk' \in [Files -> Int]
    BY <2>1 DEF FtTypes
  <2>. QED BY <1>1, <2>1, <2>2 DEF NothingLeft, OneTorso, Whole, Finishes
<1>2. CASE from = "removing" /\ to = "resetting" /\ RemoveTorso
  <2>1. UNCHANGED <<ft, want>> /\ ft.stream = NoFile
    BY <1>2 DEF RemoveTorso, Closed
  <2>2. CASE Torso /\ ft.path # NoFile
    <3>1. /\ disk' = [disk EXCEPT ![ft.path] = Absent] /\ ft.deal = "SAVE" /\ ft.path \in Files
          /\ disk'[ft.path] = Absent /\ \A f \in Files : f # ft.path => disk'[f] = disk[f]
          /\ disk' \in [Files -> Int]
      BY <1>2, <2>2 DEF RemoveTorso, Torso, OneTorso, Remove, FtTypes, Absent
    <3>. QED BY <1>2, <2>1, <3>1 DEF NothingLeft, OneTorso, Whole, FtTypes, Finishes
  <2>3. CASE ~(Torso /\ ft.path # NoFile)
    <3>1. disk' = disk
      BY <1>2, <2>3 DEF RemoveTorso
    <3>2. ft.deal = "SAVE" => disk[ft.path] \in {Absent, want[ft.path]}
      <4>. SUFFICES ASSUME ft.deal = "SAVE" PROVE disk[ft.path] \in {Absent, want[ft.path]}
        OBVIOUS
      <4>1. ft.path # NoFile /\ (ft.exp = 0 \/ ft.size = ft.exp)
        BY <2>3, FtAssumption DEF Torso, OneTorso, NoFile
      <4>. QED BY <4>1 DEF OneTorso, FtTypes
    <3>. QED BY <1>2, <2>1, <3>1, <3>2 DEF NothingLeft, OneTorso, Whole, FtTypes, Finishes
  <2>. QED BY <2>2, <2>3
<1>3. CASE from = "resetting" /\ to = end /\ ResetTool
  <2>1. /\ ft.stream = NoFile /\ disk' = disk /\ want' = want /\ ft' = Reset
        /\ \A f \in Files : Whole(f)
    BY <1>3 DEF ResetTool, Closed, OneTorso
  <2>5. ft' \in Tools
    BY FinishTypes
  <2>6. ft'.stream = NoFile /\ ft'.deal = "IDLE" /\ ft'.size = 0
    BY <2>1, Zenon DEF Reset, IdleTool
  <2>. QED BY <1>3, <2>1, <2>5, <2>6 DEF NothingLeft, Whole, FtTypes, Finishes
<1>. QED BY <1>1, <1>2, <1>3 DEF FinishStep

LEMMA FtInvStep == FtInv /\ [FtNext]_ftVars => FtInv'
<1>. SUFFICES ASSUME FtInv, [FtNext]_ftVars PROVE FtInv'
  OBVIOUS
<1>0. /\ FtTypes
      /\ ft \in Tools
      /\ disk \in [Files -> Int] /\ want \in [Files -> Int]
      /\ rd \in Readers /\ (rd.at \in {"busySet", "posted"} => rd.file \in Files)
      /\ loop \in LoopStates
  BY DEF FtInv, FtTypes
<1>i. ReaderIdle \in Readers
        /\ ReaderIdle.at = "idle" /\ Sizes \subseteq Int /\ Absent \in Int
  BY FtAssumption DEF ReaderIdle, ReaderStates, Kinds, Readers, Sizes, Absent
<1>a. ASSUME ~overlap
      PROVE  OneFinisher /\ NothingLeft /\ Closed /\ OneTorso
  BY <1>a DEF FtInv
<1>1. ASSUME NEW kind \in {"save", "get"}, NEW f \in Files, NEW n \in Sizes, StartTransfer(kind, f, n)
      PROVE  FtInv'
  <2>1. /\ rd' = [ReaderIdle EXCEPT !.at = "busySet", !.kind = kind, !.file = f, !.size = n]
        /\ ft' = [ft EXCEPT !.busy = TRUE] /\ UNCHANGED <<disk, want, loop>> /\ ~ft.busy
        /\ ft.stream = NoFile /\ (~overlap' => ~overlap /\ loop \notin Finishing)
    BY <1>1 DEF StartTransfer, CanStart
  <2>2. /\ rd' \in Readers
        /\ rd'.at = "busySet" /\ rd'.file = f
    BY <2>1 DEF ReaderIdle, ReaderStates, Kinds, Readers
  <2>3. /\ ft' \in Tools
        /\ ft'.stream = NoFile /\ ft'.path = ft.path /\ ft'.exp = ft.exp /\ ft'.size = ft.size
        /\ ft'.busy /\ ft'.deal = ft.deal
    BY <1>0, <2>1
  <2>4. FtTypes'
    BY <1>0, <2>1, <2>2, <2>3 DEF FtTypes
  <2>5. ASSUME ~overlap' PROVE OneFinisher' /\ NothingLeft' /\ Closed' /\ OneTorso'
    <3>1. OneFinisher /\ NothingLeft /\ Closed /\ OneTorso /\ loop \notin Finishing /\ ft.deal = "IDLE"
      BY <1>a, <2>1, <2>5 DEF NothingLeft
    <3>. QED BY <2>1, <2>2, <2>3, <3>1 DEF OneFinisher, NothingLeft, Closed, OneTorso, Whole, Finishing
  <2>. QED BY <2>4, <2>5 DEF FtInv
<1>2. CASE PostTimer
  <2>1. /\ UNCHANGED <<ft, disk, want, loop, overlap>> /\ rd.at = "busySet"
        /\ rd' = [rd EXCEPT !.at = "posted"] \/ rd' = ReaderIdle
    BY <1>2 DEF PostTimer
  <2>2. /\ rd' \in Readers
        /\ rd'.at = "idle" \/ (rd'.at = "posted" /\ rd'.file = rd.file)
    BY <1>0, <1>i, <2>1 DEF ReaderStates
  <2>. QED BY <1>0, <1>a, <2>1, <2>2
           DEF FtInv, FtTypes, OneFinisher, NothingLeft, Closed, OneTorso, Whole, Finishing
<1>3. CASE Open
  <2>1. rd.at = "posted" /\ rd' = ReaderIdle /\ UNCHANGED loop /\ (~overlap' => ~overlap)
    BY <1>3 DEF Open
  <2>. DEFINE f == rd.file
              n == IF rd.kind = "save" THEN rd.size ELSE disk[f]
              named == IF rd.kind = "get" /\ n = 0 THEN [ft EXCEPT !.exp = 0]
                       ELSE [ft EXCEPT !.exp = n, !.path = f]
              Saved == /\ rd.kind = "save" /\ ft' = [named EXCEPT !.stream = f, !.deal = "SAVE"]
                       /\ disk' = [disk EXCEPT ![f] = 0] /\ want' = [want EXCEPT ![f] = rd.size]
              Got == /\ rd.kind # "save" /\ ft' = [named EXCEPT !.stream = f, !.deal = "GET"]
                     /\ UNCHANGED <<disk, want>>
              Failed == ft' = named /\ UNCHANGED <<disk, want>>
  <2>a. n \in Int /\ f \in Files /\ (rd.kind = "save" => n = rd.size)
    BY <1>0, <1>i, <2>1
  <2>b. Saved \/ Got \/ Failed
    BY <1>3 DEF Open
  <2>c. /\ named \in Tools /\ named.stream = ft.stream /\ named.size = ft.size
        /\ named.busy = ft.busy /\ named.deal = ft.deal
        /\ rd.kind = "save" => named.exp = n /\ named.path = f
    <3>. HIDE DEF n, f
    <3>1. CASE rd.kind = "get" /\ n = 0
      BY <1>0, <3>1
    <3>2. CASE ~(rd.kind = "get" /\ n = 0)
      BY <1>0, <2>a, <3>2
    <3>. QED BY <3>1, <3>2
  <2>. HIDE DEF n, f, named
  <2>3. /\ ft' \in Tools /\ ft'.size = ft.size /\ ft'.busy = ft.busy
        /\ Saved => ft'.deal = "SAVE" /\ ft'.exp = n /\ ft'.path = f /\ ft'.stream = f
        /\ Got => ft'.deal = "GET"
        /\ Failed => ft'.deal = ft.deal /\ ft'.stream = ft.stream
    <3>1. CASE Saved
      BY <2>a, <2>c, <3>1
    <3>2. CASE Got
      BY <2>a, <2>c, <3>2
    <3>3. CASE Failed
      BY <2>c, <3>3
    <3>. QED BY <2>b, <3>1, <3>2, <3>3
  <2>4. disk' \in [Files -> Int] /\ want' \in [Files -> Int]
    BY <1>0, <1>i, <2>a, <2>b
  <2>5. FtTypes'
    BY <1>0, <1>i, <2>1, <2>3, <2>4 DEF FtTypes
  <2>6. ASSUME ~overlap' PROVE OneFinisher' /\ NothingLeft' /\ Closed' /\ OneTorso'
    <3>1. /\ OneFinisher /\ NothingLeft /\ Closed /\ OneTorso /\ loop \notin Finishing
          /\ ft.busy /\ ft.deal = "IDLE" /\ ft.size = 0 /\ ft.stream = NoFile
          /\ \A g \in Files : Whole(g)
      BY <1>a, <2>1, <2>6 DEF OneFinisher, NothingLeft, OneTorso
    <3>2. OneFinisher' /\ NothingLeft' /\ Closed'
      BY <1>i, <2>1, <2>b, <2>3, <3>1 DEF OneFinisher, NothingLeft, Closed, Finishing
    <3>3. OneTorso'
      <4>1. CASE Got \/ Failed
        BY <2>3, <3>1, <4>1 DEF OneTorso, Whole
      <4>2. CASE Saved
        <5>1. /\ disk'[f] = 0 /\ want'[f] = n /\ n \in Sizes
              /\ \A g \in Files : g # f => disk'[g] = disk[g] /\ want'[g] = want[g]
          BY <1>0, <2>a, <4>2
        <5>2. /\ ft'.path = f /\ ft'.exp = n /\ ft'.size = 0 /\ ft'.stream = f /\ ft'.deal = "SAVE"
              /\ rd'.at = "idle" /\ loop' = loop
          BY <1>i, <2>1, <2>3, <3>1, <4>2
        <5>. QED BY <2>a, <3>1, <5>1, <5>2, FtAssumption DEF OneTorso, Whole, Sizes, Finishing
      <4>. QED BY <2>b, <4>1, <4>2
    <3>. QED BY <3>2, <3>3
  <2>. QED BY <2>5, <2>6 DEF FtInv
<1>4. ASSUME NEW sq \in 1..(MaxBlocks + 1), AddData(sq) PROVE FtInv'
  <2>0. rd.at = "idle" /\ ft.stream # NoFile /\ ft.busy /\ ft.deal = "SAVE" /\ UNCHANGED <<want, loop>>
    BY <1>4 DEF AddData, Begin
  <2>1. CASE UNCHANGED <<ft, disk, rd, overlap>>
    BY <1>0, <1>a, <2>0, <2>1 DEF FtInv, FtTypes, OneFinisher, NothingLeft, Closed, OneTorso, Whole
  <2>2. CASE ~UNCHANGED <<ft, disk, rd, overlap>>
    <3>1. PICK q \in Int : ft' = [ft EXCEPT !.hasNew = TRUE, !.size = ft.size + 1, !.seq = q]
      <4>. DEFINE q == IF ft.size + 1 < ft.exp THEN ft.seq + 1 ELSE ft.seq
      <4>1. ft' = [ft EXCEPT !.hasNew = TRUE, !.size = ft.size + 1, !.seq = q]
        BY <1>4, <2>2 DEF AddData
      <4>2. q \in Int
        BY <1>0
      <4>. HIDE DEF q
      <4>. QED BY <4>1, <4>2
    <3>2. /\ ft' \in Tools /\ ft'.stream = ft.stream /\ ft'.path = ft.path /\ ft'.exp = ft.exp
          /\ ft'.size = ft.size + 1 /\ ft'.busy /\ ft'.deal = "SAVE"
      <4>1. ft.size + 1 \in Int
        BY <1>0
      <4>. QED BY <1>0, <2>0, <3>1, <4>1
    <3>3. /\ disk' = IF ft.size + 1 > ft.exp /\ ft.path # NoFile THEN Remove(ft.path)
                     ELSE IF disk[ft.stream] = Absent THEN disk
                     ELSE [disk EXCEPT ![ft.stream] = @ + 1]
          /\ rd' = IF ft.size + 1 < ft.exp THEN rd
                   ELSE [ReaderIdle EXCEPT !.at = "closing", !.kind = "block"]
          /\ overlap' = (overlap \/ (ft.size + 1 >= ft.exp /\ loop \in Finishing))
      BY <1>4, <2>2 DEF AddData
    <3>4. disk' \in [Files -> Int] /\ rd' \in Readers /\ rd'.at \in {"idle", "closing"}
            /\ (rd'.at = "closing" <=> ft.size + 1 >= ft.exp)
      <4>1. disk' \in [Files -> Int]
        <5>1. [disk EXCEPT ![ft.stream] = @ + 1] \in [Files -> Int]
          <6>1. ft.stream \in Files
            BY <1>0, <2>0
          <6>2. disk[ft.stream] + 1 \in Int
            BY <1>0, <6>1
          <6>. QED BY <1>0, <6>1, <6>2
        <5>2. Remove(ft.path) \in [Files -> Int]
          BY <1>0, <1>i DEF Remove
        <5>. QED BY <1>0, <3>3, <5>1, <5>2
      <4>2. CASE ft.size + 1 < ft.exp
        BY <1>0, <2>0, <3>3, <4>1, <4>2
      <4>3. CASE ~(ft.size + 1 < ft.exp)
        <5>1. rd' = [ReaderIdle EXCEPT !.at = "closing", !.kind = "block"] /\ ft.size + 1 >= ft.exp
          BY <1>0, <3>3, <4>3
        <5>2. rd' \in Readers /\ rd'.at = "closing"
          BY <1>i, <5>1 DEF ReaderIdle, ReaderStates, Kinds
        <5>. QED BY <4>1, <5>1, <5>2
      <4>. QED BY <4>2, <4>3
    <3>5. FtTypes'
      BY <1>0, <2>0, <3>2, <3>4 DEF FtTypes
    <3>6. ASSUME ~overlap' PROVE OneFinisher' /\ NothingLeft' /\ Closed' /\ OneTorso'
      <4>1. /\ ~overlap /\ (ft.size + 1 >= ft.exp => loop \notin Finishing)
            /\ OneFinisher /\ NothingLeft /\ Closed /\ OneTorso
        BY <1>0, <1>a, <3>3, <3>6
      <4>2. loop \notin {"removing", "resetting"} /\ ft.path \in Files /\ ft.stream = ft.path
        BY <2>0, <4>1 DEF Closed, OneTorso
      <4>3. OneFinisher' /\ NothingLeft' /\ Closed'
        BY <2>0, <3>2, <3>4, <4>1, <4>2 DEF OneFinisher, NothingLeft, Closed, Finishing
      <4>4. /\ \A f \in Files : f # ft.path => disk'[f] = disk[f]
            /\ disk'[ft.path] \in {Absent, ft.size + 1}
            /\ ft.size + 1 > ft.exp => disk'[ft.path] = Absent
        <5>1. disk[ft.path] \in {Absent, ft.size} /\ ft.path # NoFile /\ ft.size \in Int /\ ft.exp \in Int
          BY <1>0, <2>0, <4>1, <4>2, FtAssumption DEF OneTorso, NoFile
        <5>. QED BY <1>0, <3>3, <4>2, <5>1 DEF Remove
      <4>5. OneTorso'
        BY <1>0, <2>0, <3>2, <3>4, <4>1, <4>2, <4>4 DEF OneTorso, Whole
      <4>. QED BY <4>3, <4>5
    <3>. QED BY <3>5, <3>6 DEF FtInv
  <2>. QED BY <2>1, <2>2
<1>5. ASSUME NEW sq \in 1..(MaxBlocks + 1), ReadData(sq) PROVE FtInv'
  <2>1. /\ rd.at = "idle" /\ ft.deal = "GET" /\ UNCHANGED <<disk, want, loop>>
        /\ ft' = ft \/ ft' = [ft EXCEPT !.hasNew = TRUE, !.size = ft.size + 1, !.seq = @ + 1]
        /\ \/ rd' = rd /\ (~overlap' => ~overlap)
           \/ /\ rd' = [ReaderIdle EXCEPT !.at = "closing", !.kind = "block"]
              /\ ~overlap' => ~overlap /\ loop \notin Finishing
    BY <1>5 DEF ReadData, Begin
  <2>2. /\ ft' \in Tools /\ ft'.stream = ft.stream /\ ft'.deal = "GET" /\ ft'.busy = ft.busy
    <3>1. ft.size + 1 \in Int /\ ft.seq + 1 \in Int
      BY <1>0
    <3>2. CASE ft' = ft
      BY <1>0, <2>1, <3>2
    <3>3. CASE ft' = [ft EXCEPT !.hasNew = TRUE, !.size = ft.size + 1, !.seq = @ + 1]
      BY <1>0, <2>1, <3>1, <3>3
    <3>. QED BY <2>1, <3>2, <3>3
  <2>3. rd' \in Readers /\ (rd' = rd \/ rd'.at = "closing")
    BY <1>0, <1>i, <2>1 DEF ReaderIdle, ReaderStates, Kinds, Readers
  <2>4. FtTypes'
    BY <1>0, <2>1, <2>2, <2>3 DEF FtTypes
  <2>5. ASSUME ~overlap' PROVE OneFinisher' /\ NothingLeft' /\ Closed' /\ OneTorso'
    <3>1. ~overlap /\ OneFinisher /\ NothingLeft /\ Closed /\ OneTorso
      BY <1>a, <2>1, <2>5
    <3>2. rd' = rd \/ (rd'.at = "closing" /\ loop \notin Finishing)
      BY <1>i, <2>1, <2>3, <2>5 DEF ReaderIdle
    <3>. QED BY <2>1, <2>2, <3>1, <3>2 DEF OneFinisher, NothingLeft, Closed, OneTorso, Whole, Finishing
  <2>. QED BY <2>4, <2>5 DEF FtInv
<1>6. CASE Exit
  <2>1. /\ rd.at = "idle" /\ rd' = [ReaderIdle EXCEPT !.at = "closing"]
        /\ UNCHANGED <<ft, disk, want, loop>> /\ (~overlap' => ~overlap /\ loop \notin Finishing)
    BY <1>6 DEF Exit, Begin
  <2>2. rd' \in Readers /\ rd'.at = "closing"
    BY <1>i, <2>1 DEF ReaderIdle, ReaderStates, Kinds, Readers
  <2>. QED BY <1>0, <1>a, <2>1, <2>2
           DEF FtInv, FtTypes, OneFinisher, NothingLeft, Closed, OneTorso, Whole, Finishing
<1>7. ASSUME NEW f \in Files, DeleteFile(f) PROVE FtInv'
  <2>1. disk' = [disk EXCEPT ![f] = Absent] /\ UNCHANGED <<ft, rd, want, loop, overlap>>
    BY <1>7 DEF DeleteFile, Remove
  <2>2. disk' \in [Files -> Int] /\ \A g \in Files : disk'[g] \in {Absent, disk[g]}
    BY <1>0, <1>i, <2>1
  <2>. QED BY <1>0, <1>a, <2>1, <2>2
           DEF FtInv, FtTypes, OneFinisher, NothingLeft, Closed, OneTorso, Whole
<1>8. CASE ReaderFinish
  <2>1. PICK to \in {"removing", "resetting", "idle"} :
          FinishStep(rd.at, to, "idle") /\ rd' = IF to = "idle" THEN ReaderIdle ELSE [rd EXCEPT !.at = to]
    BY <1>8 DEF ReaderFinish
  <2>2. UNCHANGED <<want, loop, overlap>> /\ rd.at \in Finishing
    BY <1>8 DEF ReaderFinish
  <2>3. rd' \in Readers /\ rd'.at = to
    BY <1>0, <1>i, <2>1 DEF ReaderStates
  <2>4. /\ rd.at = "closing" => to = "removing"
        /\ rd.at = "removing" => to = "resetting"
        /\ rd.at = "resetting" => to = "idle"
    BY <2>1 DEF FinishStep
  <2>5. ft' \in Tools /\ disk' \in [Files -> Int]
    BY <1>0, <2>1, FinishTypes
  <2>6. FtTypes'
    BY <1>0, <2>2, <2>3, <2>5 DEF FtTypes
  <2>7. ASSUME ~overlap' PROVE OneFinisher' /\ NothingLeft' /\ Closed' /\ OneTorso'
    <3>1. OneFinisher /\ NothingLeft /\ Closed /\ OneTorso /\ loop \notin Finishing
      BY <1>a, <2>2, <2>7 DEF OneFinisher
    <3>2. Finishes(rd.at)
      BY <1>0, <2>1, <2>2, <3>1, FinishKeeps DEF Finishes
    <3>. QED BY <2>2, <2>3, <2>4, <3>1, <3>2
             DEF Finishes, OneFinisher, Closed, OneTorso, Whole, Finishing
  <2>. QED BY <2>6, <2>7 DEF FtInv
<1>9. CASE TakeTimer
  <2>1. UNCHANGED <<ft, disk, want, rd, overlap>> /\ loop = "ready" /\ loop' \in {"sleeping", "ready"}
    BY <1>9 DEF TakeTimer
  <2>. QED BY <1>0, <1>a, <2>1
           DEF FtInv, FtTypes, LoopStates, OneFinisher, NothingLeft, Closed, OneTorso, Whole, Finishing
<1>10. CASE Wake
  <2>1. /\ UNCHANGED <<ft, disk, want, rd>> /\ loop = "sleeping"
        /\ ft.hasNew => loop' = "woken" /\ UNCHANGED overlap
        /\ ~ft.hasNew => loop' = "closing" /\ overlap' = (overlap \/ rd.at # "idle")
    <3>1. UNCHANGED <<ft, disk, want, rd>> /\ loop = "sleeping"
      BY <1>10 DEF Wake
    <3>. QED BY <1>10, <3>1, Zenon DEF Wake
  <2>2. loop' \in {"woken", "closing"} /\ (~overlap' => ~overlap /\ (loop' = "woken" \/ rd.at = "idle"))
    <3>1. CASE ft.hasNew
      BY <2>1, <3>1
    <3>2. CASE ~ft.hasNew
      <4>1. loop' = "closing" /\ overlap' = (overlap \/ rd.at # "idle")
        BY <2>1, <3>2, Zenon
      <4>. QED BY <4>1
    <3>. QED BY <3>1, <3>2
  <2>. QED BY <1>0, <1>a, <2>1, <2>2
           DEF FtInv, FtTypes, LoopStates, OneFinisher, NothingLeft, Closed, OneTorso, Whole, Finishing
<1>11. CASE LoopFinish
  <2>1. PICK to \in {"removing", "resetting", "woken"} : FinishStep(loop, to, "woken") /\ loop' = to
    BY <1>11 DEF LoopFinish
  <2>2. UNCHANGED <<want, rd, overlap>> /\ loop \in Finishing
    BY <1>11 DEF LoopFinish
  <2>4. /\ loop = "closing" => to = "removing"
        /\ loop = "removing" => to = "resetting"
        /\ loop = "resetting" => to = "woken"
    BY <2>1 DEF FinishStep
  <2>5. ft' \in Tools /\ disk' \in [Files -> Int]
    BY <1>0, <2>1, FinishTypes
  <2>6. FtTypes'
    BY <1>0, <2>1, <2>2, <2>5 DEF FtTypes, LoopStates
  <2>7. ASSUME ~overlap' PROVE OneFinisher' /\ NothingLeft' /\ Closed' /\ OneTorso'
    <3>1. /\ OneFinisher /\ NothingLeft /\ Closed /\ OneTorso
          /\ rd.at \notin Finishing /\ rd.at \notin {"busySet", "posted"}
      BY <1>a, <2>2, <2>7 DEF OneFinisher
    <3>2. Finishes(loop)
      BY <1>0, <2>1, <2>2, <3>1, FinishKeeps DEF Finishes
    <3>. QED BY <2>1, <2>2, <2>4, <3>1, <3>2
             DEF Finishes, OneFinisher, Closed, OneTorso, Whole, Finishing
  <2>. QED BY <2>6, <2>7 DEF FtInv
<1>12. CASE Again
  <2>1. /\ UNCHANGED <<disk, want, rd, overlap>> /\ loop = "woken" /\ loop' \in {"sleeping", "ready"}
        /\ ft' = [ft EXCEPT !.hasNew = FALSE]
    BY <1>12 DEF Again
  <2>2. /\ ft' \in Tools /\ ft'.stream = ft.stream /\ ft'.path = ft.path /\ ft'.exp = ft.exp
        /\ ft'.size = ft.size /\ ft'.busy = ft.busy /\ ft'.deal = ft.deal
    BY <1>0, <2>1
  <2>. QED BY <1>0, <1>a, <2>1, <2>2
           DEF FtInv, FtTypes, LoopStates, OneFinisher, NothingLeft, Closed, OneTorso, Whole, Finishing
<1>13. CASE UNCHANGED ftVars
  BY <1>0, <1>a, <1>13
     DEF ftVars, FtInv, FtTypes, OneFinisher, NothingLeft, Closed, OneTorso, Whole
<1>. QED BY <1>1, <1>2, <1>3, <1>4, <1>5, <1>6, <1>7, <1>8, <1>9, <1>10, <1>11, <1>12, <1>13, FtAssumption
         DEF FtNext, FtTester, FtReaderNext, FtTaskNext, Sizes

\* What is left of a transfer, however it ended, is the whole file or nothing, for any files,
\* blocks and commands, unless both threads ended transfers at once.
THEOREM NeverATorso == FtSpec => []NoTorso
<1>1. FtInv => NoTorso
  BY DEF FtInv, NoTorso, NothingLeft, OneTorso, Whole
<1>. QED BY <1>1, FtInvInit, FtInvStep, PTL DEF FtSpec

\* The types of the transfer with their bounds need three more facts.  What is counted stays
\* below what is expected until the last block, and no file holds more than was counted;
FtBounded ==
  /\ disk \in [Files -> Sizes \cup {Absent}]
  /\ ft.seq <= ft.size + 1
  /\ ft.deal = "GET" => ft.exp > 0
  /\ rd.at \notin Finishing => ft.size = 0 \/ ft.size < ft.exp
  /\ ft.deal = "SAVE" /\ ft.stream # NoFile => disk[ft.stream] <= ft.size

\* a free tool has counted nothing, and is idle unless it was freed during a start;
FtBetween ==
  /\ ~ft.busy => ft.size = 0 /\ ft.seq = 1
  /\ ~ft.busy /\ ft.deal # "IDLE" => loop \in {"woken", "ready"}
  /\ ~ft.busy /\ ft.stream = NoFile /\ rd.at = "idle" => ft.deal = "IDLE"

\* and a start finds an idle tool, and the file it is to read is still there.
FtStarting ==
  rd.at \in {"busySet", "posted"} =>
    /\ ft.size = 0 /\ ft.seq = 1 /\ ft.deal = "IDLE"
    /\ ~ft.busy => loop \in {"woken", "ready"}
    /\ rd.file \in Files /\ rd.kind \in {"save", "get"}
    /\ rd.kind = "get" => disk[rd.file] # Absent

FtShape == FtTypeOK /\ FtBounded /\ FtBetween /\ FtStarting

FtTools == [stream : Files \cup {NoFile}, path : Files \cup {NoFile}, exp : Sizes,
            size : 0..(MaxBlocks + 1), seq : 1..(MaxBlocks + 1), busy : BOOLEAN,
            hasNew : BOOLEAN, deal : {"IDLE", "SAVE", "GET"}]

LEMMA FtBounds ==
  /\ MaxBlocks \in Nat /\ MaxBlocks > 0 /\ FtMbox \in Nat /\ FtMbox > 0
  /\ MaxCommands \in Nat /\ NoFile \notin Files
  /\ Sizes = 0..MaxBlocks /\ 0 \in Sizes /\ Absent = -1 /\ Absent \notin Sizes
BY FtAssumption DEF Sizes, Absent, NoFile

LEMMA IdleToolTyped == IdleTool \in FtTools /\ ReaderIdle \in Readers
<1>1. IdleTool \in FtTools
  BY FtBounds DEF FtTools, IdleTool
<1>2. ReaderIdle \in Readers
  BY FtBounds DEF ReaderIdle, ReaderStates, Kinds
<1>. QED BY <1>1, <1>2

LEMMA FtShapeInit == FtInit => FtShape
<1>. SUFFICES ASSUME FtInit PROVE FtShape
  OBVIOUS
<1>1. /\ disk \in [Files -> Sizes \cup {Absent, MaxBlocks + 1}]
      /\ want \in [Files -> Sizes \cup {Absent}]
  BY FtBounds DEF FtInit
<1>3. loop \in LoopStates /\ overlap \in BOOLEAN
  BY DEF FtInit, LoopStates
<1>5. ftBox \in 0..FtMbox /\ commands \in 0..MaxCommands
  BY FtBounds DEF FtInit
<1>4. ft \in FtTools /\ rd \in Readers
  BY IdleToolTyped DEF FtInit
<1>2. FtTypeOK
  BY <1>1, <1>3, <1>4, <1>5 DEF FtTypeOK, FtTools
<1>. QED BY <1>2, FtBounds DEF FtShape, FtInit, FtBounded, FtBetween, FtStarting, IdleTool,
     ReaderIdle, Finishing, Sizes

\* Ending a transfer, in either thread.
LEMMA FtShapeFinish ==
  ASSUME FtShape, NEW from, NEW to, NEW end, FinishStep(from, to, end), end \notin Finishing
  PROVE  /\ ft' \in FtTools /\ disk' \in [Files -> Sizes \cup {Absent}]
         /\ ft'.seq <= ft'.size + 1
         /\ ft'.deal = "GET" => ft'.exp > 0
         /\ rd.at \notin Finishing => ft'.size = 0 \/ ft'.size < ft'.exp
         /\ ft'.deal = "SAVE" /\ ft'.stream # NoFile => disk'[ft'.stream] <= ft'.size
         /\ ~ft'.busy => ft'.size = 0 /\ ft'.seq = 1
         /\ ft.busy /\ ~ft'.busy => from = "resetting"
         /\ ft'.deal \in {"IDLE", ft.deal}
         /\ ~ft'.busy /\ from = "resetting" => ft'.deal = "IDLE"
         /\ ft.size = 0 => ft'.size = 0
         /\ ft.seq = 1 => ft'.seq = 1
         /\ ft.deal = "IDLE" => disk' = disk
         /\ ~ft.busy => ~ft'.busy
         /\ from = "resetting" <=> to = end
<1>0. ft \in FtTools /\ disk \in [Files -> Sizes \cup {Absent}]
  BY DEF FtShape, FtTypeOK, FtBounded, FtTools
<1>1. CASE from = "closing" /\ to = "removing" /\ CloseStream
  <2>1. ft' = [ft EXCEPT !.stream = NoFile] /\ disk' = disk
    BY <1>1 DEF CloseStream
  <2>2. ft' \in FtTools
    BY <1>0, <2>1 DEF FtTools
  <2>. QED BY <1>0, <1>1, <2>1, <2>2 DEF FtShape, FtBounded, FtBetween, FtTools, Finishing
<1>2. CASE from = "removing" /\ to = "resetting" /\ RemoveTorso
  <2>1. ft' = ft
    BY <1>2 DEF RemoveTorso
  <2>2. disk' = disk \/ (ft.deal = "SAVE" /\ ft.path \in Files /\ disk' = Remove(ft.path))
    BY <1>0, <1>2 DEF RemoveTorso, Torso, FtTools
  <2>3. disk' \in [Files -> Sizes \cup {Absent}]
        /\ \A f \in Files : disk'[f] = disk[f] \/ disk'[f] = Absent
    BY <1>0, <2>2 DEF Remove
  <2>4. ft.deal = "SAVE" /\ ft.stream # NoFile => disk'[ft.stream] <= ft.size
    BY <1>0, <2>3, FtBounds DEF FtShape, FtBounded, FtTools
  <2>. QED BY <1>0, <1>2, <2>1, <2>2, <2>3, <2>4 DEF FtShape, FtBounded, FtBetween, Finishing
<1>3. CASE from = "resetting" /\ to = end /\ ResetTool
  <2>1. ft' = Reset /\ disk' = disk
    BY <1>3 DEF ResetTool
  <2>2. ft' \in FtTools
    BY <1>0, <2>1, IdleToolTyped DEF FtTools, Reset
  <2>3. ft'.size = 0 /\ ft'.seq = 1 /\ ft'.deal = "IDLE" /\ ~ft'.busy
    BY <2>1 DEF Reset, IdleTool
  <2>. QED BY <1>0, <1>3, <2>1, <2>2, <2>3
<1>. QED BY <1>1, <1>2, <1>3 DEF FinishStep

\* A step that leaves the transfer and the disk as they are, and ends no start.
LEMMA FtShapeAside ==
  ASSUME FtShape, UNCHANGED <<ft, disk, want>>, rd' \in Readers, loop' \in LoopStates,
         ftBox' \in 0..FtMbox, overlap' \in BOOLEAN, commands' \in 0..MaxCommands,
         rd.at \in Finishing => rd'.at \in Finishing,
         rd'.at = "idle" => rd.at \in {"idle", "busySet", "posted"},
         loop \in {"woken", "ready"} /\ ~ft.busy => loop' \in {"woken", "ready"},
         rd'.at \in {"busySet", "posted"} =>
           rd.at \in {"busySet", "posted"} /\ rd'.file = rd.file /\ rd'.kind = rd.kind
  PROVE  FtShape'
<1>1. FtTypeOK'
  BY DEF FtShape, FtTypeOK
<1>2. FtBounded' /\ FtBetween'
  BY DEF FtShape, FtBounded, FtBetween, FtStarting
<1>3. FtStarting'
  BY DEF FtShape, FtStarting
<1>. QED BY <1>1, <1>2, <1>3 DEF FtShape

LEMMA FtShapeBegin ==
  ASSUME FtTypeOK, Begin
  PROVE  rd.at = "idle" /\ commands' \in 0..MaxCommands
BY FtBounds DEF FtTypeOK, Begin

LEMMA FtShapeReader ==
  ASSUME FtShape, FtReaderNext
  PROVE  FtShape'
<1>0. ft \in FtTools /\ disk \in [Files -> Sizes \cup {Absent}] /\ rd \in Readers
      /\ want \in [Files -> Sizes \cup {Absent}]
      /\ loop \in LoopStates /\ ftBox \in 0..FtMbox /\ overlap \in BOOLEAN
      /\ commands \in 0..MaxCommands
  BY DEF FtShape, FtTypeOK, FtBounded, FtTools
<1>1. CASE PostTimer
  <2>1. ftBox' \in 0..FtMbox
    BY <1>0, <1>1, FtBounds DEF PostTimer
  <2>2. rd' = ReaderIdle \/ rd' = [rd EXCEPT !.at = "posted"]
    BY <1>1 DEF PostTimer
  <2>3. rd' \in Readers
    BY <1>0, <2>2, IdleToolTyped DEF ReaderStates
  <2>4. rd'.at \in {"busySet", "posted"} => rd'.file = rd.file /\ rd'.kind = rd.kind
    BY <1>0, <2>2 DEF ReaderIdle
  <2>. QED BY <1>0, <1>1, <2>1, <2>3, <2>4, FtShapeAside DEF PostTimer, Finishing
<1>2. CASE Open
  <2>. DEFINE f == rd.file
              n == IF rd.kind = "save" THEN rd.size ELSE disk[f]
              named == IF rd.kind = "get" /\ n = 0 THEN [ft EXCEPT !.exp = 0]
                       ELSE [ft EXCEPT !.exp = n, !.path = f]
              opened == [named EXCEPT !.stream = f,
                                      !.deal = IF rd.kind = "save" THEN "SAVE" ELSE "GET"]
  <2>0. /\ rd.at = "posted" /\ f \in Files /\ rd.kind \in {"save", "get"} /\ n \in Sizes
        /\ ft.size = 0 /\ ft.seq = 1 /\ ft.deal = "IDLE"
        /\ ~ft.busy => loop \in {"woken", "ready"}
    BY <1>0, <1>2 DEF Open, FtShape, FtStarting
  <2>1. named \in FtTools /\ named.size = 0 /\ named.seq = 1 /\ named.deal = "IDLE"
        /\ named.busy = ft.busy /\ (n > 0 => named.exp = n)
    BY <1>0, <2>0, FtBounds DEF FtTools
  <2>2. opened \in FtTools /\ opened.size = 0 /\ opened.seq = 1 /\ opened.busy = ft.busy
        /\ opened.exp = named.exp /\ opened.stream = f
        /\ opened.deal = IF rd.kind = "save" THEN "SAVE" ELSE "GET"
    <3>. HIDE DEF named, f
    <3>. QED BY <2>0, <2>1 DEF FtTools
  <2>3. \/ /\ rd.kind = "save" \/ n > 0
           /\ ft' = opened
           /\ disk' = IF rd.kind = "save" THEN [disk EXCEPT ![f] = 0] ELSE disk
           /\ want' = IF rd.kind = "save" THEN [want EXCEPT ![f] = rd.size] ELSE want
        \/ ft' = named /\ UNCHANGED <<disk, want>>
    BY <1>2 DEF Open
  <2>4. rd' = ReaderIdle /\ loop' = loop /\ ftBox' = ftBox /\ commands' = commands
        /\ overlap' \in BOOLEAN
    BY <1>0, <1>2 DEF Open
  <2>5. rd' \in Readers /\ rd'.at = "idle"
    BY <2>4, IdleToolTyped DEF ReaderIdle
  <2>6. disk' \in [Files -> Sizes \cup {Absent}] /\ want' \in [Files -> Sizes \cup {Absent}]
    <3>1. rd.size \in Sizes
      BY <1>0
    <3>. HIDE DEF named, opened, n
    <3>. QED BY <1>0, <2>0, <2>3, <3>1, FtBounds
  <2>7. ft' \in FtTools /\ ft'.size = 0 /\ ft'.seq = 1 /\ ft'.busy = ft.busy
        /\ (ft'.deal = "GET" => ft'.exp > 0)
        /\ (ft'.deal = "SAVE" /\ ft'.stream # NoFile => disk'[ft'.stream] = 0)
        /\ (~ft'.busy /\ ft'.stream = NoFile => ft'.deal = "IDLE")
    <3>1. CASE ft' = named
      <4>. HIDE DEF named, opened, n
      <4>. QED BY <2>1, <3>1
    <3>2. CASE /\ rd.kind = "save" \/ n > 0
               /\ ft' = opened
               /\ disk' = IF rd.kind = "save" THEN [disk EXCEPT ![f] = 0] ELSE disk
      <4>. HIDE DEF named, opened, n
      <4>1. rd.kind = "save" => disk'[f] = 0
        BY <1>0, <2>0, <3>2
      <4>. QED BY <2>0, <2>1, <2>2, <3>2, <4>1, FtBounds
    <3>. HIDE DEF named, opened, n
    <3>. QED BY <2>3, <3>1, <3>2
  <2>. HIDE DEF named, opened, n, f
  <2>8. FtTypeOK'
    BY <1>0, <2>4, <2>5, <2>6, <2>7 DEF FtTypeOK, FtTools
  <2>9. FtBounded' /\ FtBetween' /\ FtStarting'
    BY <2>0, <2>4, <2>5, <2>6, <2>7 DEF FtBounded, FtBetween, FtStarting
  <2>. QED BY <2>8, <2>9 DEF FtShape
<1>3. CASE ReaderFinish
  <2>1. PICK to \in {"removing", "resetting", "idle"} :
          FinishStep(rd.at, to, "idle")
          /\ rd' = IF to = "idle" THEN ReaderIdle ELSE [rd EXCEPT !.at = to]
    BY <1>3 DEF ReaderFinish
  <2>2. rd.at \in Finishing /\ UNCHANGED <<want, loop, ftBox, overlap, commands>>
    BY <1>3 DEF ReaderFinish
  <2>3. rd' \in Readers /\ (rd'.at = "idle" \/ rd'.at \in Finishing)
        /\ (rd'.at = "idle" => to = "idle")
    BY <1>0, <2>1, IdleToolTyped DEF ReaderIdle, ReaderStates, Finishing
  <2>4. /\ ft' \in FtTools /\ disk' \in [Files -> Sizes \cup {Absent}]
        /\ ft'.seq <= ft'.size + 1
        /\ ft'.deal = "GET" => ft'.exp > 0
        /\ ft'.deal = "SAVE" /\ ft'.stream # NoFile => disk'[ft'.stream] <= ft'.size
        /\ ~ft'.busy => ft'.size = 0 /\ ft'.seq = 1
        /\ ft'.deal \in {"IDLE", ft.deal}
        /\ ft.busy /\ ~ft'.busy => rd.at = "resetting"
        /\ rd.at = "resetting" <=> to = "idle"
        /\ ~ft'.busy /\ rd.at = "resetting" => ft'.deal = "IDLE"
    BY <2>1, FtShapeFinish DEF Finishing
  <2>5. FtTypeOK'
    BY <1>0, <2>2, <2>3, <2>4 DEF FtTypeOK, FtTools
  <2>6. rd.at = "resetting" => ft' = Reset
    BY <2>1 DEF FinishStep, ResetTool
  <2>7. rd.at = "resetting" => ft'.size = 0 /\ ~ft'.busy /\ ft'.deal = "IDLE"
    BY <2>6 DEF Reset, IdleTool
  <2>8. FtBounded'
    BY <2>3, <2>4, <2>7 DEF FtBounded
  <2>9. FtBetween'
    BY <2>2, <2>3, <2>4, <2>7 DEF FtBetween, FtShape
  <2>10. FtStarting'
    BY <2>3 DEF FtStarting, Finishing
  <2>. QED BY <2>5, <2>8, <2>9, <2>10 DEF FtShape
<1>. QED BY <1>1, <1>2, <1>3 DEF FtReaderNext, FtShape

LEMMA FtShapeTester ==
  ASSUME FtShape, FtTester
  PROVE  FtShape'
<1>0. /\ ft \in FtTools /\ disk \in [Files -> Sizes \cup {Absent}] /\ rd \in Readers
      /\ want \in [Files -> Sizes \cup {Absent}]
      /\ loop \in LoopStates /\ ftBox \in 0..FtMbox /\ overlap \in BOOLEAN
      /\ commands \in 0..MaxCommands
      /\ FtTypeOK
  BY DEF FtShape, FtTypeOK, FtBounded, FtTools
<1>1. ASSUME NEW kind \in {"save", "get"}, NEW f \in Files, NEW n \in Sizes,
             StartTransfer(kind, f, n)
      PROVE  FtShape'
  <2>1. ft' = [ft EXCEPT !.busy = TRUE] /\ ~ft.busy /\ ft.stream = NoFile
        /\ rd' = [ReaderIdle EXCEPT !.at = "busySet", !.kind = kind, !.file = f, !.size = n]
        /\ overlap' \in BOOLEAN /\ UNCHANGED <<disk, want, loop, ftBox>>
        /\ (kind = "get" => disk[f] # Absent)
    BY <1>1 DEF StartTransfer, CanStart
  <2>2. rd.at = "idle" /\ commands' \in 0..MaxCommands
    BY <1>0, <1>1, FtShapeBegin DEF StartTransfer
  <2>3. ft' \in FtTools /\ ft'.busy /\ ft'.stream = NoFile /\ ft'.size = ft.size
        /\ ft'.seq = ft.seq /\ ft'.deal = ft.deal
    BY <1>0, <2>1 DEF FtTools
  <2>4. rd' \in Readers /\ rd'.at = "busySet" /\ rd'.kind = kind /\ rd'.file = f
    BY <2>1, FtBounds DEF ReaderIdle, ReaderStates, Kinds
  <2>5. ft.size = 0 /\ ft.seq = 1 /\ ft.deal = "IDLE"
    BY <2>1, <2>2 DEF FtShape, FtBetween
  <2>6. FtTypeOK'
    BY <1>0, <2>1, <2>2, <2>3, <2>4 DEF FtTypeOK, FtTools
  <2>7. FtBounded' /\ FtBetween' /\ FtStarting'
    BY <1>0, <2>1, <2>3, <2>4, <2>5 DEF FtBounded, FtBetween, FtStarting
  <2>. QED BY <2>6, <2>7 DEF FtShape
<1>2. ASSUME NEW sq \in 1..(MaxBlocks + 1), AddData(sq) PROVE FtShape'
  <2>. DEFINE size == ft.size + 1
              s == ft.stream
              closing == [ReaderIdle EXCEPT !.at = "closing", !.kind = "block"]
  <2>1. ft.stream # NoFile /\ ft.busy /\ ft.deal = "SAVE" /\ UNCHANGED <<want, loop, ftBox>>
    BY <1>2 DEF AddData
  <2>2. rd.at = "idle" /\ commands' \in 0..MaxCommands
    BY <1>0, <1>2, FtShapeBegin DEF AddData
  <2>3. CASE UNCHANGED <<ft, disk, rd, overlap>>
    BY <1>0, <2>1, <2>2, <2>3, FtShapeAside
  <2>4. CASE
          /\ ft' = [ft EXCEPT !.hasNew = TRUE, !.size = size,
                              !.seq = IF size < ft.exp THEN @ + 1 ELSE @]
          /\ disk' = IF size > ft.exp /\ ft.path # NoFile THEN Remove(ft.path)
                     ELSE IF disk[s] = Absent THEN disk ELSE [disk EXCEPT ![s] = @ + 1]
          /\ rd' = IF size < ft.exp THEN rd ELSE closing
          /\ overlap' = (overlap \/ (size >= ft.exp /\ loop \in Finishing))
    <3>1. /\ ft.size \in Nat /\ ft.exp \in 0..MaxBlocks /\ ft.seq \in Nat /\ ft.seq >= 1
          /\ s \in Files /\ disk[s] \in (0..MaxBlocks) \cup {-1}
          /\ ft.size = 0 \/ ft.size < ft.exp
          /\ ft.seq <= ft.size + 1 /\ disk[s] <= ft.size
      BY <1>0, <2>1, <2>2, FtBounds DEF FtTools, FtShape, FtBounded, Finishing
    <3>2. size \in 0..MaxBlocks /\ size = ft.size + 1
      BY <3>1, FtBounds
    <3>3. (IF size < ft.exp THEN ft.seq + 1 ELSE ft.seq) \in 1..(MaxBlocks + 1)
          /\ (IF size < ft.exp THEN ft.seq + 1 ELSE ft.seq) <= size + 1
      BY <3>1, <3>2, FtBounds
    <3>. HIDE DEF size
    <3>4. ft' \in FtTools /\ ft'.size = size /\ ft'.exp = ft.exp /\ ft'.stream = s
          /\ ft'.busy /\ ft'.deal = "SAVE" /\ ft'.seq <= size + 1
      <4>. DEFINE sn == IF size < ft.exp THEN ft.seq + 1 ELSE ft.seq
      <4>1. sn \in 1..(MaxBlocks + 1) /\ sn <= size + 1 /\ size \in 0..(MaxBlocks + 1)
        BY <3>2, <3>3, FtBounds
      <4>2. ft' = [ft EXCEPT !.hasNew = TRUE, !.size = size, !.seq = sn]
        BY <2>4
      <4>. HIDE DEF sn
      <4>. QED BY <1>0, <2>1, <4>1, <4>2 DEF FtTools
    <3>5. disk' \in [Files -> Sizes \cup {Absent}] /\ disk'[s] <= size
      <4>1. CASE size > ft.exp /\ ft.path # NoFile
        <5>1. disk' = [disk EXCEPT ![ft.path] = Absent] /\ ft.path \in Files
          BY <1>0, <2>4, <4>1 DEF Remove, FtTools
        <5>2. disk' \in [Files -> Sizes \cup {Absent}]
              /\ (disk'[s] = disk[s] \/ disk'[s] = Absent)
          BY <1>0, <3>1, <5>1
        <5>. QED BY <3>1, <3>2, <5>2, FtBounds
      <4>2. CASE disk' = disk
        BY <1>0, <3>1, <3>2, <4>2
      <4>3. CASE disk[s] # Absent /\ disk' = [disk EXCEPT ![s] = @ + 1]
        <5>1. disk[s] + 1 \in Sizes /\ disk[s] + 1 <= size
          BY <3>1, <3>2, <4>3, FtBounds
        <5>2. disk' = [disk EXCEPT ![s] = disk[s] + 1]
          BY <4>3
        <5>. QED BY <1>0, <3>1, <5>1, <5>2
      <4>. QED BY <2>4, <4>1, <4>2, <4>3
    <3>6. rd' \in Readers /\ (rd'.at = "idle" => size < ft.exp)
          /\ (rd'.at = "idle" \/ rd'.at = "closing")
      BY <1>0, <2>2, <2>4, FtBounds DEF ReaderIdle, ReaderStates, Kinds
    <3>7. overlap' \in BOOLEAN
      BY <2>4
    <3>8. FtTypeOK'
      BY <1>0, <2>1, <2>2, <3>4, <3>5, <3>6, <3>7 DEF FtTypeOK, FtTools
    <3>9. FtBounded' /\ FtBetween' /\ FtStarting'
      BY <3>4, <3>5, <3>6 DEF FtBounded, FtBetween, FtStarting, Finishing
    <3>. QED BY <3>8, <3>9 DEF FtShape
  <2>. QED BY <1>2, <2>3, <2>4 DEF AddData
<1>3. ASSUME NEW sq \in 1..(MaxBlocks + 1), ReadData(sq) PROVE FtShape'
  <2>. DEFINE size == ft.size + 1
              s == ft.stream
              over == disk[s] < size \/ size = ft.exp
  <2>1. /\ s # NoFile /\ ft.busy /\ ft.deal = "GET" /\ UNCHANGED <<disk, want, loop, ftBox>>
        /\ ft' = IF disk[s] < size THEN ft
                 ELSE [ft EXCEPT !.hasNew = TRUE, !.size = size, !.seq = @ + 1]
        /\ rd' = IF over THEN [ReaderIdle EXCEPT !.at = "closing", !.kind = "block"] ELSE rd
        /\ overlap' \in BOOLEAN
    BY <1>3 DEF ReadData
  <2>2. rd.at = "idle" /\ commands' \in 0..MaxCommands
    BY <1>0, <1>3, FtShapeBegin DEF ReadData
  <2>3. /\ ft.size \in Nat /\ ft.exp \in 0..MaxBlocks /\ ft.seq \in Nat /\ ft.seq >= 1
        /\ s \in Files /\ disk[s] \in (0..MaxBlocks) \cup {-1}
        /\ ft.size = 0 \/ ft.size < ft.exp
        /\ ft.seq <= ft.size + 1 /\ ft.exp > 0
    BY <1>0, <2>1, <2>2, FtBounds DEF FtTools, FtShape, FtBounded, Finishing
  <2>4. size = ft.size + 1 /\ size \in Nat
        /\ (~(disk[s] < size) => size \in 0..MaxBlocks /\ ft.seq + 1 \in 1..(MaxBlocks + 1))
        /\ (~over => size < ft.exp)
    <3>1. size = ft.size + 1 /\ size \in Nat /\ (size # ft.exp => size < ft.exp)
      BY <2>3
    <3>2. ASSUME ~(disk[s] < size) PROVE size \in 0..MaxBlocks /\ ft.seq + 1 \in 1..(MaxBlocks + 1)
      <4>1. size <= MaxBlocks
        BY <2>3, <3>1, <3>2, FtBounds
      <4>2. ft.seq <= size
        BY <2>3
      <4>. HIDE DEF size
      <4>. QED BY <2>3, <3>1, <4>1, <4>2, FtBounds
    <3>. QED BY <3>1, <3>2
  <2>5. rd' \in Readers /\ (rd'.at = "idle" => ~over)
        /\ (rd'.at = "idle" \/ rd'.at = "closing")
    <3>. HIDE DEF over
    <3>. QED BY <1>0, <2>1, <2>2, FtBounds DEF ReaderIdle, ReaderStates, Kinds
  <2>. HIDE DEF size
  <2>6. /\ ft' \in FtTools /\ ft'.exp = ft.exp /\ ft'.stream = s /\ ft'.busy /\ ft'.deal = "GET"
        /\ ft'.seq <= ft'.size + 1
        /\ (ft'.size = size \/ disk[s] < size)
    <3>1. CASE disk[s] < size
      BY <1>0, <2>1, <2>3, <3>1
    <3>2. CASE ~(disk[s] < size)
      <4>. DEFINE sn == ft.seq + 1
      <4>1. sn \in 1..(MaxBlocks + 1) /\ sn <= size + 1 /\ size \in 0..(MaxBlocks + 1)
        BY <2>3, <2>4, <3>2, FtBounds
      <4>2. ft' = [ft EXCEPT !.hasNew = TRUE, !.size = size, !.seq = sn]
        BY <2>1, <3>2
      <4>. HIDE DEF sn
      <4>. QED BY <1>0, <2>1, <4>1, <4>2 DEF FtTools
    <3>. QED BY <3>1, <3>2
  <2>7. rd'.at = "idle" => ft'.size < ft'.exp
    BY <2>4, <2>5, <2>6
  <2>8. FtTypeOK'
    BY <1>0, <2>1, <2>2, <2>5, <2>6 DEF FtTypeOK, FtTools
  <2>9. FtBounded' /\ FtBetween' /\ FtStarting'
    BY <1>0, <2>1, <2>3, <2>5, <2>6, <2>7 DEF FtBounded, FtBetween, FtStarting, Finishing
  <2>. QED BY <2>8, <2>9 DEF FtShape
<1>4. CASE Exit
  <2>1. rd' = [ReaderIdle EXCEPT !.at = "closing"] /\ overlap' \in BOOLEAN
        /\ UNCHANGED <<ft, disk, want, loop, ftBox>>
    BY <1>4 DEF Exit
  <2>2. rd' \in Readers /\ rd'.at = "closing"
    BY <2>1, FtBounds DEF ReaderIdle, ReaderStates, Kinds
  <2>3. rd.at = "idle" /\ commands' \in 0..MaxCommands
    BY <1>0, <1>4, FtShapeBegin DEF Exit
  <2>. QED BY <1>0, <2>1, <2>2, <2>3, FtShapeAside DEF Finishing
<1>5. ASSUME NEW f \in Files, DeleteFile(f) PROVE FtShape'
  <2>1. disk' = Remove(f) /\ UNCHANGED <<ft, rd, want, loop, ftBox, overlap>>
    BY <1>5 DEF DeleteFile
  <2>2. rd.at = "idle" /\ commands' \in 0..MaxCommands
    BY <1>0, <1>5, FtShapeBegin DEF DeleteFile
  <2>3. disk' \in [Files -> Sizes \cup {Absent}]
        /\ \A g \in Files : disk'[g] = disk[g] \/ disk'[g] = Absent
    BY <1>0, <2>1 DEF Remove
  <2>4. ft.deal = "SAVE" /\ ft.stream # NoFile => disk'[ft.stream] <= ft.size
    BY <1>0, <2>3, FtBounds DEF FtShape, FtBounded, FtTools
  <2>5. FtTypeOK'
    BY <1>0, <2>1, <2>2, <2>3 DEF FtTypeOK
  <2>6. FtBounded' /\ FtBetween' /\ FtStarting'
    BY <2>1, <2>2, <2>3, <2>4 DEF FtShape, FtBounded, FtBetween, FtStarting
  <2>. QED BY <2>5, <2>6 DEF FtShape
<1>. QED BY <1>1, <1>2, <1>3, <1>4, <1>5, FtBounds DEF FtTester

LEMMA FtShapeTask ==
  ASSUME FtShape, FtTaskNext
  PROVE  FtShape'
<1>0. /\ ft \in FtTools /\ disk \in [Files -> Sizes \cup {Absent}] /\ rd \in Readers
      /\ want \in [Files -> Sizes \cup {Absent}]
      /\ loop \in LoopStates /\ ftBox \in 0..FtMbox /\ overlap \in BOOLEAN
      /\ commands \in 0..MaxCommands
  BY DEF FtShape, FtTypeOK, FtBounded, FtTools
<1>1. CASE TakeTimer
  <2>1. ftBox' \in 0..FtMbox /\ loop' \in LoopStates /\ (~ft.busy => loop' = "ready")
    BY <1>0, <1>1, FtBounds DEF TakeTimer, LoopStates
  <2>. QED BY <1>0, <1>1, <2>1, FtShapeAside DEF TakeTimer
<1>2. CASE Wake
  <2>1. loop = "sleeping" /\ loop' \in LoopStates /\ overlap' \in BOOLEAN
        /\ UNCHANGED <<ft, disk, want, rd, ftBox, commands>>
    BY <1>0, <1>2 DEF Wake, LoopStates
  <2>. QED BY <1>0, <2>1, FtShapeAside
<1>3. CASE LoopFinish
  <2>1. PICK to \in {"removing", "resetting", "woken"} :
          FinishStep(loop, to, "woken") /\ loop' = to
    BY <1>3 DEF LoopFinish
  <2>2. loop \in Finishing /\ UNCHANGED <<want, rd, ftBox, overlap, commands>>
    BY <1>3 DEF LoopFinish
  <2>3. loop' \in LoopStates /\ loop' = to
    BY <2>1 DEF LoopStates
  <2>4. /\ ft' \in FtTools /\ disk' \in [Files -> Sizes \cup {Absent}]
        /\ ft'.seq <= ft'.size + 1
        /\ ft'.deal = "GET" => ft'.exp > 0
        /\ rd.at \notin Finishing => ft'.size = 0 \/ ft'.size < ft'.exp
        /\ ft'.deal = "SAVE" /\ ft'.stream # NoFile => disk'[ft'.stream] <= ft'.size
        /\ ~ft'.busy => ft'.size = 0 /\ ft'.seq = 1
        /\ ft.busy /\ ~ft'.busy => loop = "resetting"
        /\ ft'.deal \in {"IDLE", ft.deal}
        /\ ~ft'.busy /\ loop = "resetting" => ft'.deal = "IDLE"
        /\ ft.size = 0 => ft'.size = 0
        /\ ft.seq = 1 => ft'.seq = 1
        /\ ft.deal = "IDLE" => disk' = disk
        /\ loop = "resetting" <=> to = "woken"
    BY <2>1, FtShapeFinish DEF Finishing
  <2>5. ~ft.busy => ft.deal = "IDLE"
    BY <2>2 DEF FtShape, FtBetween, Finishing
  <2>6. FtTypeOK'
    BY <1>0, <2>2, <2>3, <2>4 DEF FtTypeOK, FtTools
  <2>7. FtBounded'
    BY <2>2, <2>4 DEF FtBounded
  <2>8. FtBetween'
    BY <2>2, <2>3, <2>4, <2>5 DEF FtBetween
  <2>9. FtStarting'
    BY <2>2, <2>3, <2>4 DEF FtStarting, FtShape, Finishing
  <2>. QED BY <2>6, <2>7, <2>8, <2>9 DEF FtShape
<1>4. CASE Again
  <2>1. ft' = [ft EXCEPT !.hasNew = FALSE]
    BY <1>4 DEF Again
  <2>2. ft' \in FtTools /\ ft'.size = ft.size /\ ft'.seq = ft.seq /\ ft'.deal = ft.deal
        /\ ft'.busy = ft.busy /\ ft'.stream = ft.stream /\ ft'.exp = ft.exp
    BY <1>0, <2>1 DEF FtTools
  <2>3. loop' \in LoopStates /\ (~ft.busy => loop' = "ready")
        /\ UNCHANGED <<disk, want, rd, ftBox, overlap, commands>>
    BY <1>4 DEF Again, LoopStates
  <2>4. FtTypeOK'
    BY <1>0, <2>2, <2>3 DEF FtTypeOK, FtTools
  <2>5. FtBounded' /\ FtBetween' /\ FtStarting'
    BY <2>2, <2>3 DEF FtShape, FtBounded, FtBetween, FtStarting
  <2>. QED BY <2>4, <2>5 DEF FtShape
<1>. QED BY <1>1, <1>2, <1>3, <1>4 DEF FtTaskNext

LEMMA FtShapeStep == FtShape /\ [FtNext]_ftVars => FtShape'
<1>1. ASSUME FtShape, UNCHANGED ftVars PROVE FtShape'
  BY <1>1 DEF ftVars, FtShape, FtTypeOK, FtBounded, FtBetween, FtStarting
<1>. QED BY <1>1, FtShapeTester, FtShapeReader, FtShapeTask DEF FtNext

\* Every value of the transfer has its type.
THEOREM FtTypeCorrect == FtSpec => []FtTypeOK
<1>1. FtShape => FtTypeOK
  BY DEF FtShape
<1>. QED BY <1>1, FtShapeInit, FtShapeStep, PTL DEF FtSpec

----------------------------------------------------------------------------
(***************************************************************************)
(* IsoTp.tla.  On the bus towards the unit a consecutive frame follows the *)
(* one before it without a gap, since only the frame at the head is ever   *)
(* lost; the same towards the tester until a response was overwritten,     *)
(* since while one waits for a flow control nothing else is sent.  So the  *)
(* number of a frame tells which piece it is.                              *)
(***************************************************************************)

Tags == {"SF", "FF", "CF", "FC", "none"}
Frames == [t : Tags, m : 0..MaxExchanges, i : Nat, n : Nat]

\* The types, also of what travels; what waits for a flow control is a response that is not
\* over, unless it was overwritten; who receives has sent the request, and has not all pieces.
TpTypes ==
  /\ TpTypeOK
  /\ toUnit \in Seq(Frames) /\ toTester \in Seq(Frames)
  /\ \A p \in 1..Len(toTester) : toTester[p].t = "FF" => toTester[p].i = 0 /\ toTester[p].n > 1
  /\ tx.waitFC => tx.frame = tx.sent /\ tx.sent \in Nat \ {0} /\ tx.len \in Nat \ {0}
  /\ tx.waitFC /\ ~overwritten => tx.sent < tx.len
  /\ Len(tester.got) > 0 /\ tester.busy => RequestSent /\ Len(tester.got) < tester.want

\* Towards the unit: a consecutive frame follows the one before it without a gap; at the head
\* of the bus, as many frames may be missing as were lost.

Continues(r, lost, m, i) ==
  r.waiting => r.pieces[1].m = m /\ i \in r.frame..(r.frame + lost)
Follows(s, r, lost, p, m, i) ==
  IF p = 1 THEN Continues(r, lost, m, i)
  ELSE s[p-1].t \in {"FF", "CF"} /\ s[p-1].m = m /\ s[p-1].i + 1 = i
FollowsNow(p, m, i) == Follows(toUnit, rx, losses, p, m, i)

RequestInv ==
  /\ \A p \in 1..Len(toUnit) :
       /\ toUnit[p].t = "FF" => toUnit[p].i = 0
       /\ toUnit[p].t = "CF" => /\ toUnit[p].n = toUnit[p].i % SnLimit
                                /\ FollowsNow(p, toUnit[p].m, toUnit[p].i)
  /\ tester.busy /\ ~RequestSent => FollowsNow(Len(toUnit) + 1, tester.m, tester.next)
  /\ rx.waiting => Len(rx.pieces) = rx.frame /\ rx.frame > 0 
  /\ InOrder(rx.pieces) /\ InOrder(served)

\* Towards the tester: frames a to b are consecutive frames.
Consecutive == {"CF", "none"}
Run(s, a, b) == \A q \in a..b : s[q].t \in Consecutive

\* The frame that should carry piece i of response m, which has n pieces.
PieceOf(m, n, i) == Numbered(IF i < n THEN m ELSE 0, i, i)

\* What follows a first frame without a gap are the pieces of its response.
Stream(s) ==
  /\ \A a, p \in 1..Len(s) :
       a < p /\ s[a].t = "FF" /\ Run(s, a + 1, p) => s[p] = PieceOf(s[a].m, s[a].n, p - a)
  /\ \A p \in 2..Len(s) :
       s[p].t \in Consecutive => s[p - 1].t \in Consecutive \cup {"FF"}

\* A response that waits for a flow control is the last one that was begun.
Awaited(s, x) ==
  x.waitFC => \A p \in 1..Len(s) :
    s[p].t \notin Consecutive /\ Run(s, p + 1, Len(s)) =>
      s[p] = FF(x.m, x.len) /\ x.sent = Len(s) - p + 1

\* What the tester y receives goes on with the frames at the head, d of them lost.
Received(s, x, y, d) ==
  /\ \A p \in 1..Len(s) : Run(s, 1, p) =>
       s[p] = PieceOf(y.got[1].m, y.want, Len(y.got) + d + p - 1)
  /\ x.waitFC /\ Run(s, 1, Len(s)) =>
       x.m = y.got[1].m /\ x.len = y.want /\ x.sent = Len(y.got) + d + Len(s)

Receives(y) == y.busy /\ Len(y.got) > 0

ResponseInv ==
  /\ Stream(toTester) /\ Awaited(toTester, tx)
  /\ Receives(tester) => \E d \in Nat : Received(toTester, tx, tester, d)
  /\ InOrder(tester.got)

TpInv == TpTypes /\ RequestInv /\ (~overwritten => ResponseInv)

----------------------------------------------------------------------------
(* Sequences and frames.                                                   *)

LEMMA TailOf ==
  ASSUME NEW S, NEW s \in Seq(S), s # <<>>
  PROVE  /\ Len(s) \in Nat \ {0} /\ Head(s) = s[1] /\ s[1] \in S
         /\ Tail(s) \in Seq(S) /\ Len(Tail(s)) = Len(s) - 1
         /\ \A p \in 1..Len(Tail(s)) : Tail(s)[p] = s[p + 1]
  OBVIOUS

LEMMA AppendOf ==
  ASSUME NEW S, NEW s \in Seq(S), NEW e \in S
  PROVE  /\ Append(s, e) \in Seq(S) /\ Len(Append(s, e)) = Len(s) + 1
         /\ \A p \in 1..Len(s) : Append(s, e)[p] = s[p]
         /\ Append(s, e)[Len(s) + 1] = e
  OBVIOUS

LEMMA FrameTypes ==
  ASSUME NEW m \in 0..MaxExchanges, NEW i \in Nat, NEW n \in Nat
  PROVE  /\ SF(m) \in Frames /\ FF(m, n) \in Frames /\ CF(m, i, n) \in Frames /\ FC(n) \in Frames
         /\ Numbered(m, i, n) \in Frames /\ Numbered(m, i, n).t \in Consecutive
         /\ SF(m).t = "SF" /\ FF(m, n).t = "FF" /\ CF(m, i, n).t = "CF" /\ FC(n).t = "FC"
<1>1. 0 \in 0..MaxExchanges /\ SnLimit \in Nat
  BY TpAssumption
<1>2. Frame("none", m, i, 0) \in Frames
  BY DEF Frame, Frames, Tags
<1>3. SF(m) \in Frames /\ FF(m, n) \in Frames /\ CF(m, i, n) \in Frames
  BY DEF Frame, Frames, Tags, SF, FF, CF
<1>4. FC(n) \in Frames
  BY <1>1 DEF Frame, Frames, Tags, FC
<1>5. CF(m, i, n).t = "CF" /\ Frame("none", m, i, 0).t = "none"
  BY DEF CF, Frame
<1>6. SF(m).t = "SF" /\ FF(m, n).t = "FF" /\ FC(n).t = "FC"
  BY DEF SF, FF, FC, Frame
<1>. QED BY <1>1, <1>2, <1>3, <1>4, <1>5, <1>6 DEF Numbered, Consecutive

----------------------------------------------------------------------------
\* Requests: what the tester does without sending.
LEMMA RequestsKept ==
  ASSUME TpTypes, RequestInv, toUnit' = toUnit, rx' = rx, served' = served,
         losses' \in Nat, losses' >= losses,
         tester'.busy /\ ~RequestSent' =>
           tester.busy /\ ~RequestSent /\ tester'.m = tester.m /\ tester'.next = tester.next
  PROVE  RequestInv'
<1>0. rx.frame \in Nat /\ losses \in Nat /\ tester.next \in Nat /\ toUnit \in Seq(Frames)
  BY TpAssumption DEF TpTypes, TpTypeOK
<1>1. ASSUME NEW p, NEW m, NEW i \in Nat, Follows(toUnit, rx, losses, p, m, i)
      PROVE  Follows(toUnit', rx', losses', p, m, i)
  <2>1. Continues(rx, losses, m, i) => Continues(rx', losses', m, i)
    BY <1>0 DEF Continues
  <2>. QED BY <1>1, <2>1 DEF Follows
<1>2. ASSUME NEW p \in 1..Len(toUnit) PROVE toUnit[p].i \in Nat
  <2>1. toUnit[p] \in Frames
    BY <1>0
  <2>. QED BY <2>1 DEF Frames
<1>3. tester'.busy /\ ~RequestSent' =>
        Follows(toUnit', rx', losses', Len(toUnit) + 1, tester.m, tester.next)
  BY <1>0, <1>1 DEF RequestInv, FollowsNow
<1>. QED BY <1>0, <1>1, <1>2, <1>3, Zenon DEF RequestInv, FollowsNow, InOrder

\* Requests: the tester sends a frame that is no consecutive one.
LEMMA RequestsBegun ==
  ASSUME TpTypes, RequestInv, NEW f \in Frames, toUnit' = Append(toUnit, f),
         f.t \in {"SF", "FF", "FC"}, f.t = "FF" => f.i = 0,
         rx' = rx, served' = served, losses' = losses,
         tester'.busy /\ ~RequestSent' => f.t = "FF" /\ tester'.m = f.m /\ tester'.next = 1
  PROVE  RequestInv'
<1>0. toUnit \in Seq(Frames) /\ Len(toUnit) \in Nat
  BY DEF TpTypes
<1>1. /\ Len(toUnit') = Len(toUnit) + 1 /\ toUnit'[Len(toUnit) + 1] = f
      /\ \A p \in 1..Len(toUnit) : toUnit'[p] = toUnit[p]
  BY <1>0, AppendOf
<1>2. ASSUME NEW p \in 1..Len(toUnit), NEW m, NEW i, Follows(toUnit, rx, losses, p, m, i)
      PROVE  Follows(toUnit', rx', losses', p, m, i)
  BY <1>0, <1>1, <1>2 DEF Follows, Continues
<1>3. \A p \in 1..Len(toUnit') :
        /\ toUnit'[p].t = "FF" => toUnit'[p].i = 0
        /\ toUnit'[p].t = "CF" => /\ toUnit'[p].n = toUnit'[p].i % SnLimit
                                  /\ FollowsNow(p, toUnit[p].m, toUnit[p].i)'
  <2>. TAKE p \in 1..Len(toUnit')
  <2>1. CASE p = Len(toUnit) + 1
    BY <1>1, <2>1
  <2>2. CASE p \in 1..Len(toUnit)
    BY <1>1, <1>2, <2>2 DEF RequestInv, FollowsNow
  <2>. QED BY <1>0, <1>1, <2>1, <2>2
<1>4. tester'.busy /\ ~RequestSent' => FollowsNow(Len(toUnit) + 1, tester.m, tester.next)'
  BY <1>0, <1>1 DEF Follows, FollowsNow
<1>. QED BY <1>3, <1>4 DEF RequestInv, FollowsNow, InOrder

\* Requests: the tester sends the next piece.
LEMMA RequestContinued ==
  ASSUME TpTypes, RequestInv, TesterContinues
  PROVE  RequestInv'
<1>0. /\ toUnit \in Seq(Frames) /\ Len(toUnit) \in Nat
      /\ tester.m \in 0..MaxExchanges /\ tester.next \in Nat /\ tester.len \in Nat
  BY DEF TpTypes, TpTypeOK
<1>. DEFINE f == CF(tester.m, tester.next, tester.next % SnLimit)
<1>1. /\ f \in Frames /\ f.t = "CF" /\ f.m = tester.m /\ f.i = tester.next
      /\ f.n = tester.next % SnLimit
  BY <1>0, TpAssumption DEF CF, Frame, Frames, Tags
<1>2. /\ toUnit' = Append(toUnit, f) /\ rx' = rx /\ served' = served /\ losses' = losses
      /\ tester.busy /\ ~RequestSent
      /\ tester'.m = tester.m /\ tester'.next = tester.next + 1
  <2>1. tester' = [tester EXCEPT !.next = tester.next + 1, !.allowed = tester.allowed - 1]
    BY DEF TesterContinues
  <2>. QED BY <2>1 DEF TesterContinues, TpTypes, TpTypeOK
<1>. HIDE DEF f
<1>3. /\ Len(toUnit') = Len(toUnit) + 1 /\ toUnit'[Len(toUnit) + 1] = f
      /\ \A p \in 1..Len(toUnit) : toUnit'[p] = toUnit[p]
  BY <1>0, <1>1, <1>2, AppendOf
<1>4. ASSUME NEW p \in 1..(Len(toUnit) + 1), NEW m, NEW i, Follows(toUnit, rx, losses, p, m, i)
      PROVE  Follows(toUnit', rx', losses', p, m, i)
  BY <1>0, <1>2, <1>3, <1>4 DEF Follows, Continues
<1>5. \A p \in 1..Len(toUnit') :
        /\ toUnit'[p].t = "FF" => toUnit'[p].i = 0
        /\ toUnit'[p].t = "CF" => /\ toUnit'[p].n = toUnit'[p].i % SnLimit
                                  /\ FollowsNow(p, toUnit[p].m, toUnit[p].i)'
  <2>. TAKE p \in 1..Len(toUnit')
  <2>1. CASE p = Len(toUnit) + 1
    <3>1. Follows(toUnit', rx', losses', Len(toUnit) + 1, f.m, f.i)
      BY <1>0, <1>1, <1>2, <1>4 DEF RequestInv, FollowsNow
    <3>. QED BY <1>1, <1>3, <2>1, <3>1 DEF FollowsNow
  <2>2. CASE p \in 1..Len(toUnit)
    BY <1>0, <1>3, <1>4, <2>2 DEF RequestInv, FollowsNow
  <2>. QED BY <1>0, <1>3, <2>1, <2>2
<1>6. FollowsNow(Len(toUnit) + 1, tester.m, tester.next)'
  BY <1>0, <1>1, <1>2, <1>3 DEF Follows, FollowsNow
<1>. QED BY <1>2, <1>5, <1>6 DEF RequestInv, FollowsNow, InOrder

\* Requests: the first frame on the bus has gone; whatever continues it still finds its place.
LEMMA RequestsShift ==
  ASSUME TpTypes, RequestInv, toUnit # <<>>, toUnit' = Tail(toUnit), tester' = tester,
         InOrder(rx'.pieces), InOrder(served'),
         rx'.waiting => Len(rx'.pieces) = rx'.frame /\ rx'.frame > 0,
         toUnit[1].t \in {"FF", "CF"} => Continues(rx', losses', toUnit[1].m, toUnit[1].i + 1)
  PROVE  RequestInv'
<1>0. /\ toUnit \in Seq(Frames) /\ Len(toUnit) \in Nat \ {0}
      /\ Len(toUnit') = Len(toUnit) - 1
      /\ \A p \in 1..Len(toUnit') : toUnit'[p] = toUnit[p + 1]
  BY TailOf DEF TpTypes
<1>1. ASSUME NEW p \in 1..Len(toUnit), NEW m, NEW i, Follows(toUnit, rx, losses, p + 1, m, i)
      PROVE  Follows(toUnit', rx', losses', p, m, i)
  <2>1. toUnit[p].t \in {"FF", "CF"} /\ toUnit[p].m = m /\ toUnit[p].i + 1 = i
    BY <1>0, <1>1 DEF Follows, FollowsNow
  <2>2. CASE p = 1
    BY <2>1, <2>2 DEF Follows
  <2>3. CASE p # 1
    <3>1. toUnit'[p - 1] = toUnit[p]
      BY <1>0, <2>3
    <3>. QED BY <2>1, <2>3, <3>1 DEF Follows
  <2>. QED BY <2>2, <2>3
<1>2. \A p \in 1..Len(toUnit') :
        /\ toUnit'[p].t = "FF" => toUnit'[p].i = 0
        /\ toUnit'[p].t = "CF" => /\ toUnit'[p].n = toUnit'[p].i % SnLimit
                                  /\ FollowsNow(p, toUnit[p].m, toUnit[p].i)'
  <2>. TAKE p \in 1..Len(toUnit')
  <2>1. p \in 1..Len(toUnit) /\ p + 1 \in 1..Len(toUnit) /\ toUnit'[p] = toUnit[p + 1]
    BY <1>0
  <2>. QED BY <1>1, <2>1 DEF RequestInv, FollowsNow
<1>3. tester.busy /\ ~RequestSent =>
        Follows(toUnit', rx', losses', Len(toUnit') + 1, tester.m, tester.next)
  <2>1. Len(toUnit) \in 1..Len(toUnit) /\ Len(toUnit') + 1 = Len(toUnit)
    BY <1>0
  <2>2. tester.busy /\ ~RequestSent =>
        Follows(toUnit, rx, losses, Len(toUnit) + 1, tester.m, tester.next)
    BY DEF RequestInv, FollowsNow
  <2>. QED BY <1>1, <2>1, <2>2
<1>4. RequestSent' <=> RequestSent
  BY DEF RequestSent
<1>. QED BY <1>2, <1>3, <1>4 DEF RequestInv, FollowsNow

LEMMA NumbersDiffer ==
  ASSUME NEW a \in Nat, NEW d \in Nat, NEW s \in Nat \ {0}, a < s, d < s, (a + d) % s = a % s
  PROVE  d = 0
<1>1. a % s = a
  OBVIOUS
<1>2. CASE a + d < s
  <2>1. (a + d) % s = a + d
    BY <1>2
  <2>. QED BY <1>1, <2>1
<1>3. CASE a + d >= s
  <2>1. a + d - s \in 0..(s - 1)
    BY <1>3
  <2>2. ((a + d - s) + s) % s = (a + d - s) % s
    BY <2>1
  <2>3. (a + d) % s = a + d - s
    BY <2>1, <2>2
  <2>. QED BY <1>1, <2>3
<1>. QED BY <1>2, <1>3

LEMMA PieceInOrder ==
  ASSUME NEW S, NEW s \in Seq(S), Len(s) > 0, InOrder(s), NEW m, m = s[1].m
  PROVE  InOrder(Append(s, [m |-> m, i |-> Len(s)]))
<1>. DEFINE e == [m |-> m, i |-> Len(s)]
            t == Append(s, e)
<1>1. /\ Len(t) = Len(s) + 1 /\ t[Len(s) + 1] = e /\ \A k \in 1..Len(s) : t[k] = s[k]
      /\ Len(s) \in Nat
  OBVIOUS
<1>. HIDE DEF t
<1>2. SUFFICES ASSUME NEW k \in 1..Len(t) PROVE t[k] = [m |-> t[1].m, i |-> k - 1]
  BY DEF InOrder, t
<1>3. t[1].m = m
  BY <1>1
<1>4. CASE k = Len(s) + 1
  BY <1>1, <1>3, <1>4
<1>5. CASE k \in 1..Len(s)
  BY <1>1, <1>3, <1>5 DEF InOrder
<1>. QED BY <1>1, <1>4, <1>5

LEMMA NothingInOrder ==
  /\ InOrder(<<>>) /\ InOrder(EmptyRx.pieces) /\ ~EmptyRx.waiting
  /\ \A r, lost, m, i : ~r.waiting => Continues(r, lost, m, i)
  BY DEF InOrder, EmptyRx, Continues

\* The unit takes a frame it expects only in its place.
LEMMA ExpectedInPlace ==
  ASSUME TpTypes, RequestInv, MaxLosses < SnLimit, toUnit # <<>>, Expected(toUnit[1])
  PROVE  /\ InOrder(Append(rx.pieces, [m |-> toUnit[1].m, i |-> toUnit[1].i]))
         /\ Len(rx.pieces) = rx.frame /\ rx.frame \in Nat \ {0} /\ rx.pieces \in Seq(Pieces)
         /\ rx.pieces[1].m = toUnit[1].m /\ toUnit[1].i = rx.frame
<1>1. /\ toUnit \in Seq(Frames) /\ 1 \in 1..Len(toUnit) /\ toUnit[1] \in Frames
      /\ rx.frame \in Nat /\ rx.pieces \in Seq(Pieces) /\ losses \in 0..MaxLosses
      /\ SnLimit \in Nat \ {0} /\ MaxLosses \in Nat
  BY TpAssumption, TailOf DEF TpTypes, TpTypeOK
<1>2. /\ rx.pieces[1].m = toUnit[1].m /\ toUnit[1].i \in rx.frame..(rx.frame + losses)
      /\ toUnit[1].i % SnLimit = rx.frame % SnLimit /\ rx.frame < SnLimit
  BY <1>1 DEF RequestInv, FollowsNow, Follows, Continues, Expected
<1>3. Len(rx.pieces) = rx.frame /\ rx.frame > 0 /\ InOrder(rx.pieces)
  BY DEF RequestInv, Expected
<1>4. toUnit[1].i = rx.frame
  <2>. DEFINE d == toUnit[1].i - rx.frame
  <2>1. d \in Nat /\ d < SnLimit /\ toUnit[1].i = rx.frame + d
    BY <1>1, <1>2
  <2>. HIDE DEF d
  <2>2. d = 0
    BY <1>1, <1>2, <2>1, NumbersDiffer
  <2>. QED BY <1>1, <2>1, <2>2
<1>. QED BY <1>1, <1>2, <1>3, <1>4, PieceInOrder

\* The unit takes the first frame, whatever it is.
LEMMA RequestsReceived ==
  ASSUME TpTypes, RequestInv, MaxLosses < SnLimit, UnitReceives
  PROVE  RequestInv'
<1>. DEFINE f == Head(toUnit)
<1>1. /\ toUnit \in Seq(Frames) /\ toUnit # <<>> /\ toUnit' = Tail(toUnit) /\ tester' = tester
      /\ f = toUnit[1] /\ f \in Frames /\ 1 \in 1..Len(toUnit) /\ losses' = losses
      /\ losses \in Nat /\ InOrder(served)
  BY TailOf, TpAssumption DEF UnitReceives, TpTypes, TpTypeOK, RequestInv
<1>2. CASE FirstFrame(f)
  <2>1. served' = served /\ f.i = 0
    BY <1>1, <1>2 DEF FirstFrame, RequestInv
  <2>2. /\ rx'.waiting /\ rx'.frame = 1 /\ rx'.pieces = <<[m |-> f.m, i |-> 0]>>
    BY <1>2 DEF FirstFrame, Reception, EmptyRx
  <2>3. InOrder(rx'.pieces) /\ Len(rx'.pieces) = rx'.frame /\ rx'.pieces[1].m = f.m
    BY <2>2 DEF InOrder
  <2>4. Continues(rx', losses', f.m, f.i + 1)
    BY <1>1, <2>1, <2>2, <2>3 DEF Continues
  <2>. QED BY <1>1, <2>1, <2>2, <2>3, <2>4, RequestsShift
<1>3. CASE NextFrame(f)
  <2>1. Expected(toUnit[1]) /\ served' = served
    BY <1>1, <1>3 DEF NextFrame
  <2>2. /\ rx'.frame = rx.frame + 1 /\ rx'.waiting
        /\ rx'.pieces = Append(rx.pieces, [m |-> f.m, i |-> f.i])
    <3>1. rx.waiting /\ rx \in [frame : Nat, len : Nat, pieces : Seq(Pieces),
                                waiting : BOOLEAN, blocks : 1..WaitBlocks]
      BY <2>1 DEF Expected, TpTypes, TpTypeOK
    <3>2. \E b : rx' = [rx EXCEPT !.frame = rx.frame + 1,
                                  !.pieces = Append(rx.pieces, [m |-> f.m, i |-> f.i]),
                                  !.blocks = b]
      BY <1>3, Zenon DEF NextFrame
    <3>. QED BY <3>1, <3>2
  <2>3. /\ InOrder(Append(rx.pieces, [m |-> f.m, i |-> f.i]))
        /\ Len(rx.pieces) = rx.frame /\ rx.frame \in Nat \ {0} /\ rx.pieces \in Seq(Pieces)
        /\ rx.pieces[1].m = f.m /\ f.i = rx.frame
    BY <1>1, <2>1, ExpectedInPlace
  <2>4. Len(rx'.pieces) = rx'.frame /\ rx'.frame > 0 /\ rx'.pieces[1].m = f.m
    BY <2>2, <2>3
  <2>5. Continues(rx', losses', f.m, f.i + 1)
    BY <1>1, <2>2, <2>3, <2>4 DEF Continues
  <2>. QED BY <1>1, <2>1, <2>2, <2>3, <2>4, <2>5, RequestsShift
<1>4. CASE LastFrame(f)
  <2>1. Expected(toUnit[1]) /\ rx' = EmptyRx /\ served' = Append(rx.pieces, [m |-> f.m, i |-> f.i])
    BY <1>1, <1>4 DEF LastFrame, Dispatch
  <2>2. InOrder(served')
    BY <1>1, <2>1, ExpectedInPlace
  <2>. QED BY <1>1, <2>1, <2>2, NothingInOrder, RequestsShift
<1>5. CASE OtherFrame(f)
  <2>1. rx' = EmptyRx /\ served' = served
    BY <1>5 DEF OtherFrame, Dispatch
  <2>. QED BY <1>1, <2>1, NothingInOrder, RequestsShift
<1>6. CASE FlowControl(f)
  <2>1. rx' = EmptyRx /\ served' = served
    BY <1>6 DEF FlowControl
  <2>. QED BY <1>1, <2>1, NothingInOrder, RequestsShift
<1>. QED BY <1>2, <1>3, <1>4, <1>5, <1>6 DEF UnitReceives

\* The tester takes a frame; it sends nothing but flow control, and that for a response only.
LEMMA RequestsWhileAnswered ==
  ASSUME TpTypes, RequestInv, TesterReceives
  PROVE  RequestInv'
<1>. DEFINE f == Head(toTester)
<1>1. /\ toTester \in Seq(Frames) /\ toTester # <<>> /\ f \in Frames
      /\ rx' = rx /\ served' = served /\ losses' = losses /\ losses \in Nat
      /\ tester \in [m : 0..MaxExchanges, len : Nat, next : Nat, allowed : Nat, busy : BOOLEAN,
                     got : Seq(Pieces), want : Nat, left : Nat, result : Results]
      /\ Len(tester.got) > 0 /\ tester.busy => RequestSent
      /\ BlockSizes \subseteq Nat
  <2>1. /\ toTester \in Seq(Frames) /\ toTester # <<>>
        /\ rx' = rx /\ served' = served /\ losses' = losses
    BY DEF TesterReceives, TpTypes
  <2>2. f \in Frames
    BY <2>1, TailOf
  <2>3. losses \in Nat /\ BlockSizes \subseteq Nat
    BY TpAssumption DEF TpTypes, TpTypeOK
  <2>. QED BY <2>1, <2>2, <2>3 DEF TpTypes, TpTypeOK
<1>2. CASE UNCHANGED <<tester, toUnit>>
  <2>1. RequestSent' <=> RequestSent
    BY <1>2 DEF RequestSent
  <2>. QED BY <1>1, <1>2, <2>1, RequestsKept
<1>3. CASE TesterFlow(f)
  <2>1. CASE tester' = tester
    BY <1>2, <1>3, <2>1 DEF TesterFlow
  <2>2. CASE tester' # tester
    <3>1. tester.busy /\ ~RequestSent /\ tester' = [tester EXCEPT !.allowed = f.n]
      BY <1>3, <2>2, Zenon DEF TesterFlow
    <3>2. tester'.m = tester.m /\ tester'.next = tester.next
      BY <1>1, <3>1
    <3>. QED BY <1>1, <1>3, <3>1, <3>2, RequestsKept DEF TesterFlow
  <2>. QED BY <2>1, <2>2
<1>4. ASSUME UNCHANGED toUnit, ~tester'.busy PROVE RequestInv'
  BY <1>1, <1>4, RequestsKept
<1>5. ASSUME NEW bs \in BlockSizes, toUnit' = Append(toUnit, FC(bs)),
             RequestSent, tester'.next = tester.next, tester'.len = tester.len
      PROVE  RequestInv'
  <2>1. RequestSent'
    BY <1>5 DEF RequestSent
  <2>2. FC(bs) \in Frames /\ FC(bs).t = "FC"
    BY <1>1, TpAssumption DEF FC, Frame, Frames, Tags
  <2>. QED BY <1>1, <1>5, <2>1, <2>2, RequestsBegun
<1>6. CASE TesterSingle(f)
  <2>1. CASE tester' = tester
    BY <1>2, <1>6, <2>1 DEF TesterSingle
  <2>2. CASE tester' # tester
    <3>1. /\ tester' = [tester EXCEPT !.busy = FALSE, !.got = <<>>, !.want = 0,
                                     !.result = "single"]
          /\ toUnit' = toUnit
      BY <1>6, <2>2, Zenon DEF TesterSingle
    <3>2. ~tester'.busy
      BY <1>1, <3>1
    <3>. QED BY <1>4, <3>1, <3>2
  <2>. QED BY <2>1, <2>2
<1>7. CASE TesterFirst(f)
  <2>1. CASE tester.busy /\ RequestSent
    <3>1. PICK bs \in BlockSizes : tester' = Receiving(f, bs) /\ toUnit' = Append(toUnit, FC(bs))
      BY <1>7, <2>1 DEF TesterFirst
    <3>2. tester'.next = tester.next /\ tester'.len = tester.len
      BY <1>1, <3>1 DEF Receiving
    <3>. QED BY <1>5, <2>1, <3>1, <3>2
  <2>2. CASE ~(tester.busy /\ RequestSent)
    BY <1>2, <1>7, <2>2 DEF TesterFirst
  <2>. QED BY <2>1, <2>2
<1>8. CASE TesterConsecutive(f)
  <2>. DEFINE n == Len(tester.got)
              got == Append(tester.got, [m |-> f.m, i |-> f.i])
  <2>0. n \in Nat /\ (tester.busy /\ n # 0 => RequestSent)
    BY <1>1
  <2>. HIDE DEF n
  <2>1. CASE ~tester.busy \/ n = 0
    BY <1>2, <1>8, <2>1 DEF TesterConsecutive, n
  <2>2. CASE tester.busy /\ n # 0 /\ (f.t = "none" \/ f.n # n % SnLimit)
    <3>1. tester' = [tester EXCEPT !.busy = FALSE, !.got = <<>>, !.want = 0, !.result = "gap"]
          /\ toUnit' = toUnit
      BY <1>8, <2>2 DEF TesterConsecutive, n
    <3>2. ~tester'.busy
      BY <1>1, <3>1
    <3>. QED BY <1>4, <3>1, <3>2
  <2>3. CASE tester.busy /\ n # 0 /\ f.t # "none" /\ f.n = n % SnLimit
    <3>1. CASE n + 1 >= tester.want
      <4>1. tester' = [tester EXCEPT !.got = got, !.busy = FALSE, !.result = "whole"]
            /\ toUnit' = toUnit
        BY <1>8, <2>3, <3>1 DEF TesterConsecutive, n
      <4>2. ~tester'.busy
        BY <1>1, <4>1
      <4>. QED BY <1>4, <4>1, <4>2
    <3>2. CASE ~(n + 1 >= tester.want) /\ tester.left = 1
      <4>1. PICK bs \in BlockSizes : /\ tester' = [tester EXCEPT !.got = got, !.left = bs]
                                     /\ toUnit' = Append(toUnit, FC(bs))
        BY <1>8, <2>3, <3>2 DEF TesterConsecutive, n
      <4>2. tester'.next = tester.next /\ tester'.len = tester.len
        BY <1>1, <4>1
      <4>. QED BY <1>5, <2>0, <2>3, <4>1, <4>2
    <3>3. CASE ~(n + 1 >= tester.want) /\ tester.left # 1
      <4>1. /\ tester' = [tester EXCEPT !.got = got,
                                     !.left = IF tester.left = 0 THEN 0 ELSE tester.left - 1]
            /\ toUnit' = toUnit
        BY <1>8, <2>3, <3>3 DEF TesterConsecutive, n
      <4>2. tester'.next = tester.next /\ tester'.len = tester.len /\ tester'.m = tester.m
            /\ tester'.busy = tester.busy
        BY <1>1, <4>1
      <4>3. RequestSent'
        BY <2>0, <2>3, <4>2 DEF RequestSent
      <4>. QED BY <1>1, <4>1, <4>3, RequestsKept
    <3>. QED BY <3>1, <3>2, <3>3
  <2>. QED BY <2>1, <2>2, <2>3
<1>. QED BY <1>3, <1>6, <1>7, <1>8 DEF TesterReceives

----------------------------------------------------------------------------
(* Responses.                                                              *)

LEMMA RunOfTail ==
  ASSUME NEW s \in Seq(Frames), s # <<>>, NEW a \in Nat \ {0}, NEW b \in Nat, b < Len(s)
  PROVE  Run(Tail(s), a, b) <=> Run(s, a + 1, b + 1)
<1>0. /\ Len(s) \in Nat /\ Len(Tail(s)) = Len(s) - 1
      /\ \A p \in 1..Len(Tail(s)) : Tail(s)[p] = s[p + 1]
  BY TailOf
<1>1. ASSUME Run(Tail(s), a, b) PROVE Run(s, a + 1, b + 1)
  <2>. SUFFICES ASSUME NEW q \in (a + 1)..(b + 1) PROVE s[q].t \in Consecutive
    BY DEF Run
  <2>1. q - 1 \in a..b /\ q - 1 \in 1..Len(Tail(s)) /\ (q - 1) + 1 = q
    BY <1>0
  <2>2. Tail(s)[q - 1].t \in Consecutive /\ Tail(s)[q - 1] = s[(q - 1) + 1]
    BY <1>0, <1>1, <2>1 DEF Run
  <2>. QED BY <2>1, <2>2
<1>2. ASSUME Run(s, a + 1, b + 1) PROVE Run(Tail(s), a, b)
  <2>. SUFFICES ASSUME NEW q \in a..b PROVE Tail(s)[q].t \in Consecutive
    BY DEF Run
  <2>1. q + 1 \in (a + 1)..(b + 1) /\ q \in 1..Len(Tail(s))
    BY <1>0
  <2>. QED BY <1>0, <1>2, <2>1 DEF Run
<1>. QED BY <1>1, <1>2

LEMMA StreamOfTail ==
  ASSUME NEW s \in Seq(Frames), s # <<>>, Stream(s)
  PROVE  Stream(Tail(s))
<1>. DEFINE t == Tail(s)
<1>0. /\ Len(s) \in Nat /\ Len(t) = Len(s) - 1
      /\ \A p \in 1..Len(t) : t[p] = s[p + 1]
  BY TailOf
<1>r. \A a \in Nat \ {0}, b \in Nat : b < Len(s) => (Run(t, a, b) <=> Run(s, a + 1, b + 1))
  BY RunOfTail
<1>. HIDE DEF t
<1>1. ASSUME NEW a \in 1..Len(t), NEW p \in 1..Len(t), a < p, t[a].t = "FF", Run(t, a + 1, p)
      PROVE  t[p] = PieceOf(t[a].m, t[a].n, p - a)
  <2>1. /\ a + 1 \in 1..Len(s) /\ p + 1 \in 1..Len(s) /\ a + 1 < p + 1
        /\ t[a] = s[a + 1] /\ t[p] = s[p + 1]
    BY <1>0, <1>1
  <2>4. (p + 1) - (a + 1) = p - a
    BY <1>0
  <2>2. Run(s, (a + 1) + 1, p + 1)
    BY <1>0, <1>1, <1>r
  <2>3. s[p + 1] = PieceOf(s[a + 1].m, s[a + 1].n, (p + 1) - (a + 1))
    BY <1>1, <2>1, <2>2 DEF Stream
  <2>. QED BY <2>1, <2>3, <2>4
<1>2. ASSUME NEW p \in 2..Len(t), t[p].t \in Consecutive
      PROVE  t[p - 1].t \in Consecutive \cup {"FF"}
  <2>1. p + 1 \in 2..Len(s) /\ t[p] = s[p + 1] /\ t[p - 1] = s[(p + 1) - 1]
    BY <1>0
  <2>. QED BY <1>2, <2>1 DEF Stream
<1>3. Stream(t)
  BY <1>1, <1>2 DEF Stream
<1>. QED BY <1>3 DEF t

LEMMA AwaitedOfTail ==
  ASSUME NEW s \in Seq(Frames), s # <<>>, NEW x, Awaited(s, x)
  PROVE  Awaited(Tail(s), x)
<1>. DEFINE t == Tail(s)
<1>0. /\ Len(s) \in Nat /\ Len(t) = Len(s) - 1
      /\ \A p \in 1..Len(t) : t[p] = s[p + 1]
  BY TailOf
<1>r. \A a \in Nat \ {0}, b \in Nat : b < Len(s) => (Run(t, a, b) <=> Run(s, a + 1, b + 1))
  BY RunOfTail
<1>. HIDE DEF t
<1>1. ASSUME x.waitFC, NEW p \in 1..Len(t), t[p].t \notin Consecutive, Run(t, p + 1, Len(t))
      PROVE  t[p] = FF(x.m, x.len) /\ x.sent = Len(t) - p + 1
  <2>1. p + 1 \in 1..Len(s) /\ t[p] = s[p + 1] /\ Len(t) + 1 = Len(s)
        /\ Len(s) - (p + 1) + 1 = Len(t) - p + 1
    BY <1>0
  <2>2. Run(s, (p + 1) + 1, Len(s))
    BY <1>0, <1>1, <1>r
  <2>3. s[p + 1] = FF(x.m, x.len) /\ x.sent = Len(s) - (p + 1) + 1
    BY <1>1, <2>1, <2>2 DEF Awaited
  <2>. QED BY <2>1, <2>3
<1>2. Awaited(t, x)
  BY <1>1 DEF Awaited
<1>. QED BY <1>2 DEF t

\* The head is a consecutive frame: one more is taken, or lost.
LEMMA ReceivedConsecutive ==
  ASSUME NEW s \in Seq(Frames), s # <<>>, s[1].t \in Consecutive, NEW x, NEW y, NEW z,
         NEW d \in Nat, NEW e \in Nat, Received(s, x, y, d),
         Len(y.got) \in Nat, Len(z.got) \in Nat, Len(z.got) + e = Len(y.got) + d + 1,
         z.got[1].m = y.got[1].m, z.want = y.want
  PROVE  Received(Tail(s), x, z, e)
<1>. DEFINE t == Tail(s)
            g == Len(y.got)
            h == Len(z.got)
<1>g. g \in Nat /\ h \in Nat /\ d \in Nat /\ e \in Nat /\ h + e = g + d + 1
  OBVIOUS
<1>0. /\ Len(s) \in Nat /\ Len(t) = Len(s) - 1
      /\ \A p \in 1..Len(t) : t[p] = s[p + 1]
      /\ Len(s) > 0
  BY TailOf
<1>r. \A b \in Nat : b < Len(s) /\ Run(t, 1, b) => Run(s, 1, b + 1)
  <2>. TAKE b \in Nat
  <2>. HAVE b < Len(s) /\ Run(t, 1, b)
  <2>1. Run(s, 1 + 1, b + 1)
    BY RunOfTail
  <2>. QED BY <2>1 DEF Run
<1>. HIDE DEF t, g, h
<1>1. ASSUME NEW p \in 1..Len(t), Run(t, 1, p)
      PROVE  t[p] = PieceOf(z.got[1].m, z.want, Len(z.got) + e + p - 1)
  <2>0. p \in Nat /\ p < Len(s) /\ p + 1 \in 1..Len(s) /\ t[p] = s[p + 1]
    <3>1. t[p] = s[p + 1]
      BY <1>0, <1>1
    <3>2. p \in 1..(Len(s) - 1) /\ Len(s) \in Nat
      BY <1>0, <1>1
    <3>. QED BY ONLY <3>1, <3>2
  <2>1. Run(s, 1, p + 1)
    BY <1>1, <1>r, <2>0
  <2>3. g + d + (p + 1) - 1 = h + e + p - 1
    BY ONLY <1>g, <2>0
  <2>2. s[p + 1] = PieceOf(y.got[1].m, y.want, g + d + (p + 1) - 1)
    BY <2>0, <2>1 DEF Received, g
  <2>. QED BY <2>0, <2>2, <2>3 DEF h
<1>2. ASSUME x.waitFC, Run(t, 1, Len(t))
      PROVE  x.m = z.got[1].m /\ x.len = z.want /\ x.sent = Len(z.got) + e + Len(t)
  <2>0. Len(t) \in Nat /\ Len(t) < Len(s) /\ Len(t) + 1 = Len(s)
    BY <1>0, TailOf
  <2>1. Run(s, 1, Len(s))
    BY <1>2, <1>r, <2>0
  <2>2. g + d + Len(s) = h + e + Len(t)
    <3>. DEFINE lt == Len(t)
    <3>1. lt \in Nat /\ Len(s) = lt + 1
      BY <2>0
    <3>2. g + d + (lt + 1) = h + e + lt
      <4>. HIDE DEF lt
      <4>. QED BY ONLY <1>g, <3>1
    <3>. QED BY ONLY <3>1, <3>2
  <2>3. x.m = y.got[1].m /\ x.len = y.want /\ x.sent = g + d + Len(s)
    BY <1>2, <2>1 DEF Received, g
  <2>. QED BY <2>2, <2>3 DEF h
<1>3. Received(t, x, z, e)
  BY <1>1, <1>2 DEF Received
<1>. QED BY <1>3 DEF t

\* The head is a first frame, and the tester begins to receive what it announces.
LEMMA ReceivedFirst ==
  ASSUME NEW s \in Seq(Frames), s # <<>>, s[1].t = "FF", Stream(s), NEW x, Awaited(s, x),
         NEW z, z.got = <<[m |-> s[1].m, i |-> 0]>>, z.want = s[1].n
  PROVE  Received(Tail(s), x, z, 0)
<1>. DEFINE t == Tail(s)
<1>0. /\ Len(s) \in Nat \ {0} /\ Len(t) = Len(s) - 1
      /\ \A p \in 1..Len(t) : t[p] = s[p + 1]
      /\ Len(z.got) = 1 /\ z.got[1].m = s[1].m /\ s[1].t \notin Consecutive
  BY TailOf DEF Consecutive
<1>r. \A b \in Nat : b < Len(s) => (Run(t, 1, b) <=> Run(s, 2, b + 1))
  BY RunOfTail
<1>. HIDE DEF t
<1>1. ASSUME NEW p \in 1..Len(t), Run(t, 1, p)
      PROVE  t[p] = PieceOf(z.got[1].m, z.want, Len(z.got) + 0 + p - 1)
  <2>1. /\ 1 \in 1..Len(s) /\ p + 1 \in 1..Len(s) /\ t[p] = s[p + 1] /\ Run(s, 1 + 1, p + 1)
        /\ (p + 1) - 1 = Len(z.got) + 0 + p - 1 /\ 1 < p + 1
    BY <1>0, <1>1, <1>r
  <2>2. s[p + 1] = PieceOf(s[1].m, s[1].n, (p + 1) - 1)
    BY <2>1 DEF Stream
  <2>. QED BY <1>0, <2>1, <2>2
<1>2. ASSUME x.waitFC, Run(t, 1, Len(t))
      PROVE  x.m = z.got[1].m /\ x.len = z.want /\ x.sent = Len(z.got) + 0 + Len(t)
  <2>1. /\ Run(s, 1 + 1, Len(s)) /\ 1 \in 1..Len(s)
        /\ Len(s) - 1 + 1 = Len(z.got) + 0 + Len(t)
    BY <1>0, <1>2, <1>r
  <2>2. s[1] = FF(x.m, x.len) /\ x.sent = Len(s) - 1 + 1
    BY <1>0, <1>2, <2>1 DEF Awaited
  <2>3. FF(x.m, x.len).m = x.m /\ FF(x.m, x.len).n = x.len
    BY DEF FF, Frame
  <2>. QED BY <1>0, <2>1, <2>2, <2>3
<1>3. Received(t, x, z, 0)
  BY <1>1, <1>2 DEF Received
<1>. QED BY <1>3 DEF t

\* The head is another frame: no piece follows it.
LEMMA ReceivedOther ==
  ASSUME NEW s \in Seq(Frames), s # <<>>, s[1].t \notin Consecutive \cup {"FF"},
         Stream(s), NEW x, Awaited(s, x), NEW z
  PROVE  Received(Tail(s), x, z, 0)
<1>. DEFINE t == Tail(s)
<1>0. /\ Len(s) \in Nat \ {0} /\ Len(t) = Len(s) - 1
      /\ \A p \in 1..Len(t) : t[p] = s[p + 1]
  BY TailOf
<1>. HIDE DEF t
<1>1. ASSUME NEW p \in 1..Len(t), Run(t, 1, p) PROVE FALSE
  <2>1. 2 \in 2..Len(s) /\ t[1] = s[2] /\ t[1].t \in Consecutive
    BY <1>0, <1>1 DEF Run
  <2>. QED BY <2>1 DEF Stream
<1>2. ASSUME x.waitFC, Run(t, 1, Len(t)) PROVE FALSE
  <2>1. Len(s) = 1
    BY <1>0, <1>1, <1>2
  <2>2. Run(s, 1 + 1, Len(s))
    BY <2>1 DEF Run
  <2>3. s[1] = FF(x.m, x.len)
    BY <1>2, <2>1, <2>2 DEF Awaited
  <2>. QED BY <2>3 DEF FF, Frame
<1>3. Received(t, x, z, 0)
  BY <1>1, <1>2 DEF Received
<1>. QED BY <1>3 DEF t

\* A frame is added that carries no piece: the first of a response, or what ends one.
LEMMA StreamWithOther ==
  ASSUME NEW s \in Seq(Frames), NEW f \in Frames, f.t \notin Consecutive, Stream(s),
         NEW x, x.waitFC => f = FF(x.m, x.len) /\ x.sent = 1
  PROVE  /\ Stream(Append(s, f)) /\ Awaited(Append(s, f), x)
         /\ \A w, y, z, d : Received(s, w, y, d) /\ z = y => Received(Append(s, f), x, z, d)
<1>. DEFINE t == Append(s, f)
<1>0. /\ Len(s) \in Nat /\ Len(t) = Len(s) + 1 /\ t[Len(s) + 1] = f
      /\ \A p \in 1..Len(s) : t[p] = s[p]
  BY AppendOf
<1>. HIDE DEF t
<1>1. ASSUME NEW a \in Nat \ {0}, NEW p \in 1..Len(t), Run(t, a, p), a <= p
      PROVE  p \in 1..Len(s) /\ Run(s, a, p)
  <2>1. p # Len(s) + 1
    BY <1>0, <1>1 DEF Run
  <2>. QED BY <1>0, <1>1, <2>1 DEF Run
<1>2. ASSUME NEW a \in 1..Len(t), NEW p \in 1..Len(t), a < p, t[a].t = "FF", Run(t, a + 1, p)
      PROVE  t[p] = PieceOf(t[a].m, t[a].n, p - a)
  <2>1. p \in 1..Len(s) /\ Run(s, a + 1, p)
    BY <1>0, <1>1, <1>2
  <2>2. a \in 1..Len(s) /\ t[a] = s[a] /\ t[p] = s[p]
    BY <1>0, <1>2, <2>1
  <2>. QED BY <1>2, <2>1, <2>2 DEF Stream
<1>3. ASSUME NEW p \in 2..Len(t), t[p].t \in Consecutive
      PROVE  t[p - 1].t \in Consecutive \cup {"FF"}
  <2>1. p \in 2..Len(s) /\ t[p] = s[p] /\ t[p - 1] = s[p - 1]
    BY <1>0, <1>3
  <2>. QED BY <1>3, <2>1 DEF Stream
<1>4. Stream(t)
  BY <1>2, <1>3 DEF Stream
<1>5. ASSUME x.waitFC, NEW p \in 1..Len(t), t[p].t \notin Consecutive, Run(t, p + 1, Len(t))
      PROVE  t[p] = FF(x.m, x.len) /\ x.sent = Len(t) - p + 1
  <2>1. ~(p + 1 <= Len(t))
    BY <1>0, <1>1, <1>5
  <2>2. p = Len(s) + 1
    BY <1>0, <2>1
  <2>. QED BY <1>0, <1>5, <2>2
<1>6. Awaited(t, x)
  BY <1>5 DEF Awaited
<1>7. ASSUME NEW w, NEW y, NEW d, Received(s, w, y, d)
      PROVE  Received(t, x, y, d)
  <2>1. ASSUME NEW p \in 1..Len(t), Run(t, 1, p)
        PROVE  t[p] = PieceOf(y.got[1].m, y.want, Len(y.got) + d + p - 1)
    <3>1. p \in 1..Len(s) /\ Run(s, 1, p) /\ t[p] = s[p]
      BY <1>0, <1>1, <2>1
    <3>. QED BY <1>7, <3>1 DEF Received
  <2>2. ~Run(t, 1, Len(t))
    <3>1. Len(t) \in 1..Len(t) /\ ~(Len(t) \in 1..Len(s)) /\ 1 <= Len(t)
      BY <1>0
    <3>. QED BY <1>1, <3>1
  <2>. QED BY <2>1, <2>2 DEF Received
<1>. QED BY <1>4, <1>6, <1>7 DEF t

\* A block of the response that waits is added.
LEMMA StreamWithBlock ==
  ASSUME NEW s \in Seq(Frames), Stream(s), NEW x, Awaited(s, x), x.waitFC,
         x.len \in Nat, x.sent \in Nat \ {0},
         NEW k \in Nat, NEW t \in Seq(Frames), Len(t) = Len(s) + k,
         \A p \in 1..Len(s) : t[p] = s[p],
         \A j \in 1..k : /\ t[Len(s) + j] = PieceOf(x.m, x.len, x.sent + j - 1)
                         /\ t[Len(s) + j].t \in Consecutive,
         NEW z, z.waitFC => z.m = x.m /\ z.len = x.len /\ z.sent = x.sent + k
  PROVE  /\ Stream(t) /\ Awaited(t, z)
         /\ \A y, d : d \in Nat /\ Len(y.got) \in Nat /\ Received(s, x, y, d)
                        => Received(t, z, y, d)
<1>. DEFINE m == x.m
            n == x.len
            sent == x.sent
<1>m. /\ m = x.m /\ n = x.len /\ sent = x.sent /\ n \in Nat /\ sent \in Nat \ {0}
      /\ \A j \in 1..k : t[Len(s) + j] = PieceOf(m, n, sent + j - 1)
      /\ z.waitFC => z.m = m /\ z.len = n /\ z.sent = sent + k
  OBVIOUS
<1>. HIDE DEF m, n, sent
<1>0. Len(s) \in Nat /\ \A p \in 1..Len(t) : p \in 1..Len(s) \/ \E j \in 1..k : p = Len(s) + j
  <2>1. ASSUME NEW p \in 1..Len(t), p \notin 1..Len(s) PROVE \E j \in 1..k : p = Len(s) + j
    <3>1. p - Len(s) \in 1..k /\ p = Len(s) + (p - Len(s))
      BY <2>1
    <3>. QED BY <3>1
  <2>. QED BY <2>1
<1>1. ASSUME NEW a \in Nat \ {0}, NEW p \in Len(s)..Len(t), Run(t, a, p)
      PROVE  Run(s, a, Len(s))
  <2>. SUFFICES ASSUME NEW q \in a..Len(s) PROVE s[q].t \in Consecutive
    BY DEF Run
  <2>1. q \in a..p /\ q \in 1..Len(s)
    BY <1>0
  <2>. QED BY <1>1, <2>1 DEF Run
<1>2. ASSUME NEW a \in Nat \ {0}, NEW p \in 1..Len(s), Run(t, a, p) PROVE Run(s, a, p)
  BY <1>0, <1>2 DEF Run
<1>3. \A p \in 1..Len(t) : t[p].t \notin Consecutive => p \in 1..Len(s) /\ t[p] = s[p]
  BY <1>0
<1>f. "FF" \notin Consecutive /\ FF(m, n).m = m /\ FF(m, n).n = n
  BY DEF Consecutive, FF, Frame
<1>4. ASSUME NEW a \in 1..Len(t), NEW p \in 1..Len(t), a < p, t[a].t = "FF", Run(t, a + 1, p)
      PROVE  t[p] = PieceOf(t[a].m, t[a].n, p - a)
  <2>1. a \in 1..Len(s) /\ t[a] = s[a]
    BY <1>3, <1>4, <1>f
  <2>2. CASE p \in 1..Len(s)
    <3>1. Run(s, a + 1, p)
      BY <1>2, <1>4, <2>1, <2>2
    <3>. QED BY <1>4, <2>1, <2>2, <3>1 DEF Stream
  <2>3. ASSUME NEW j \in 1..k, p = Len(s) + j PROVE t[p] = PieceOf(t[a].m, t[a].n, p - a)
    <3>1. p \in Len(s)..Len(t) /\ a + 1 \in Nat \ {0}
      BY <1>0, <2>1, <2>3
    <3>2. Run(s, a + 1, Len(s))
      BY <1>1, <1>4, <3>1
    <3>3. s[a] = FF(m, n) /\ sent = Len(s) - a + 1
      BY <1>m, <1>4, <1>f, <2>1, <3>2 DEF Awaited
    <3>4. sent + j - 1 = p - a
      BY <1>m, <1>0, <2>1, <2>3, <3>3
    <3>5. t[p] = PieceOf(m, n, sent + j - 1)
      BY <1>m, <2>3
    <3>6. t[a].m = m /\ t[a].n = n
      BY <1>f, <2>1, <3>3
    <3>. QED BY <3>4, <3>5, <3>6
  <2>. QED BY <1>0, <2>2, <2>3
<1>5. ASSUME NEW p \in 2..Len(t), t[p].t \in Consecutive
      PROVE  t[p - 1].t \in Consecutive \cup {"FF"}
  <2>1. CASE p \in 1..Len(s)
    <3>1. p \in 2..Len(s) /\ t[p] = s[p] /\ t[p - 1] = s[p - 1]
      BY <1>0, <2>1
    <3>. QED BY <1>5, <3>1 DEF Stream
  <2>2. CASE p = Len(s) + 1
    <3>1. /\ Len(s) \in 1..Len(s) /\ p - 1 = Len(s) /\ t[p - 1] = s[Len(s)]
          /\ Run(s, Len(s) + 1, Len(s))
      BY <1>0, <2>2 DEF Run
    <3>2. s[Len(s)].t \notin Consecutive => s[Len(s)] = FF(m, n)
      BY <1>m, <3>1 DEF Awaited
    <3>. QED BY <3>1, <3>2 DEF FF, Frame
  <2>3. CASE p \notin 1..(Len(s) + 1)
    <3>1. p - 1 \in 1..Len(t) /\ p - 1 \notin 1..Len(s)
      BY <1>0, <2>3
    <3>. QED BY <1>0, <3>1
  <2>. QED BY <1>0, <2>1, <2>2, <2>3
<1>6. Stream(t)
  BY <1>4, <1>5 DEF Stream
<1>7. ASSUME z.waitFC, NEW p \in 1..Len(t), t[p].t \notin Consecutive, Run(t, p + 1, Len(t))
      PROVE  t[p] = FF(z.m, z.len) /\ z.sent = Len(t) - p + 1
  <2>1. p \in 1..Len(s) /\ t[p] = s[p]
    BY <1>3, <1>7
  <2>2. Run(s, p + 1, Len(s))
    BY <1>0, <1>1, <1>7
  <2>3. s[p] = FF(m, n) /\ sent = Len(s) - p + 1
    BY <1>m, <1>7, <2>1, <2>2 DEF Awaited
  <2>. QED BY <1>0, <1>m, <1>7, <2>1, <2>3
<1>8. Awaited(t, z)
  BY <1>7 DEF Awaited
<1>9. ASSUME NEW y, NEW d \in Nat, Len(y.got) \in Nat, Received(s, x, y, d)
      PROVE  Received(t, z, y, d)
  <2>. DEFINE g == Len(y.got)
  <2>0. g \in Nat
    BY <1>9
  <2>. HIDE DEF g
  <2>1. Run(s, 1, Len(s)) => m = y.got[1].m /\ n = y.want /\ sent = g + d + Len(s)
    BY <1>m, <1>9 DEF Received, g
  <2>2. ASSUME NEW p \in 1..Len(t), Run(t, 1, p)
        PROVE  t[p] = PieceOf(y.got[1].m, y.want, g + d + p - 1)
    <3>1. CASE p \in 1..Len(s)
      <4>1. Run(s, 1, p)
        BY <1>2, <2>2, <3>1, 1 \in Nat \ {0}
      <4>2. t[p] = s[p]
        BY <3>1
      <4>. QED BY <1>9, <3>1, <4>1, <4>2 DEF Received, g
    <3>2. ASSUME NEW j \in 1..k, p = Len(s) + j
          PROVE  t[p] = PieceOf(y.got[1].m, y.want, g + d + p - 1)
      <4>1. p \in Len(s)..Len(t)
        BY <1>0, <3>2
      <4>2. Run(s, 1, Len(s))
        BY <1>1, <2>2, <4>1
      <4>3. sent + j - 1 = g + d + p - 1
        BY <1>m, <1>0, <2>0, <2>1, <3>2, <4>2
      <4>4. t[p] = PieceOf(m, n, sent + j - 1)
        BY <1>m, <3>2
      <4>. QED BY <2>1, <4>2, <4>3, <4>4
    <3>. QED BY <1>0, <3>1, <3>2
  <2>3. ASSUME z.waitFC, Run(t, 1, Len(t))
        PROVE  z.m = y.got[1].m /\ z.len = y.want /\ z.sent = g + d + Len(t)
    <3>1. Run(s, 1, Len(s))
      BY <1>0, <1>1, <2>3
    <3>2. sent + k = g + d + Len(t)
      BY <1>m, <1>0, <2>0, <2>1, <3>1
    <3>. QED BY <1>m, <2>1, <2>3, <3>1, <3>2
  <2>. QED BY <2>2, <2>3 DEF Received, g
<1>. QED BY <1>6, <1>8, <1>9

\* The unit sends a frame that carries no piece.
LEMMA ResponseWithOther ==
  ASSUME TpTypes, ResponseInv, NEW f \in Frames, f.t \notin Consecutive,
         toTester' = Append(toTester, f), tester' = tester,
         tx'.waitFC => f = FF(tx'.m, tx'.len) /\ tx'.sent = 1
  PROVE  ResponseInv'
<1>1. toTester \in Seq(Frames) /\ Stream(toTester)
  BY DEF TpTypes, ResponseInv
<1>2. Stream(toTester') /\ Awaited(toTester', tx')
  BY <1>1, StreamWithOther
<1>3. Receives(tester) => \E d \in Nat : Received(toTester', tx', tester, d)
  <2>1. ASSUME NEW d \in Nat, Received(toTester, tx, tester, d)
        PROVE  Received(toTester', tx', tester, d)
    BY <1>1, <2>1, StreamWithOther
  <2>. QED BY <2>1 DEF ResponseInv
<1>. QED BY <1>2, <1>3 DEF ResponseInv, Receives, InOrder

\* The unit sends nothing.
LEMMA ResponseKept ==
  ASSUME ResponseInv, toTester' = toTester, tester' = tester, tx' = tx \/ ~tx'.waitFC
  PROVE  ResponseInv'
<1>1. Awaited(toTester', tx')
  BY DEF ResponseInv, Awaited
<1>2. \A d : Received(toTester, tx, tester, d) => Received(toTester', tx', tester, d)
  BY DEF Received
<1>. QED BY <1>1, <1>2 DEF ResponseInv, Receives, InOrder

\* The unit sends a block.
LEMMA ResponseContinued ==
  ASSUME TpTypes, ResponseInv, ~overwritten, tx.waitFC, NEW bs \in Nat, Continued(bs),
         tester' = tester
  PROVE  ResponseInv'
<1>1. /\ toTester \in Seq(Frames) /\ Stream(toTester) /\ Awaited(toTester, tx)
      /\ tx \in [m : 0..MaxExchanges, len : Nat, sent : Nat, frame : Nat, waitFC : BOOLEAN]
      /\ tx.frame = tx.sent /\ tx.sent \in Nat \ {0} /\ tx.sent < tx.len
      /\ Len(tester.got) \in Nat
  BY DEF TpTypes, TpTypeOK, ResponseInv
<1>. DEFINE k == Released(bs)
            b == [j \in 1..k |-> Numbered(IF tx.sent + j <= tx.len THEN tx.m ELSE 0,
                                          tx.sent + j - 1, tx.frame + j - 1)]
<1>2. k \in Nat
  BY <1>1 DEF Released, Overrun
<1>3. /\ toTester' = toTester \o b
      /\ tx' = IF bs # 0 /\ SentUpTo(k) = tx.len THEN EmptyTx
               ELSE [tx EXCEPT !.sent = SentUpTo(k), !.frame = tx.frame + k,
                               !.waitFC = (bs # 0)]
  BY Zenon DEF Continued
<1>4. ASSUME NEW j \in 1..k
      PROVE  /\ b[j] = PieceOf(tx.m, tx.len, tx.sent + j - 1)
             /\ b[j] \in Frames /\ b[j].t \in Consecutive
  <2>. DEFINE i == tx.sent + j - 1
              m == IF i < tx.len THEN tx.m ELSE 0
  <2>0. k \in Nat /\ j \in Nat /\ j >= 1
    BY <1>2
  <2>. HIDE DEF k
  <2>1. i \in Nat /\ tx.frame + j - 1 = i /\ (tx.sent + j <= tx.len <=> i < tx.len)
    BY <1>1, <2>0
  <2>2. m \in 0..MaxExchanges
    BY <1>1, TpAssumption
  <2>3. b[j] = Numbered(m, i, i)
    BY <2>1
  <2>4. PieceOf(tx.m, tx.len, i) = Numbered(m, i, i)
    BY DEF PieceOf
  <2>. HIDE DEF i, m, b
  <2>5. Numbered(m, i, i) \in Frames /\ Numbered(m, i, i).t \in Consecutive
    BY <2>1, <2>2, FrameTypes
  <2>. QED BY <2>3, <2>4, <2>5 DEF i
<1>. HIDE DEF k
<1>5. b \in Seq(Frames) /\ Len(b) = k
  BY <1>2, <1>4
<1>6. \A j \in 1..k : /\ b[j] = PieceOf(tx.m, tx.len, tx.sent + j - 1)
                      /\ b[j].t \in Consecutive
  BY <1>4
<1>. HIDE DEF b
<1>7. /\ toTester' \in Seq(Frames) /\ Len(toTester') = Len(toTester) + k
      /\ \A p \in 1..Len(toTester) : toTester'[p] = toTester[p]
      /\ \A j \in 1..k : toTester'[Len(toTester) + j] = b[j]
  <2>1. /\ toTester \o b \in Seq(Frames) /\ Len(toTester \o b) = Len(toTester) + Len(b)
        /\ \A p \in 1..Len(toTester) : (toTester \o b)[p] = toTester[p]
        /\ \A j \in 1..Len(b) : (toTester \o b)[Len(toTester) + j] = b[j]
    <3>1. toTester \in Seq(Frames) /\ b \in Seq(Frames)
      BY <1>1, <1>5
    <3>. QED BY <3>1
  <2>. QED BY <1>3, <1>5, <2>1
<1>8. \A j \in 1..k : /\ toTester'[Len(toTester) + j] = PieceOf(tx.m, tx.len, tx.sent + j - 1)
                      /\ toTester'[Len(toTester) + j].t \in Consecutive
  BY <1>6, <1>7
<1>9. tx'.waitFC => tx'.m = tx.m /\ tx'.len = tx.len /\ tx'.sent = tx.sent + k
  <2>1. CASE bs # 0 /\ SentUpTo(k) = tx.len
    BY <1>3, <2>1 DEF EmptyTx
  <2>2. CASE ~(bs # 0 /\ SentUpTo(k) = tx.len)
    <3>1. tx' = [tx EXCEPT !.sent = SentUpTo(k), !.frame = tx.frame + k, !.waitFC = (bs # 0)]
      BY <1>3, <2>2
    <3>2. tx'.m = tx.m /\ tx'.len = tx.len /\ tx'.sent = SentUpTo(k)
      BY <1>1, <3>1
    <3>3. tx'.waitFC <=> bs # 0
      BY <1>1, <3>1
    <3>. QED BY <2>2, <3>2, <3>3 DEF SentUpTo
  <2>. QED BY <2>1, <2>2
<1>10. /\ Stream(toTester') /\ Awaited(toTester', tx')
       /\ \A d \in Nat : Received(toTester, tx, tester, d) => Received(toTester', tx', tester, d)
  <2>1. tx.len \in Nat /\ tx.sent \in Nat \ {0}
    BY <1>1
  <2>2. ASSUME NEW t, t = toTester', NEW z, z = tx'
        PROVE  /\ Stream(t) /\ Awaited(t, z)
               /\ \A y, d : d \in Nat /\ Len(y.got) \in Nat /\ Received(toTester, tx, y, d)
                              => Received(t, z, y, d)
    <3>1. /\ t \in Seq(Frames) /\ Len(t) = Len(toTester) + k
          /\ \A p \in 1..Len(toTester) : t[p] = toTester[p]
      BY <1>7, <2>2
    <3>2. \A j \in 1..k : /\ t[Len(toTester) + j] = PieceOf(tx.m, tx.len, tx.sent + j - 1)
                          /\ t[Len(toTester) + j].t \in Consecutive
      BY <1>8, <2>2
    <3>3. z.waitFC => z.m = tx.m /\ z.len = tx.len /\ z.sent = tx.sent + k
      BY <1>9, <2>2
    <3>. QED BY <1>1, <1>2, <2>1, <3>1, <3>2, <3>3, StreamWithBlock
  <2>. QED BY <1>1, <2>2
<1>. QED BY <1>10 DEF ResponseInv, Receives, InOrder

LEMMA ResponsesSent ==
  ASSUME TpTypes, UnitReceives, ~overwritten => ResponseInv, ~overwritten'
  PROVE  ResponseInv'
<1>. DEFINE f == Head(toUnit)
<1>1. /\ toUnit \in Seq(Frames) /\ toUnit # <<>> /\ tester' = tester /\ f \in Frames
      /\ f.m \in 0..MaxExchanges /\ f.n \in Nat /\ WaitBlocks \in Nat /\ 0 \in 0..MaxExchanges
      /\ ResponseLens \subseteq Nat /\ tx.waitFC \in BOOLEAN
      /\ tx \in [m : 0..MaxExchanges, len : Nat, sent : Nat, frame : Nat, waitFC : BOOLEAN]
  <2>1. toUnit \in Seq(Frames) /\ toUnit # <<>> /\ tester' = tester
    BY DEF UnitReceives, TpTypes
  <2>2. f \in Frames
    BY <2>1, TailOf
  <2>3. f.m \in 0..MaxExchanges /\ f.n \in Nat
    BY <2>2 DEF Frames
  <2>4. tx \in [m : 0..MaxExchanges, len : Nat, sent : Nat, frame : Nat, waitFC : BOOLEAN]
    BY DEF TpTypes, TpTypeOK
  <2>5. WaitBlocks \in Nat /\ 0 \in 0..MaxExchanges /\ ResponseLens \subseteq Nat
    BY TpAssumption
  <2>. QED BY <2>1, <2>2, <2>3, <2>4, <2>5
<1>. HIDE DEF f
<1>2. ASSUME UNCHANGED <<tx, toTester, overwritten>> PROVE ResponseInv'
  BY <1>1, <1>2, ResponseKept
<1>3. ASSUME FlowControlled PROVE ResponseInv'
  <2>1. ~tx.waitFC /\ ~overwritten /\ tx' = [tx EXCEPT !.m = 0, !.len = 2]
        /\ toTester' = Append(toTester, FC(WaitBlocks))
    BY <1>3 DEF FlowControlled
  <2>2. ~tx'.waitFC
    BY <1>1, <2>1
  <2>3. FC(WaitBlocks) \in Frames /\ FC(WaitBlocks).t \notin Consecutive
    BY <1>1, FrameTypes DEF Consecutive
  <2>. QED BY <1>1, <2>1, <2>2, <2>3, ResponseWithOther
<1>4. ASSUME NEW m \in 0..MaxExchanges, NEW n \in Nat, Responded(m, n), overwritten' = overwritten
      PROVE  ResponseInv'
  <2>0. ~EmptyTx.waitFC /\ ~([EmptyTx EXCEPT !.m = m, !.len = 1].waitFC)
    BY DEF EmptyTx
  <2>1. CASE n = 0
    BY <1>1, <1>4, <2>0, <2>1, ResponseKept DEF Responded
  <2>2. CASE n = 1
    <3>1. ~tx'.waitFC /\ toTester' = Append(toTester, SF(m))
      BY <1>4, <2>0, <2>2 DEF Responded
    <3>2. SF(m) \in Frames /\ SF(m).t \notin Consecutive
      BY <2>2, FrameTypes DEF Consecutive
    <3>. QED BY <1>1, <1>4, <3>1, <3>2, ResponseWithOther
  <2>3. CASE n > 1
    <3>1. /\ tx' = [m |-> m, len |-> n, sent |-> 1, frame |-> 1, waitFC |-> TRUE]
          /\ toTester' = Append(toTester, FF(m, n))
      BY <1>4, <2>3 DEF Responded
    <3>2. FF(m, n) \in Frames /\ FF(m, n).t \notin Consecutive
      BY <2>3, FrameTypes DEF Consecutive
    <3>3. tx'.m = m /\ tx'.len = n /\ tx'.sent = 1
      BY <3>1
    <3>. QED BY <1>1, <1>4, <3>1, <3>2, <3>3, ResponseWithOther
  <2>. QED BY <2>1, <2>2, <2>3
<1>5. ASSUME NEW m \in 0..MaxExchanges, Dispatch(m) PROVE ResponseInv'
  BY <1>1, <1>4, <1>5 DEF Dispatch
<1>6. CASE FirstFrame(f)
  BY <1>3, <1>6 DEF FirstFrame
<1>7. CASE NextFrame(f)
  BY <1>2, <1>3, <1>7 DEF NextFrame
<1>8. CASE LastFrame(f)
  BY <1>1, <1>5, <1>8 DEF LastFrame
<1>9. CASE OtherFrame(f)
  BY <1>1, <1>4, <1>5, <1>9 DEF OtherFrame
<1>10. CASE FlowControl(f)
  <2>1. overwritten' = overwritten
    BY <1>10 DEF FlowControl
  <2>2. CASE AwaitsFC /\ Continued(f.n)
    BY <1>1, <2>1, <2>2, ResponseContinued DEF AwaitsFC
  <2>3. CASE tx' = EmptyTx /\ toTester' = toTester
    <3>1. ~tx'.waitFC
      BY <2>3 DEF EmptyTx
    <3>. QED BY <1>1, <2>1, <2>3, <3>1, ResponseKept
  <2>4. CASE UNCHANGED <<tx, toTester>>
    BY <1>2, <2>1, <2>4
  <2>. QED BY <1>10, <2>2, <2>3, <2>4 DEF FlowControl
<1>. QED BY <1>6, <1>7, <1>8, <1>9, <1>10 DEF UnitReceives, f

TesterTypes == [m : 0..MaxExchanges, len : Nat, next : Nat, allowed : Nat, busy : BOOLEAN,
                got : Seq(Pieces), want : Nat, left : Nat, result : Results]

\* The tester begins, goes on or gives up.
LEMMA ResponseAside ==
  ASSUME TpTypes, ResponseInv, UNCHANGED <<toTester, tx>>,
         \/ tester'.got = <<>>
         \/ /\ tester'.got = tester.got /\ tester'.want = tester.want
            /\ tester'.busy = tester.busy
  PROVE  ResponseInv'
<1>1. CASE tester'.got = <<>>
  <2>1. ~Receives(tester') /\ InOrder(tester'.got)
    BY <1>1 DEF Receives, InOrder
  <2>. QED BY <2>1 DEF ResponseInv, InOrder
<1>2. CASE /\ tester'.got = tester.got /\ tester'.want = tester.want
           /\ tester'.busy = tester.busy
  <2>1. \A d : Received(toTester, tx, tester, d) => Received(toTester, tx, tester', d)
    BY <1>2 DEF Received
  <2>2. Receives(tester') => Receives(tester)
    BY <1>2 DEF Receives
  <2>. QED BY <1>2, <2>1, <2>2 DEF ResponseInv, InOrder
<1>. QED BY <1>1, <1>2

LEMMA ResponseTaken ==
  ASSUME TpTypes, ResponseInv, toTester # <<>>, toTester' = Tail(toTester), tx' = tx,
         InOrder(tester'.got),
         Receives(tester') => \E d \in Nat : Received(toTester', tx, tester', d)
  PROVE  ResponseInv'
<1>1. Stream(toTester') /\ Awaited(toTester', tx')
  BY StreamOfTail, AwaitedOfTail DEF TpTypes, ResponseInv
<1>. QED BY <1>1 DEF ResponseInv, InOrder

\* The piece the tester takes is the next one of the response it receives.
LEMMA TakenInPlace ==
  ASSUME TpTypes, ResponseInv, toTester # <<>>, Receives(tester),
         toTester[1].t = "CF", toTester[1].n = Len(tester.got) % SnLimit
  PROVE  /\ toTester[1].m = tester.got[1].m /\ toTester[1].i = Len(tester.got)
         /\ Received(toTester, tx, tester, 0)
<1>. DEFINE n == Len(tester.got)
            f == toTester[1]
<1>0. /\ n \in Nat /\ 1 \in 1..Len(toTester) /\ SnLimit \in Nat \ {0} /\ n < tester.want
      /\ Run(toTester, 1, 1) /\ toTester \in Seq(Frames)
  <2>1. toTester \in Seq(Frames) /\ tester.got \in Seq(Pieces)
    BY DEF TpTypes, TpTypeOK
  <2>2. 1 \in 1..Len(toTester) /\ n \in Nat
    BY <2>1, TailOf
  <2>3. n < tester.want
    BY DEF TpTypes, Receives
  <2>. QED BY <2>1, <2>2, <2>3, TpAssumption DEF Run, Consecutive
<1>1. PICK d \in Nat : Received(toTester, tx, tester, d)
  BY DEF ResponseInv
<1>2. f = PieceOf(tester.got[1].m, tester.want, n + d + 1 - 1)
  BY <1>0, <1>1 DEF Received
<1>9. f.n = n % SnLimit /\ f.t = "CF"
  OBVIOUS
<1>. HIDE DEF n, f
<1>3. n + d + 1 - 1 = n + d
  BY <1>0, <1>1
<1>4. n + d < SnLimit
  BY <1>2, <1>3, <1>9 DEF PieceOf, Numbered, Frame
<1>5. f.n = n + d /\ f.i = n + d /\ f.m = IF n + d < tester.want THEN tester.got[1].m ELSE 0
  BY <1>2, <1>3, <1>4 DEF PieceOf, Numbered, CF, Frame
<1>6. n % SnLimit = n
  <2>1. n \in 0..(SnLimit - 1)
    BY <1>0, <1>1, <1>4
  <2>. QED BY <1>0, <2>1
<1>7. d = 0
  BY <1>0, <1>1, <1>5, <1>6, <1>9
<1>8. n + d = n
  BY <1>0, <1>7
<1>. QED BY <1>0, <1>1, <1>5, <1>7, <1>8 DEF n, f

LEMMA ResponsesTaken ==
  ASSUME TpTypes, TesterReceives, ~overwritten => ResponseInv, ~overwritten'
  PROVE  ResponseInv'
<1>. DEFINE f == Head(toTester)
<1>0. /\ toTester \in Seq(Frames) /\ toTester # <<>> /\ toTester' = Tail(toTester) /\ tx' = tx
      /\ ResponseInv /\ tester \in TesterTypes
  BY DEF TesterReceives, TpTypes, TpTypeOK, TesterTypes
<1>1. /\ f = toTester[1] /\ f \in Frames /\ f.n \in Nat
      /\ Stream(toTester) /\ Awaited(toTester, tx) /\ InOrder(tester.got)
  <2>1. f = toTester[1] /\ f \in Frames
    BY <1>0, TailOf
  <2>. QED BY <1>0, <2>1 DEF Frames, ResponseInv
<1>. HIDE DEF f
<1>2. ASSUME f.t \notin Consecutive \cup {"FF"}, InOrder(tester'.got) PROVE ResponseInv'
  <2>1. Received(toTester', tx, tester', 0)
    BY <1>0, <1>1, <1>2, ReceivedOther
  <2>. QED BY <1>0, <1>2, <2>1, ResponseTaken
<1>3. ASSUME ~Receives(tester'), InOrder(tester'.got) PROVE ResponseInv'
  BY <1>0, <1>3, ResponseTaken
<1>4. CASE TesterFlow(f)
  <2>1. tester'.got = tester.got
    <3>1. tester' = tester \/ tester' = [tester EXCEPT !.allowed = f.n]
      BY <1>4 DEF TesterFlow
    <3>. QED BY <1>0, <3>1 DEF TesterTypes
  <2>2. f.t \notin Consecutive \cup {"FF"}
    BY <1>4 DEF TesterFlow, Consecutive
  <2>. QED BY <1>1, <1>2, <2>1, <2>2
<1>5. CASE TesterSingle(f)
  <2>1. tester'.got = tester.got \/ tester'.got = <<>>
    <3>1. \/ tester' = tester
          \/ tester' = [tester EXCEPT !.busy = FALSE, !.got = <<>>, !.want = 0,
                                      !.result = "single"]
      BY <1>5 DEF TesterSingle
    <3>. QED BY <1>0, <3>1 DEF TesterTypes
  <2>2. f.t \notin Consecutive \cup {"FF"}
    BY <1>5 DEF TesterSingle, Consecutive
  <2>. QED BY <1>1, <1>2, <2>1, <2>2, NothingInOrder
<1>6. CASE TesterFirst(f)
  <2>1. CASE tester.busy /\ RequestSent
    <3>1. PICK bs \in BlockSizes : tester' = Receiving(f, bs)
      BY <1>6, <2>1 DEF TesterFirst
    <3>2. tester'.got = <<[m |-> f.m, i |-> 0]>> /\ tester'.want = f.n
      BY <1>0, <3>1 DEF Receiving, TesterTypes
    <3>3. InOrder(tester'.got)
      BY <3>2 DEF InOrder
    <3>4. toTester[1].t = "FF"
      BY <1>1, <1>6 DEF TesterFirst
    <3>5. Received(toTester', tx, tester', 0)
      BY <1>0, <1>1, <3>2, <3>4, ReceivedFirst
    <3>. QED BY <1>0, <3>3, <3>5, ResponseTaken
  <2>2. CASE ~(tester.busy /\ RequestSent)
    <3>1. tester' = tester /\ ~Receives(tester)
      BY <1>6, <2>2 DEF TesterFirst, Receives, TpTypes
    <3>. QED BY <1>1, <1>3, <3>1
  <2>. QED BY <2>1, <2>2
<1>7. CASE TesterConsecutive(f)
  <2>. DEFINE n == Len(tester.got)
              e == [m |-> f.m, i |-> f.i]
              got == Append(tester.got, e)
  <2>1. CASE ~tester.busy \/ n = 0
    <3>1. tester' = tester
      BY <1>7, <2>1 DEF TesterConsecutive
    <3>2. ~Receives(tester)
      BY <2>1 DEF Receives
    <3>. QED BY <1>1, <1>3, <3>1, <3>2
  <2>2. CASE tester.busy /\ n # 0 /\ (f.t = "none" \/ f.n # n % SnLimit)
    <3>1. tester' = [tester EXCEPT !.busy = FALSE, !.got = <<>>, !.want = 0, !.result = "gap"]
      BY <1>7, <2>2 DEF TesterConsecutive
    <3>2. ~tester'.busy /\ tester'.got = <<>>
      BY <1>0, <3>1 DEF TesterTypes
    <3>. QED BY <1>3, <3>2, NothingInOrder DEF Receives
  <2>3. CASE tester.busy /\ n # 0 /\ f.t # "none" /\ f.n = n % SnLimit
    <3>1. /\ toTester[1].t = "CF" /\ toTester[1].n = n % SnLimit
          /\ tester.got \in Seq(Pieces) /\ n \in Nat \ {0} /\ Receives(tester)
      <4>1. toTester[1].t = "CF" /\ toTester[1].n = n % SnLimit
        BY <1>1, <1>7, <2>3 DEF TesterConsecutive
      <4>2. tester.got \in Seq(Pieces)
        BY <1>0 DEF TesterTypes
      <4>3. n \in Nat \ {0}
        BY <2>3, <4>2
      <4>4. Receives(tester)
        BY <2>3, <4>3 DEF Receives
      <4>. QED BY <4>1, <4>2, <4>3, <4>4
    <3>2. f.m = tester.got[1].m /\ f.i = n /\ Received(toTester, tx, tester, 0)
      BY <1>0, <1>1, <3>1, TakenInPlace
    <3>3. InOrder(got)
      BY <1>1, <3>1, <3>2, PieceInOrder
    <3>4. Len(got) = n + 1 /\ got[1].m = tester.got[1].m
      BY <3>1
    <3>5. tester'.got = got /\ tester'.want = tester.want
      <4>1. CASE n + 1 >= tester.want
        <5>1. tester' = [tester EXCEPT !.got = got, !.busy = FALSE, !.result = "whole"]
          BY <1>7, <2>3, <4>1 DEF TesterConsecutive
        <5>. QED BY <1>0, <5>1 DEF TesterTypes
      <4>2. CASE ~(n + 1 >= tester.want)
        <5>1. \E left : tester' = [tester EXCEPT !.got = got, !.left = left]
          BY <1>7, <2>3, <4>2 DEF TesterConsecutive
        <5>. QED BY <1>0, <5>1 DEF TesterTypes
      <4>. QED BY <4>1, <4>2
    <3>6. toTester[1].t \in Consecutive
      BY <3>1 DEF Consecutive
    <3>. HIDE DEF got, n
    <3>7. Len(tester.got) \in Nat /\ Len(tester'.got) = Len(tester.got) + 1
      BY <3>1, <3>4, <3>5 DEF n
    <3>8. Len(tester'.got) \in Nat /\ Len(tester'.got) + 0 = Len(tester.got) + 0 + 1
      BY ONLY <3>7
    <3>9. tester'.got[1].m = tester.got[1].m /\ tester'.want = tester.want
      BY <3>4, <3>5
    <3>10. Received(toTester', tx, tester', 0)
      BY <1>0, <3>2, <3>6, <3>7, <3>8, <3>9, ReceivedConsecutive
    <3>. QED BY <1>0, <3>3, <3>5, <3>10, ResponseTaken
  <2>. QED BY <2>1, <2>2, <2>3
<1>. QED BY <1>4, <1>5, <1>6, <1>7 DEF TesterReceives, f

\* A frame to the tester is lost.
LEMMA ResponseLost ==
  ASSUME TpTypes, ResponseInv, toTester # <<>>, Losable(Head(toTester)),
         toTester' = Tail(toTester), UNCHANGED <<tx, tester>>
  PROVE  ResponseInv'
<1>0. /\ toTester \in Seq(Frames) /\ Head(toTester) = toTester[1] /\ tester.got \in Seq(Pieces)
      /\ Stream(toTester) /\ Awaited(toTester, tx) /\ InOrder(tester.got)
      /\ toTester[1].t \in {"CF", "FC"} /\ Len(tester.got) \in Nat
  <2>1. toTester \in Seq(Frames) /\ tester.got \in Seq(Pieces)
    BY DEF TpTypes, TpTypeOK
  <2>2. Head(toTester) = toTester[1] /\ Len(tester.got) \in Nat
    BY <2>1, TailOf
  <2>. QED BY <2>1, <2>2 DEF ResponseInv, Losable
<1>1. CASE toTester[1].t = "FC"
  <2>1. toTester[1].t \notin Consecutive \cup {"FF"}
    BY <1>1 DEF Consecutive
  <2>2. Received(toTester', tx, tester', 0)
    BY <1>0, <2>1, ReceivedOther
  <2>. QED BY <1>0, <2>2, ResponseTaken
<1>2. CASE toTester[1].t = "CF"
  <2>1. toTester[1].t \in Consecutive
    BY <1>2 DEF Consecutive
  <2>2. ASSUME NEW d \in Nat, Received(toTester, tx, tester, d)
        PROVE  Received(toTester', tx, tester', d + 1)
    <3>. DEFINE n == Len(tester.got)
    <3>0. d \in Nat /\ n \in Nat
      BY <1>0
    <3>. HIDE DEF n
    <3>1. d + 1 \in Nat /\ n + (d + 1) = n + d + 1
      BY ONLY <3>0
    <3>. USE DEF n
    <3>. QED BY <1>0, <2>1, <2>2, <3>1, ReceivedConsecutive
  <2>3. \A d \in Nat : d + 1 \in Nat
    OBVIOUS
  <2>4. Receives(tester') => \E d \in Nat : Received(toTester', tx, tester', d)
    BY <2>2, <2>3 DEF ResponseInv, Receives
  <2>. QED BY <1>0, <2>4, ResponseTaken
<1>. QED BY <1>0, <1>1, <1>2

----------------------------------------------------------------------------
(* Types.                                                                  *)

RxTypes == [frame : Nat, len : Nat, pieces : Seq(Pieces), waiting : BOOLEAN,
            blocks : 1..WaitBlocks]
TxTypes == [m : 0..MaxExchanges, len : Nat, sent : Nat, frame : Nat, waitFC : BOOLEAN]

FirstsOK(s) == \A p \in 1..Len(s) : s[p].t = "FF" => s[p].i = 0 /\ s[p].n > 1
TxOK(x, over) ==
  /\ x \in TxTypes
  /\ x.waitFC => x.frame = x.sent /\ x.sent \in Nat \ {0} /\ x.len \in Nat \ {0}
  /\ x.waitFC /\ ~over => x.sent < x.len
TesterOK(y) ==
  /\ y \in TesterTypes
  /\ Len(y.got) > 0 /\ y.busy => y.next >= y.len /\ Len(y.got) < y.want

LEMMA TypesByParts ==
  TpTypes <=> /\ rx \in RxTypes /\ TxOK(tx, overwritten) /\ TesterOK(tester)
              /\ served \in Seq(Pieces) /\ overwritten \in BOOLEAN
              /\ losses \in 0..MaxLosses /\ givenUp \in 0..MaxGivenUp
              /\ toUnit \in Seq(Frames) /\ toTester \in Seq(Frames) /\ FirstsOK(toTester)
  BY DEF TpTypes, TpTypeOK, TxOK, TesterOK, FirstsOK, RequestSent, RxTypes, TxTypes, TesterTypes

TypesByPartsNext ==
  /\ rx' \in RxTypes /\ TxOK(tx', overwritten') /\ TesterOK(tester')
  /\ served' \in Seq(Pieces) /\ overwritten' \in BOOLEAN
  /\ losses' \in 0..MaxLosses /\ givenUp' \in 0..MaxGivenUp
  /\ toUnit' \in Seq(Frames) /\ toTester' \in Seq(Frames) /\ FirstsOK(toTester')

LEMMA NextTypesByParts == TypesByPartsNext => TpTypes'
  BY DEF TypesByPartsNext, TpTypes, TpTypeOK, TxOK, TesterOK, FirstsOK, RequestSent,
         RxTypes, TxTypes, TesterTypes

LEMMA EmptyTypes ==
  /\ EmptyRx \in RxTypes /\ EmptyTx \in TxTypes /\ ~EmptyTx.waitFC /\ TesterOK(TesterIdle)
  /\ 0 \in 0..MaxExchanges /\ 0 \in 0..MaxLosses /\ 0 \in 0..MaxGivenUp
<1>1. /\ WaitBlocks \in Nat \ {0} /\ 0 \in 0..MaxExchanges /\ 0 \in 0..MaxLosses
      /\ 0 \in 0..MaxGivenUp
  BY TpAssumption
<1>2. EmptyRx \in RxTypes
  BY <1>1 DEF EmptyRx, RxTypes
<1>3. EmptyTx \in TxTypes /\ ~EmptyTx.waitFC
  BY <1>1 DEF EmptyTx, TxTypes
<1>4. TesterIdle \in TesterTypes /\ ~TesterIdle.busy
  BY <1>1 DEF TesterIdle, TesterTypes, Results
<1>. QED BY <1>1, <1>2, <1>3, <1>4 DEF TesterOK

LEMMA TpTypesInit == TpInit => TpTypes
<1>. SUFFICES ASSUME TpInit PROVE TpTypes
  OBVIOUS
<1>1. TxOK(tx, overwritten)
  BY EmptyTypes DEF TpInit, TxOK
<1>2. FirstsOK(toTester) /\ toTester \in Seq(Frames) /\ toUnit \in Seq(Frames)
  BY DEF TpInit, FirstsOK
<1>3. rx \in RxTypes /\ TesterOK(tester) /\ losses \in 0..MaxLosses /\ givenUp \in 0..MaxGivenUp
  BY EmptyTypes DEF TpInit
<1>4. served \in Seq(Pieces)
  BY DEF TpInit
<1>5. overwritten \in BOOLEAN
  BY Zenon DEF TpInit
<1>. QED BY <1>1, <1>2, <1>3, <1>4, <1>5, TypesByParts

LEMMA FirstsWithFrame ==
  ASSUME NEW s \in Seq(Frames), FirstsOK(s), NEW f \in Frames, f.t = "FF" => f.i = 0 /\ f.n > 1
  PROVE  Append(s, f) \in Seq(Frames) /\ FirstsOK(Append(s, f))
<1>. DEFINE t == Append(s, f)
<1>1. /\ t \in Seq(Frames) /\ Len(s) \in Nat /\ Len(t) = Len(s) + 1 /\ t[Len(s) + 1] = f
      /\ \A p \in 1..Len(s) : t[p] = s[p]
  BY AppendOf
<1>. HIDE DEF t
<1>2. FirstsOK(t)
  BY <1>1 DEF FirstsOK
<1>. QED BY <1>1, <1>2 DEF t

\* The unit's flow control frame.
LEMMA FlowControlledTypes ==
  ASSUME TpTypes, FlowControlled
  PROVE  /\ TxOK(tx', overwritten') /\ overwritten' \in BOOLEAN
         /\ toTester' \in Seq(Frames) /\ FirstsOK(toTester')
<1>1. /\ TxOK(tx, overwritten) /\ toTester \in Seq(Frames) /\ FirstsOK(toTester)
      /\ overwritten \in BOOLEAN
  BY TypesByParts
<1>2. /\ tx' = [tx EXCEPT !.m = 0, !.len = 2] /\ toTester' = Append(toTester, FC(WaitBlocks))
      /\ overwritten' = (overwritten \/ tx.waitFC)
  BY DEF FlowControlled
<1>3. overwritten' \in BOOLEAN
  BY <1>1, <1>2, Zenon DEF TxOK, TxTypes
<1>4. /\ tx' \in TxTypes /\ tx'.frame = tx.frame /\ tx'.sent = tx.sent /\ tx'.len = 2
      /\ tx'.waitFC = tx.waitFC
  BY <1>1, <1>2, EmptyTypes DEF TxOK, TxTypes
<1>5. TxOK(tx', overwritten')
  <2>1. ~(tx'.waitFC /\ ~overwritten')
    BY <1>2, <1>4
  <2>2. tx'.waitFC => tx'.frame = tx'.sent /\ tx'.sent \in Nat \ {0} /\ tx'.len \in Nat \ {0}
    BY <1>1, <1>4 DEF TxOK
  <2>. QED BY <1>4, <2>1, <2>2 DEF TxOK
<1>6. FC(WaitBlocks) \in Frames /\ FC(WaitBlocks).t # "FF"
  BY EmptyTypes, TpAssumption, FrameTypes
<1>. QED BY <1>1, <1>2, <1>3, <1>5, <1>6, FirstsWithFrame

LEMMA RespondedTypes ==
  ASSUME TpTypes, NEW m \in 0..MaxExchanges, NEW n \in Nat, Responded(m, n)
  PROVE  /\ \A over : TxOK(tx', over)
         /\ toTester' \in Seq(Frames) /\ FirstsOK(toTester')
<1>1. toTester \in Seq(Frames) /\ FirstsOK(toTester)
  BY TypesByParts
<1>2. CASE n = 0
  <2>1. tx' = EmptyTx /\ toTester' = toTester
    BY <1>2 DEF Responded
  <2>. QED BY <1>1, <2>1, EmptyTypes DEF TxOK
<1>3. CASE n = 1
  <2>1. tx' = [EmptyTx EXCEPT !.m = m, !.len = 1] /\ toTester' = Append(toTester, SF(m))
    BY <1>3 DEF Responded
  <2>2. tx' \in TxTypes /\ ~tx'.waitFC
    BY <2>1, EmptyTypes DEF TxTypes
  <2>3. SF(m) \in Frames /\ SF(m).t # "FF"
    BY FrameTypes
  <2>. QED BY <1>1, <2>1, <2>2, <2>3, FirstsWithFrame DEF TxOK
<1>4. CASE n > 1
  <2>1. /\ tx' = [m |-> m, len |-> n, sent |-> 1, frame |-> 1, waitFC |-> TRUE]
        /\ toTester' = Append(toTester, FF(m, n))
    BY <1>4 DEF Responded
  <2>2. /\ tx' \in TxTypes /\ tx'.frame = tx'.sent /\ tx'.sent = 1 /\ tx'.len = n
    BY <2>1 DEF TxTypes
  <2>3. FF(m, n) \in Frames /\ FF(m, n).i = 0 /\ FF(m, n).n = n
    BY FrameTypes DEF FF, Frame
  <2>4. \A over : TxOK(tx', over)
    BY <1>4, <2>2 DEF TxOK
  <2>. QED BY <1>1, <1>4, <2>1, <2>3, <2>4, FirstsWithFrame
<1>. QED BY <1>2, <1>3, <1>4

LEMMA ContinuedTypes ==
  ASSUME TpTypes, tx.waitFC, NEW bs \in Nat, Continued(bs)
  PROVE  /\ \A over : TxOK(tx', over)
         /\ toTester' \in Seq(Frames) /\ FirstsOK(toTester')
<1>. DEFINE k == Released(bs)
            b == [j \in 1..k |-> Numbered(IF tx.sent + j <= tx.len THEN tx.m ELSE 0,
                                          tx.sent + j - 1, tx.frame + j - 1)]
<1>1. /\ toTester \in Seq(Frames) /\ FirstsOK(toTester) /\ tx \in TxTypes
      /\ tx.m \in 0..MaxExchanges /\ tx.len \in Nat \ {0} /\ tx.sent \in Nat \ {0}
      /\ tx.frame = tx.sent
  BY TypesByParts DEF TxOK, TxTypes
<1>2. k \in Nat /\ SentUpTo(k) \in Nat
  BY <1>1 DEF Released, Overrun, SentUpTo
<1>3. /\ toTester' = toTester \o b
      /\ tx' = IF bs # 0 /\ SentUpTo(k) = tx.len THEN EmptyTx
               ELSE [tx EXCEPT !.sent = SentUpTo(k), !.frame = tx.frame + k,
                               !.waitFC = (bs # 0)]
  BY Zenon DEF Continued
<1>4. ASSUME NEW j \in 1..k PROVE b[j] \in Frames /\ b[j].t # "FF"
  <2>. DEFINE i == tx.sent + j - 1
              m == IF tx.sent + j <= tx.len THEN tx.m ELSE 0
  <2>0. k \in Nat /\ j \in Nat /\ j >= 1
    BY <1>2
  <2>. HIDE DEF k
  <2>1. i \in Nat /\ tx.frame + j - 1 = i
    BY <1>1, <2>0
  <2>2. m \in 0..MaxExchanges
    BY <1>1, EmptyTypes
  <2>3. b[j] = Numbered(m, i, i)
    BY <2>1
  <2>. HIDE DEF i, m, b
  <2>4. Numbered(m, i, i) \in Frames /\ Numbered(m, i, i).t \in Consecutive
    BY <2>1, <2>2, FrameTypes
  <2>. QED BY <2>3, <2>4 DEF Consecutive
<1>. HIDE DEF k
<1>5. b \in Seq(Frames) /\ Len(b) = k /\ \A j \in 1..k : b[j].t # "FF"
  BY <1>2, <1>4
<1>. HIDE DEF b
<1>6. toTester' \in Seq(Frames) /\ FirstsOK(toTester')
  <2>0. toTester \in Seq(Frames) /\ b \in Seq(Frames)
    BY <1>1, <1>5
  <2>1. /\ toTester \o b \in Seq(Frames) /\ Len(toTester \o b) = Len(toTester) + Len(b)
        /\ \A p \in 1..Len(toTester) : (toTester \o b)[p] = toTester[p]
        /\ \A j \in 1..Len(b) : (toTester \o b)[Len(toTester) + j] = b[j]
    BY <2>0
  <2>. DEFINE t == toTester \o b
  <2>2. /\ Len(toTester) \in Nat /\ t \in Seq(Frames) /\ Len(t) = Len(toTester) + k
        /\ \A p \in 1..Len(toTester) : t[p] = toTester[p]
        /\ \A j \in 1..k : t[Len(toTester) + j] = b[j]
    BY <1>1, <1>5, <2>1
  <2>. HIDE DEF t
  <2>3. ASSUME NEW p \in 1..Len(t), t[p].t = "FF" PROVE t[p].i = 0 /\ t[p].n > 1
    <3>1. CASE p \in 1..Len(toTester)
      BY <1>1, <2>2, <2>3, <3>1 DEF FirstsOK
    <3>2. CASE p \notin 1..Len(toTester)
      <4>1. p - Len(toTester) \in 1..k /\ p = Len(toTester) + (p - Len(toTester))
        BY <1>2, <2>2, <3>2
      <4>. QED BY <1>5, <2>2, <2>3, <4>1
    <3>. QED BY <3>1, <3>2
  <2>4. FirstsOK(t) /\ t \in Seq(Frames)
    BY <2>2, <2>3 DEF FirstsOK
  <2>. QED BY <1>3, <2>4 DEF t
<1>7. CASE bs # 0 /\ SentUpTo(k) = tx.len
  BY <1>3, <1>6, <1>7, EmptyTypes DEF TxOK
<1>8. CASE ~(bs # 0 /\ SentUpTo(k) = tx.len)
  <2>1. tx' = [tx EXCEPT !.sent = SentUpTo(k), !.frame = tx.frame + k, !.waitFC = (bs # 0)]
    BY <1>3, <1>8
  <2>2. tx.frame + k \in Nat
    BY <1>1, <1>2
  <2>3. /\ tx' \in TxTypes /\ tx'.len = tx.len /\ tx'.sent = SentUpTo(k)
        /\ tx'.frame = tx.frame + k
    BY <1>1, <1>2, <2>1, <2>2 DEF TxTypes
  <2>4. tx'.waitFC <=> bs # 0
    BY <1>1, <2>1 DEF TxTypes
  <2>5. bs # 0 => SentUpTo(k) = tx.sent + k /\ SentUpTo(k) < tx.len
    BY <1>1, <1>2, <1>8 DEF SentUpTo
  <2>6. \A over : TxOK(tx', over)
    BY <1>1, <1>2, <2>3, <2>4, <2>5 DEF TxOK
  <2>. QED BY <1>6, <2>6
<1>. QED BY <1>7, <1>8

LEMMA UnitTypes ==
  ASSUME TpTypes, UnitReceives
  PROVE  TpTypes'
<1>. DEFINE f == Head(toUnit)
<1>1. /\ rx \in RxTypes /\ TxOK(tx, overwritten) /\ TesterOK(tester) /\ served \in Seq(Pieces)
      /\ overwritten \in BOOLEAN /\ losses \in 0..MaxLosses /\ givenUp \in 0..MaxGivenUp
      /\ toUnit \in Seq(Frames) /\ toTester \in Seq(Frames) /\ FirstsOK(toTester)
  BY TypesByParts
<1>2. /\ toUnit # <<>> /\ toUnit' = Tail(toUnit)
      /\ tester' = tester /\ losses' = losses /\ givenUp' = givenUp
  BY DEF UnitReceives
<1>3. f \in Frames /\ toUnit' \in Seq(Frames)
  BY <1>1, <1>2, TailOf
<1>4. /\ f.m \in 0..MaxExchanges /\ f.i \in Nat /\ f.n \in Nat
      /\ [m |-> f.m, i |-> f.i] \in Pieces /\ [m |-> f.m, i |-> 0] \in Pieces
  BY <1>3 DEF Frames, Pieces
<1>. HIDE DEF f
<1>5. WaitBlocks \in 1..WaitBlocks /\ ResponseLens \subseteq Nat /\ WaitBlocks \in Nat
  BY TpAssumption
<1>6. ASSUME rx' \in RxTypes, served' \in Seq(Pieces), overwritten' \in BOOLEAN,
             TxOK(tx', overwritten'), toTester' \in Seq(Frames), FirstsOK(toTester')
      PROVE  TpTypes'
  BY <1>1, <1>2, <1>3, <1>6, NextTypesByParts DEF TypesByPartsNext
<1>7. ASSUME FlowControlled, rx' \in RxTypes, served' = served PROVE TpTypes'
  BY <1>1, <1>6, <1>7, FlowControlledTypes
<1>8. ASSUME NEW m \in 0..MaxExchanges, NEW n \in Nat, Responded(m, n), rx' = EmptyRx,
             served' \in Seq(Pieces), overwritten' = overwritten
      PROVE  TpTypes'
  BY <1>1, <1>6, <1>8, RespondedTypes, EmptyTypes
<1>9. ASSUME NEW m \in 0..MaxExchanges, Dispatch(m), served' \in Seq(Pieces) PROVE TpTypes'
  BY <1>5, <1>8, <1>9 DEF Dispatch
<1>10. CASE FirstFrame(f)
  <2>1. Reception(f) \in RxTypes
    <3>. DEFINE first == <<[m |-> f.m, i |-> 0]>>
    <3>1. first \in Seq(Pieces)
      BY <1>4
    <3>. HIDE DEF first
    <3>2. [EmptyRx EXCEPT !.len = f.n, !.pieces = first, !.waiting = TRUE, !.frame = 1] \in RxTypes
      BY <1>4, <3>1, EmptyTypes DEF RxTypes
    <3>. QED BY <3>2 DEF Reception, first
  <2>. QED BY <1>7, <1>10, <2>1 DEF FirstFrame
<1>11. CASE NextFrame(f)
  <2>1. Blocks(rx.blocks = 1) \in 1..WaitBlocks
    BY <1>1, <1>5 DEF Blocks, RxTypes
  <2>2. rx' \in RxTypes
    <3>1. Append(rx.pieces, [m |-> f.m, i |-> f.i]) \in Seq(Pieces) /\ rx.frame + 1 \in Nat
      BY <1>1, <1>4 DEF RxTypes
    <3>2. rx' = [rx EXCEPT !.frame = rx.frame + 1,
                           !.pieces = Append(rx.pieces, [m |-> f.m, i |-> f.i]),
                           !.blocks = Blocks(rx.blocks = 1)]
      BY <1>11, Zenon DEF NextFrame
    <3>. QED BY <1>1, <2>1, <3>1, <3>2 DEF RxTypes
  <2>3. served' = served /\ (FlowControlled \/ UNCHANGED <<tx, toTester, overwritten>>)
    BY <1>11 DEF NextFrame
  <2>4. CASE UNCHANGED <<tx, toTester, overwritten>>
    BY <1>1, <1>6, <2>2, <2>3, <2>4
  <2>. QED BY <1>7, <2>2, <2>3, <2>4
<1>12. CASE LastFrame(f)
  <2>1. served' \in Seq(Pieces)
    BY <1>1, <1>4, <1>12 DEF LastFrame, RxTypes
  <2>. QED BY <1>4, <1>9, <1>12, <2>1 DEF LastFrame
<1>13. CASE OtherFrame(f)
  <2>1. served' = served
    BY <1>13 DEF OtherFrame
  <2>. QED BY <1>1, <1>4, <1>8, <1>9, <1>13, <2>1, EmptyTypes DEF OtherFrame
<1>14. CASE FlowControl(f)
  <2>1. rx' = EmptyRx /\ served' = served /\ overwritten' = overwritten
    BY <1>14 DEF FlowControl
  <2>2. ASSUME TxOK(tx', overwritten'), toTester' \in Seq(Frames), FirstsOK(toTester')
        PROVE  TpTypes'
    BY <1>1, <1>6, <2>1, <2>2, EmptyTypes
  <2>3. CASE AwaitsFC /\ Continued(f.n)
    BY <1>4, <2>2, <2>3, ContinuedTypes DEF AwaitsFC
  <2>4. CASE tx' = EmptyTx /\ toTester' = toTester
    BY <1>1, <2>2, <2>4, EmptyTypes DEF TxOK
  <2>5. CASE UNCHANGED <<tx, toTester>>
    BY <1>1, <2>1, <2>2, <2>5
  <2>. QED BY <1>14, <2>3, <2>4, <2>5 DEF FlowControl
<1>. QED BY <1>10, <1>11, <1>12, <1>13, <1>14 DEF UnitReceives, f

\* What the tester does to itself and to the frames it sends.
LEMMA TesterTypesKept ==
  ASSUME TpTypes, UNCHANGED <<rx, tx, served, overwritten, losses, givenUp>>,
         TesterOK(tester'), toUnit' \in Seq(Frames),
         toTester' = toTester \/ (toTester # <<>> /\ toTester' = Tail(toTester))
  PROVE  TpTypes'
<1>1. /\ rx \in RxTypes /\ TxOK(tx, overwritten) /\ served \in Seq(Pieces)
      /\ overwritten \in BOOLEAN /\ losses \in 0..MaxLosses /\ givenUp \in 0..MaxGivenUp
      /\ toTester \in Seq(Frames) /\ FirstsOK(toTester)
  BY TypesByParts
<1>2. toTester' \in Seq(Frames) /\ FirstsOK(toTester')
  <2>1. CASE toTester' = toTester
    BY <1>1, <2>1
  <2>2. CASE toTester # <<>> /\ toTester' = Tail(toTester)
    <3>. DEFINE t == Tail(toTester)
    <3>1. /\ t \in Seq(Frames) /\ Len(toTester) \in Nat /\ Len(t) = Len(toTester) - 1
          /\ \A p \in 1..Len(t) : t[p] = toTester[p + 1]
      BY <1>1, <2>2, TailOf
    <3>. HIDE DEF t
    <3>2. ASSUME NEW p \in 1..Len(t) PROVE t[p].t = "FF" => t[p].i = 0 /\ t[p].n > 1
      <4>1. p + 1 \in 1..Len(toTester) /\ t[p] = toTester[p + 1]
        BY <3>1
      <4>. QED BY <1>1, <4>1 DEF FirstsOK
    <3>3. FirstsOK(t)
      BY <3>2 DEF FirstsOK
    <3>. QED BY <2>2, <3>1, <3>3 DEF t
  <2>. QED BY <2>1, <2>2
<1>. QED BY <1>1, <1>2, NextTypesByParts DEF TypesByPartsNext

LEMMA TesterReceivesTypes ==
  ASSUME TpTypes, TesterReceives
  PROVE  TpTypes'
<1>. DEFINE f == Head(toTester)
<1>1. /\ TesterOK(tester) /\ tester \in TesterTypes /\ toUnit \in Seq(Frames)
      /\ toTester \in Seq(Frames) /\ FirstsOK(toTester)
  BY TypesByParts DEF TesterOK
<1>2. /\ toTester # <<>> /\ toTester' = Tail(toTester)
      /\ UNCHANGED <<rx, tx, served, overwritten, losses, givenUp>>
  BY DEF TesterReceives
<1>3. /\ f \in Frames /\ f.m \in 0..MaxExchanges /\ f.i \in Nat /\ f.n \in Nat
      /\ (f.t = "FF" => f.n > 1)
      /\ [m |-> f.m, i |-> f.i] \in Pieces /\ [m |-> f.m, i |-> 0] \in Pieces
  <2>1. f = toTester[1] /\ 1 \in 1..Len(toTester) /\ f \in Frames
    BY <1>1, <1>2, TailOf
  <2>. QED BY <1>1, <2>1 DEF Frames, Pieces, FirstsOK
<1>. HIDE DEF f
<1>4. ASSUME TesterOK(tester'), toUnit' = toUnit PROVE TpTypes'
  BY <1>1, <1>2, <1>4, TesterTypesKept
<1>5. ASSUME TesterOK(tester'), NEW bs \in BlockSizes, toUnit' = Append(toUnit, FC(bs))
      PROVE  TpTypes'
  <2>1. bs \in Nat
    BY TpAssumption
  <2>2. FC(bs) \in Frames
    BY <2>1, EmptyTypes, FrameTypes
  <2>. QED BY <1>1, <1>2, <1>5, <2>2, AppendOf, TesterTypesKept
<1>6. CASE TesterFlow(f)
  <2>1. toUnit' = toUnit /\ (tester' = tester \/ tester' = [tester EXCEPT !.allowed = f.n])
    BY <1>6 DEF TesterFlow
  <2>2. TesterOK(tester')
    BY <1>1, <1>3, <2>1 DEF TesterOK, TesterTypes
  <2>. QED BY <1>4, <2>1, <2>2
<1>7. CASE TesterSingle(f)
  <2>1. /\ toUnit' = toUnit
        /\ \/ tester' = tester
           \/ tester' = [tester EXCEPT !.busy = FALSE, !.got = <<>>, !.want = 0,
                                       !.result = "single"]
    BY <1>7 DEF TesterSingle
  <2>2. CASE tester' = [tester EXCEPT !.busy = FALSE, !.got = <<>>, !.want = 0,
                                      !.result = "single"]
    <3>0. "single" \in Results /\ <<>> \in Seq(Pieces)
      BY DEF Results
    <3>1. tester' \in TesterTypes /\ ~tester'.busy
      BY <1>1, <2>2, <3>0 DEF TesterTypes
    <3>. QED BY <1>4, <2>1, <3>1 DEF TesterOK
  <2>. QED BY <1>1, <1>4, <2>1, <2>2
<1>8. CASE TesterFirst(f)
  <2>1. CASE tester.busy /\ RequestSent
    <3>1. PICK bs \in BlockSizes : tester' = Receiving(f, bs) /\ toUnit' = Append(toUnit, FC(bs))
      BY <1>8, <2>1 DEF TesterFirst
    <3>2. tester' = [tester EXCEPT !.got = <<[m |-> f.m, i |-> 0]>>, !.want = f.n, !.left = bs]
      BY <3>1 DEF Receiving
    <3>3. <<[m |-> f.m, i |-> 0]>> \in Seq(Pieces) /\ bs \in Nat
      BY <1>3, TpAssumption
    <3>4. /\ tester' \in TesterTypes /\ tester'.got = <<[m |-> f.m, i |-> 0]>>
          /\ tester'.want = f.n /\ tester'.next = tester.next /\ tester'.len = tester.len
      BY <1>1, <1>3, <3>2, <3>3 DEF TesterTypes
    <3>5. Len(tester'.got) = 1 /\ f.n > 1
      BY <1>3, <1>8, <3>4 DEF TesterFirst
    <3>6. TesterOK(tester')
      BY <2>1, <3>4, <3>5 DEF TesterOK, RequestSent
    <3>. QED BY <1>5, <3>1, <3>6
  <2>2. CASE ~(tester.busy /\ RequestSent)
    BY <1>1, <1>4, <1>8, <2>2 DEF TesterFirst
  <2>. QED BY <2>1, <2>2
<1>9. CASE TesterConsecutive(f)
  <2>. DEFINE n == Len(tester.got)
              got == Append(tester.got, [m |-> f.m, i |-> f.i])
  <2>1. CASE ~tester.busy \/ n = 0
    BY <1>1, <1>4, <1>9, <2>1 DEF TesterConsecutive
  <2>2. CASE tester.busy /\ n # 0 /\ (f.t = "none" \/ f.n # n % SnLimit)
    <3>1. /\ tester' = [tester EXCEPT !.busy = FALSE, !.got = <<>>, !.want = 0, !.result = "gap"]
          /\ toUnit' = toUnit
      BY <1>9, <2>2 DEF TesterConsecutive
    <3>0. "gap" \in Results /\ <<>> \in Seq(Pieces)
      BY DEF Results
    <3>2. tester' \in TesterTypes /\ ~tester'.busy
      BY <1>1, <3>0, <3>1 DEF TesterTypes
    <3>. QED BY <1>4, <3>1, <3>2 DEF TesterOK
  <2>3. CASE tester.busy /\ n # 0 /\ f.t # "none" /\ f.n = n % SnLimit
    <3>1. /\ got \in Seq(Pieces) /\ Len(got) = n + 1 /\ n \in Nat \ {0} /\ tester.want \in Nat
          /\ tester.next >= tester.len
      <4>1. tester.got \in Seq(Pieces) /\ tester.want \in Nat
        BY <1>1 DEF TesterTypes
      <4>2. got \in Seq(Pieces) /\ Len(got) = n + 1
        BY <1>3, <4>1
      <4>3. n \in Nat \ {0}
        BY <2>3, <4>1
      <4>. QED BY <1>1, <2>3, <4>1, <4>2, <4>3 DEF TesterOK
    <3>. HIDE DEF got
    <3>2. CASE n + 1 >= tester.want
      <4>1. /\ tester' = [tester EXCEPT !.got = got, !.busy = FALSE, !.result = "whole"]
            /\ toUnit' = toUnit
        BY <1>9, <2>3, <3>2 DEF TesterConsecutive, got
      <4>2. tester' \in TesterTypes /\ ~tester'.busy
        BY <1>1, <3>1, <4>1 DEF TesterTypes, Results
      <4>. QED BY <1>4, <4>1, <4>2 DEF TesterOK
    <3>3. ASSUME ~(n + 1 >= tester.want), NEW left \in Nat,
                 tester' = [tester EXCEPT !.got = got, !.left = left]
          PROVE  TesterOK(tester')
      <4>1. /\ tester' \in TesterTypes /\ tester'.got = got /\ tester'.want = tester.want
            /\ tester'.next = tester.next /\ tester'.len = tester.len
        BY <1>1, <3>1, <3>3 DEF TesterTypes
      <4>2. Len(got) < tester.want
        BY <3>1, <3>3
      <4>. QED BY <3>1, <4>1, <4>2 DEF TesterOK
    <3>4. CASE ~(n + 1 >= tester.want) /\ tester.left = 1
      <4>1. PICK bs \in BlockSizes : /\ tester' = [tester EXCEPT !.got = got, !.left = bs]
                                     /\ toUnit' = Append(toUnit, FC(bs))
        BY <1>9, <2>3, <3>4 DEF TesterConsecutive, got
      <4>2. bs \in Nat
        BY TpAssumption
      <4>. QED BY <1>5, <3>3, <3>4, <4>1, <4>2
    <3>5. CASE ~(n + 1 >= tester.want) /\ tester.left # 1
      <4>. DEFINE left == IF tester.left = 0 THEN 0 ELSE tester.left - 1
      <4>1. /\ tester' = [tester EXCEPT !.got = got, !.left = left]
            /\ toUnit' = toUnit
        BY <1>9, <2>3, <3>5 DEF TesterConsecutive, got
      <4>2. left \in Nat
        BY <1>1 DEF TesterTypes
      <4>. HIDE DEF left
      <4>. QED BY <1>4, <3>3, <3>5, <4>1, <4>2
    <3>. QED BY <3>2, <3>4, <3>5
  <2>. QED BY <2>1, <2>2, <2>3
<1>. QED BY <1>6, <1>7, <1>8, <1>9 DEF TesterReceives, f

LEMMA TpTypesStep == TpTypes /\ [TpNext]_tpVars => TpTypes'
<1>. SUFFICES ASSUME TpTypes, [TpNext]_tpVars PROVE TpTypes'
  OBVIOUS
<1>1. /\ TesterOK(tester) /\ tester \in TesterTypes /\ toUnit \in Seq(Frames)
      /\ rx \in RxTypes /\ TxOK(tx, overwritten) /\ served \in Seq(Pieces)
      /\ overwritten \in BOOLEAN /\ losses \in 0..MaxLosses /\ givenUp \in 0..MaxGivenUp
      /\ toTester \in Seq(Frames) /\ FirstsOK(toTester)
  BY TypesByParts DEF TesterOK
<1>2. ASSUME NEW n \in RequestLens, TesterSends(n) PROVE TpTypes'
  <2>. DEFINE m == tester.m + 1
  <2>1. m \in 0..MaxExchanges /\ n \in Nat
    <3>1. tester.m \in 0..MaxExchanges /\ tester.m < MaxExchanges
      BY <1>1, <1>2 DEF TesterSends, TesterTypes
    <3>2. MaxExchanges \in Nat /\ RequestLens \subseteq Nat
      BY TpAssumption
    <3>. QED BY <3>1, <3>2
  <2>2. /\ tester' = [TesterIdle EXCEPT !.m = m, !.len = n, !.next = 1, !.busy = TRUE]
        /\ toUnit' = Append(toUnit, IF n = 1 THEN SF(m) ELSE FF(m, n))
        /\ UNCHANGED <<rx, tx, toTester, served, overwritten, losses, givenUp>>
    BY <1>2 DEF TesterSends
  <2>. HIDE DEF m
  <2>3. SF(m) \in Frames /\ FF(m, n) \in Frames
    BY <2>1, FrameTypes
  <2>4. toUnit' \in Seq(Frames)
    BY <1>1, <2>2, <2>3
  <2>5. tester' \in TesterTypes /\ tester'.got = <<>>
    BY <2>1, <2>2, EmptyTypes DEF TesterOK, TesterTypes, TesterIdle
  <2>. QED BY <2>2, <2>4, <2>5, TesterTypesKept DEF TesterOK
<1>3. CASE TesterContinues
  <2>1. /\ tester.busy /\ tester.next < tester.len /\ tester.allowed > 0
        /\ toUnit' = Append(toUnit, CF(tester.m, tester.next, tester.next % SnLimit))
        /\ tester' = [tester EXCEPT !.next = tester.next + 1, !.allowed = tester.allowed - 1]
        /\ UNCHANGED <<rx, tx, toTester, served, overwritten, losses, givenUp>>
    BY <1>1, <1>3 DEF TesterContinues, RequestSent, TesterTypes
  <2>2. /\ tester.m \in 0..MaxExchanges /\ tester.next \in Nat /\ tester.allowed - 1 \in Nat
        /\ tester.len \in Nat
    BY <1>1, <2>1 DEF TesterTypes
  <2>3. tester.next % SnLimit \in Nat
    BY <2>2, TpAssumption
  <2>4. toUnit' \in Seq(Frames)
    BY <1>1, <2>1, <2>2, <2>3, FrameTypes, AppendOf
  <2>5. tester' \in TesterTypes /\ tester'.got = tester.got
    <3>. DEFINE next == tester.next + 1
                allowed == tester.allowed - 1
    <3>1. next \in Nat /\ allowed \in Nat
      BY <2>2
    <3>2. tester' = [tester EXCEPT !.next = next, !.allowed = allowed]
      BY <2>1
    <3>. HIDE DEF next, allowed
    <3>. QED BY <1>1, <3>1, <3>2 DEF TesterTypes
  <2>6. ~(Len(tester.got) > 0)
    BY <1>1, <2>1, <2>2 DEF TesterOK
  <2>. QED BY <2>1, <2>4, <2>5, <2>6, TesterTypesKept DEF TesterOK
<1>4. CASE TesterGivesUp
  <2>1. /\ tester' = [tester EXCEPT !.busy = FALSE, !.got = <<>>, !.want = 0]
        /\ givenUp' \in 0..MaxGivenUp
        /\ UNCHANGED <<rx, tx, toUnit, toTester, served, overwritten, losses>>
    BY <1>1, <1>4, TpAssumption DEF TesterGivesUp
  <2>2. tester' \in TesterTypes /\ tester'.got = <<>>
    <3>1. <<>> \in Seq(Pieces)
      OBVIOUS
    <3>. QED BY <1>1, <2>1, <3>1 DEF TesterTypes
  <2>3. TesterOK(tester')
    BY <2>2 DEF TesterOK
  <2>. QED BY <1>1, <2>1, <2>3, NextTypesByParts DEF TypesByPartsNext
<1>5. CASE Lose
  <2>1. /\ losses' \in 0..MaxLosses
        /\ UNCHANGED <<rx, tx, tester, served, overwritten, givenUp>>
    BY <1>1, <1>5, TpAssumption DEF Lose
  <2>2. CASE toUnit # <<>> /\ toUnit' = Tail(toUnit) /\ toTester' = toTester
    <3>1. toUnit' \in Seq(Frames)
      BY <1>1, <2>2, TailOf
    <3>. QED BY <1>1, <2>1, <2>2, <3>1, NextTypesByParts DEF TypesByPartsNext
  <2>3. CASE toTester # <<>> /\ toTester' = Tail(toTester) /\ toUnit' = toUnit
    <3>. DEFINE t == Tail(toTester)
    <3>1. /\ t \in Seq(Frames) /\ Len(toTester) \in Nat /\ Len(t) = Len(toTester) - 1
          /\ \A p \in 1..Len(t) : t[p] = toTester[p + 1]
      BY <1>1, <2>3, TailOf
    <3>. HIDE DEF t
    <3>2. ASSUME NEW p \in 1..Len(t) PROVE t[p].t = "FF" => t[p].i = 0 /\ t[p].n > 1
      <4>1. p + 1 \in 1..Len(toTester) /\ t[p] = toTester[p + 1]
        BY <3>1
      <4>. QED BY <1>1, <4>1 DEF FirstsOK
    <3>3. FirstsOK(t)
      BY <3>2 DEF FirstsOK
    <3>4. toTester' \in Seq(Frames) /\ FirstsOK(toTester')
      BY <2>3, <3>1, <3>3 DEF t
    <3>. QED BY <1>1, <2>1, <2>3, <3>4, NextTypesByParts DEF TypesByPartsNext
  <2>. QED BY <1>5, <2>2, <2>3 DEF Lose
<1>6. CASE UNCHANGED tpVars
  BY <1>1, <1>6, NextTypesByParts DEF TypesByPartsNext, tpVars
<1>. QED BY <1>2, <1>3, <1>4, <1>5, <1>6, UnitTypes, TesterReceivesTypes
         DEF TpNext, TpTester, TpProgress

----------------------------------------------------------------------------
(* The invariant and the theorem.                                          *)

LEMMA TpInvInit == TpInit => TpInv
<1>. SUFFICES ASSUME TpInit PROVE TpInv
  OBVIOUS
<1>1. toUnit = <<>> /\ toTester = <<>> /\ rx = EmptyRx /\ tx = EmptyTx /\ tester = TesterIdle
      /\ served = <<>>
  BY DEF TpInit
<1>2. ~tester.busy /\ tester.got = <<>> /\ ~tx.waitFC /\ InOrder(<<>>)
  BY <1>1 DEF TesterIdle, EmptyTx, InOrder
<1>3. RequestInv
  BY <1>1, <1>2, NothingInOrder DEF RequestInv
<1>4. ResponseInv
  BY <1>1, <1>2 DEF ResponseInv, Stream, Awaited, Receives
<1>. QED BY <1>3, <1>4, TpTypesInit DEF TpInv

LEMMA RequestInvStep ==
  ASSUME TpTypes, RequestInv, MaxLosses < SnLimit, [TpNext]_tpVars
  PROVE  RequestInv'
<1>0. /\ losses \in Nat /\ MaxExchanges \in Nat /\ tester \in TesterTypes
      /\ toUnit \in Seq(Frames)
  BY TpAssumption DEF TpTypes, TpTypeOK, TesterTypes
<1>1. ASSUME NEW n \in RequestLens, TesterSends(n) PROVE RequestInv'
  <2>. DEFINE m == tester.m + 1
              f == IF n = 1 THEN SF(m) ELSE FF(m, n)
  <2>1. m \in 0..MaxExchanges /\ n \in Nat
    <3>1. tester.m \in 0..MaxExchanges /\ MaxExchanges \in Nat /\ n \in Nat
      BY <1>0, TpAssumption DEF TesterTypes
    <3>2. tester.m < MaxExchanges
      BY <1>1 DEF TesterSends
    <3>. QED BY <3>1, <3>2
  <2>2. /\ tester' = [TesterIdle EXCEPT !.m = m, !.len = n, !.next = 1, !.busy = TRUE]
        /\ toUnit' = Append(toUnit, f)
        /\ UNCHANGED <<rx, tx, toTester, served, overwritten, losses, givenUp>>
    BY <1>1 DEF TesterSends
  <2>. HIDE DEF m
  <2>3. f \in Frames /\ (n = 1 => f.t = "SF") /\ (n # 1 => f.t = "FF" /\ f.i = 0 /\ f.m = m)
    BY <2>1, FrameTypes DEF FF, Frame
  <2>4. tester'.m = m /\ tester'.next = 1 /\ tester'.len = n
    BY <2>2 DEF TesterIdle
  <2>. HIDE DEF f
  <2>5. tester'.busy /\ ~RequestSent' => f.t = "FF" /\ tester'.m = f.m /\ tester'.next = 1
    BY <2>3, <2>4 DEF RequestSent
  <2>. QED BY <2>2, <2>3, <2>5, RequestsBegun
<1>2. CASE TesterGivesUp
  <2>1. ~tester'.busy /\ UNCHANGED <<rx, toUnit, served, losses>>
    BY <1>0, <1>2 DEF TesterGivesUp, TesterTypes
  <2>. QED BY <1>0, <2>1, RequestsKept
<1>3. CASE Lose
  <2>1. UNCHANGED <<rx, tester, served>> /\ losses' = losses + 1 /\ (RequestSent' <=> RequestSent)
    BY <1>3 DEF Lose, RequestSent
  <2>2. CASE toUnit' = toUnit
    BY <1>0, <2>1, <2>2, RequestsKept
  <2>3. CASE toUnit # <<>> /\ Losable(Head(toUnit)) /\ toUnit' = Tail(toUnit)
    <3>1. /\ toUnit[1] \in Frames /\ toUnit[1].i \in Nat /\ 1 \in 1..Len(toUnit)
          /\ toUnit[1].t \in {"CF", "FC"} /\ rx.frame \in Nat
      <4>1. Head(toUnit) = toUnit[1] /\ toUnit[1] \in Frames /\ 1 \in 1..Len(toUnit)
        BY <1>0, <2>3, TailOf
      <4>2. rx.frame \in Nat
        BY DEF TpTypes, TpTypeOK
      <4>. QED BY <2>3, <4>1, <4>2 DEF Losable, Frames
    <3>2. toUnit[1].t = "CF" => Continues(rx, losses, toUnit[1].m, toUnit[1].i)
      BY <3>1 DEF RequestInv, FollowsNow, Follows
    <3>3. toUnit[1].t \in {"FF", "CF"} => Continues(rx', losses', toUnit[1].m, toUnit[1].i + 1)
      BY <1>0, <2>1, <3>1, <3>2 DEF Continues
    <3>4. /\ InOrder(rx'.pieces) /\ InOrder(served')
          /\ rx'.waiting => Len(rx'.pieces) = rx'.frame /\ rx'.frame > 0
      BY <2>1 DEF RequestInv
    <3>. QED BY <2>1, <2>3, <3>3, <3>4, RequestsShift
  <2>. QED BY <1>3, <2>2, <2>3 DEF Lose
<1>4. CASE UNCHANGED tpVars
  <2>1. UNCHANGED <<rx, tester, served, toUnit, losses>> /\ (RequestSent' <=> RequestSent)
    BY <1>4 DEF tpVars, RequestSent
  <2>. QED BY <1>0, <2>1, RequestsKept
<1>. QED BY <1>1, <1>2, <1>3, <1>4, RequestsReceived, RequestsWhileAnswered, RequestContinued
         DEF TpNext, TpTester, TpProgress

LEMMA ResponseInvStep ==
  ASSUME TpTypes, ~overwritten => ResponseInv, [TpNext]_tpVars, ~overwritten'
  PROVE  ResponseInv'
<1>0. tester \in TesterTypes
  BY DEF TpTypes, TpTypeOK, TesterTypes
<1>1. ASSUME NEW n \in RequestLens, TesterSends(n) PROVE ResponseInv'
  <2>1. tester'.got = <<>>
    BY <1>1 DEF TesterSends, TesterIdle
  <2>. QED BY <1>1, <2>1, ResponseAside DEF TesterSends
<1>2. CASE TesterContinues
  <2>1. tester' = [tester EXCEPT !.next = tester.next + 1, !.allowed = tester.allowed - 1]
    BY <1>2 DEF TesterContinues
  <2>2. tester'.got = tester.got /\ tester'.want = tester.want /\ tester'.busy = tester.busy
    BY <1>0, <2>1 DEF TesterTypes
  <2>. QED BY <1>2, <2>2, ResponseAside DEF TesterContinues
<1>3. CASE TesterGivesUp
  <2>1. tester'.got = <<>>
    BY <1>0, <1>3 DEF TesterGivesUp, TesterTypes
  <2>. QED BY <1>3, <2>1, ResponseAside DEF TesterGivesUp
<1>4. CASE Lose
  <2>1. UNCHANGED <<tx, tester>> /\ ResponseInv
    BY <1>4 DEF Lose
  <2>2. CASE toTester' = toTester
    BY <2>1, <2>2, ResponseKept
  <2>3. CASE toTester # <<>> /\ Losable(Head(toTester)) /\ toTester' = Tail(toTester)
    BY <2>1, <2>3, ResponseLost
  <2>. QED BY <1>4, <2>2, <2>3 DEF Lose
<1>5. CASE UNCHANGED tpVars
  BY <1>5, ResponseKept DEF tpVars
<1>. QED BY <1>1, <1>2, <1>3, <1>4, <1>5, ResponsesSent, ResponsesTaken
         DEF TpNext, TpTester, TpProgress

\* Every value has its type.
THEOREM TpTypeCorrect == TpSpec => []TpTypeOK
<1>1. TpTypes => TpTypeOK
  BY DEF TpTypes
<1>. QED BY <1>1, TpTypesInit, TpTypesStep, PTL DEF TpSpec

\* Both ways, what arrives in several frames is one message, whole and in order, as long as
\* not so many frames are lost that their numbers come round (uds.c:81-90, 107-144, 269-345).
THEOREM MessagesArriveWhole ==
  ASSUME MaxLosses < SnLimit
  PROVE  TpSpec => []ArrivesWhole
<1>1. TpInv /\ [TpNext]_tpVars => TpInv'
  <2>. SUFFICES ASSUME TpInv, [TpNext]_tpVars PROVE TpInv'
    OBVIOUS
  <2>1. TpTypes'
    BY TpTypesStep DEF TpInv
  <2>2. RequestInv'
    BY RequestInvStep DEF TpInv
  <2>3. ~overwritten' => ResponseInv'
    BY ResponseInvStep DEF TpInv
  <2>. QED BY <2>1, <2>2, <2>3 DEF TpInv
<1>2. TpInv => ArrivesWhole
  BY DEF TpInv, RequestInv, ResponseInv, ArrivesWhole
<1>. QED BY <1>1, <1>2, TpInvInit, PTL DEF TpSpec

----------------------------------------------------------------------------
(* The three protocols together.                                           *)

\* Whichever of the protocols takes its steps, every value has its type.
THEOREM DiagTypeCorrect == DiagSpec => []TypeOK
<1>. DEFINE Inv == SaInv /\ FtShape /\ TpTypes
<1>1. DiagInit => Inv
  BY SaInvInit, FtShapeInit, TpTypesInit DEF DiagInit
<1>2. Inv /\ [DiagNext]_diagVars => Inv'
  <2>1. Inv /\ [DiagNext]_diagVars => [SaNext]_saVars /\ [FtNext]_ftVars /\ [TpNext]_tpVars
    BY DEF DiagNext, diagVars
  <2>. QED BY <2>1, SaInvStep, FtShapeStep, TpTypesStep
<1>3. Inv => TypeOK
  BY DEF SaInv, FtShape, TpTypes, TypeOK
<1>. QED BY <1>1, <1>2, <1>3, PTL DEF DiagSpec
=============================================================================
