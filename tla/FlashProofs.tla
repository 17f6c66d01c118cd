---------------------------- MODULE FlashProofs ----------------------------
(***************************************************************************)
(* Proofs about what the unit keeps in flash.  First the safety properties *)
(* of the MSD storage (MsdStorage.tla), for every capacity and every       *)
(* number of saves, losses of power and failed file operations; then, of   *)
(* the parameters that carry a call across a restart (Prop.tla, Boot.tla), *)
(* that the restarts are bounded, for every bound, whichever of the two    *)
(* threads want them.                                                      *)
(***************************************************************************)
EXTENDS MCFlash, MsdBufferProofs

\* A file holds a storage, and perhaps a torn record.
LEMMA FileType ==
  ASSUME NEW b \in Seq(Msds), Len(b) <= MAX_NUMBER_MSD, NEW t \in BOOLEAN
  PROVE  [recs |-> b, torn |-> t] \in Files
BY DEF Files

\* What a file written in part holds.
LEMMA PartlyWrittenProperties ==
  ASSUME NEW b \in Seq(Msds), Len(b) <= MAX_NUMBER_MSD, NEW f \in PartlyWritten(b)
  PROVE  /\ f \in Files
         /\ \E k \in 0..Len(b) : f.recs = SubSeq(b, 1, k)
<1>1. Len(b) \in Nat BY LenProperties
<1>2. PICK k \in 0..(Len(b) - 1), t \in BOOLEAN : f = [recs |-> SubSeq(b, 1, k), torn |-> t]
  BY DEF PartlyWritten
<1>3. k \in 0..Len(b) BY <1>1
<1>4. SubSeq(b, 1, k) \in Seq(Msds) /\ Len(SubSeq(b, 1, k)) = k BY <1>3, PrefixProperties
<1>5. Len(SubSeq(b, 1, k)) <= MAX_NUMBER_MSD BY <1>1, <1>3, <1>4, MaxNumberAssumption
<1>6. f \in Files BY <1>2, <1>4, <1>5, FileType
<1> QED BY <1>2, <1>3, <1>6

\* The buffer stays a storage whatever record is deleted or moved.
LEMMA BufTypes ==
  ASSUME TypeOK
  PROVE  /\ \A n \in Int : /\ DeleteBuf(buf, n) \in Seq(Msds)
                           /\ Len(DeleteBuf(buf, n)) <= MAX_NUMBER_MSD
         /\ \A from, to \in Flags : /\ MoveBuf(buf, from, to) \in Seq(Msds)
                                    /\ Len(MoveBuf(buf, from, to)) <= MAX_NUMBER_MSD
         /\ \A flag \in Flags : FindNumb(buf, flag) \in NoMsd..(MAX_NUMBER_MSD - 1)
<1>1. buf \in Seq(Msds) /\ Len(buf) \in Nat /\ Len(buf) <= MAX_NUMBER_MSD
  BY LenProperties DEF TypeOK
<1>2. MAX_NUMBER_MSD \in 1..255 BY MaxNumberAssumption
<1>3. ASSUME NEW n \in Int
      PROVE  DeleteBuf(buf, n) \in Seq(Msds) /\ Len(DeleteBuf(buf, n)) <= MAX_NUMBER_MSD
  <2>1. /\ DeleteBuf(buf, n) \in Seq(Msds)
        /\ ~CanDelete(buf, n) => DeleteBuf(buf, n) = buf
        /\ CanDelete(buf, n) => Len(DeleteBuf(buf, n)) = Len(buf) - 1
    BY <1>1, DeleteBufProperties
  <2>2. CASE CanDelete(buf, n)
    BY <1>1, <1>2, <2>1, <2>2
  <2>3. CASE ~CanDelete(buf, n)
    BY <1>1, <2>1, <2>3
  <2> QED BY <2>2, <2>3
<1>4. ASSUME NEW from \in Flags, NEW to \in Flags
      PROVE  MoveBuf(buf, from, to) \in Seq(Msds) /\ Len(MoveBuf(buf, from, to)) <= MAX_NUMBER_MSD
  BY <1>1, MoveBufProperties DEF Msds
<1>5. ASSUME NEW flag \in Flags
      PROVE  FindNumb(buf, flag) \in NoMsd..(MAX_NUMBER_MSD - 1)
  BY <1>1, <1>2, FindNumbProperties DEF NoMsd
<1> QED BY <1>3, <1>4, <1>5

\* Every counter stays in its eight bits.
LEMMA CntTypes ==
  ASSUME TypeOK
  PROVE  /\ \A n \in Int : DeleteCnt(buf, cnt, n) \in Counters
         /\ \A from \in Flags : MoveCnt(buf, cnt, from) \in Counters
         /\ \A m \in Msds : SaveCnt(buf, cnt, m) \in Counters
<1>1. buf \in Seq(Msds) /\ Len(buf) \in Nat /\ cnt \in Counters
  BY LenProperties DEF TypeOK
<1>2. ASSUME NEW n \in Int PROVE DeleteCnt(buf, cnt, n) \in Counters
  <2>1. CASE CanDelete(buf, n)
    <3>1. n + 1 \in 1..Len(buf) BY <1>1, <2>1 DEF CanDelete
    <3>2. buf[n + 1].flag \in Flags BY <1>1, <3>1, RecordFields DEF Msds
    <3> QED BY <1>1, <2>1, <3>2, CountersProperties DEF DeleteCnt
  <2>2. CASE ~CanDelete(buf, n)
    BY <1>1, <2>2 DEF DeleteCnt
  <2> QED BY <2>1, <2>2
<1>3. ASSUME NEW from \in Flags PROVE MoveCnt(buf, cnt, from) \in Counters
  <2>1. "INBAND" \in Flags /\ "SMS" \in Flags BY DEF Flags
  <2>2. Decremented(cnt, "INBAND") \in Counters BY <1>1, <2>1, CountersProperties
  <2>3. Incremented(Decremented(cnt, "INBAND"), "SMS") \in Counters
    BY <2>1, <2>2, CountersProperties
  <2> QED BY <1>1, <2>3 DEF MoveCnt
<1>4. ASSUME NEW m \in Msds PROVE SaveCnt(buf, cnt, m) \in Counters
  <2>1. m.flag \in Flags BY DEF Msds, Records
  <2>2. Incremented(cnt, m.flag) \in Counters BY <1>1, <2>1, CountersProperties
  <2> QED BY <1>1, <2>2 DEF SaveCnt
<1> QED BY <1>2, <1>3, <1>4

----------------------------------------------------------------------------
\* The static variables of msd_storage.c start with their types.
LEMMA InitType == Init => TypeOK
<1> SUFFICES ASSUME Init PROVE TypeOK
  OBVIOUS
<1>1. <<>> \in Seq(Msds) /\ Len(<<>>) = 0 /\ 0 <= MAX_NUMBER_MSD
  BY EmptySeq, MaxNumberAssumption
<1>2. NoMsd \in NoMsd..(MAX_NUMBER_MSD - 1)
  BY MaxNumberAssumption DEF NoMsd
<1>3. {0} \subseteq Nat /\ 0 \in 0..MaxSaves /\ 0 \in 0..MaxCrashes /\ 0 \in 0..MaxIoErrors
  BY BoundsAssumption
<1>4. cnt \in Counters
  BY DEF Init, Counters, Flags
<1>5. pc \in [Tasks -> Steps] /\ num \in [Tasks -> NoMsd..(MAX_NUMBER_MSD - 1)]
  BY <1>2 DEF Init, Steps
<1>6. file \in Files BY <1>1, FileType DEF Init
<1> QED BY <1>1, <1>3, <1>4, <1>5, <1>6 DEF Init, TypeOK

\* What DeleteNumber, which two actions end in, does to the types.
LEMMA DeleteNumberType ==
  ASSUME TypeOK, NEW t \in Tasks, NEW n \in Int, DeleteNumber(t, n)
  PROVE  TypeOK'
<1>1. CASE /\ CanDelete(buf, n)
           /\ Change(t, DeleteBuf(buf, n), DeleteCnt(buf, cnt, n))
           /\ UNCHANGED <<num, saves, moved>>
  <2>1. buf' \in Seq(Msds) /\ Len(buf') <= MAX_NUMBER_MSD /\ cnt' \in Counters
    BY <1>1, BufTypes, CntTypes DEF Change
  <2>2. pc' \in [Tasks -> Steps] BY <1>1 DEF TypeOK, Change, Goto, Steps, Writing
  <2> QED BY <1>1, <2>1, <2>2 DEF TypeOK, Change, history
<1>2. CASE ~CanDelete(buf, n) /\ ReturnAtOnce(t)
  <2>1. pc' \in [Tasks -> Steps] BY <1>2 DEF TypeOK, ReturnAtOnce, Goto, Steps
  <2> QED BY <1>2, <2>1 DEF TypeOK, ReturnAtOnce, history, bounds
<1> QED BY <1>1, <1>2 DEF DeleteNumber

\* move_inband_to_sms and move_sms_to_saved.
LEMMA MoveType ==
  ASSUME TypeOK, NEW t \in Tasks, NEW from \in Flags, NEW to \in Flags, Move(t, from, to)
  PROVE  TypeOK'
<1>1. buf' \in Seq(Msds) /\ Len(buf') <= MAX_NUMBER_MSD /\ cnt' \in Counters
  BY BufTypes, CntTypes DEF Move, Change
<1>2. pc' \in [Tasks -> Steps]
  BY DEF TypeOK, Move, Change, Goto, Steps, Writing
<1> QED BY <1>1, <1>2 DEF TypeOK, Move, Change, history

\* Every step of a storage function, of the power and of init_MSD keeps the types.
LEMMA StepType == TypeOK /\ [Next]_vars => TypeOK'
<1> SUFFICES ASSUME TypeOK, [Next]_vars PROVE TypeOK'
  OBVIOUS
<1> USE DEF history, bounds
<1>1. CASE UNCHANGED vars
  BY <1>1 DEF TypeOK, vars
<1>2. ASSUME NEW t \in Tasks, SaveMSD(t) PROVE TypeOK'
  <2> DEFINE m == [id |-> saves + 1, flag |-> "INBAND"]
  <2>1. saves \in 0..MaxSaves /\ saves < MaxSaves /\ MaxSaves \in Nat
    BY <1>2, BoundsAssumption DEF TypeOK, SaveMSD
  <2>2. m \in Msds BY <2>1 DEF Msds, Records, Flags
  <2>3. buf' = SaveBuf(buf, m) /\ cnt' = SaveCnt(buf, cnt, m) /\ saves' = saves + 1
    BY <1>2 DEF SaveMSD, Change
  <2>4. buf \in Seq(Msds) /\ Len(buf) <= MAX_NUMBER_MSD BY DEF TypeOK
  <2> HIDE DEF m
  <2>5. buf' \in Seq(Msds) /\ Len(buf') <= MAX_NUMBER_MSD
    BY <2>2, <2>3, <2>4, SaveBufProperties
  <2>6. cnt' \in Counters BY <2>2, <2>3, CntTypes
  <2>7. pc' \in [Tasks -> Steps] BY <1>2 DEF TypeOK, SaveMSD, Change, Goto, Steps, Writing
  <2>8. saves' \in 0..MaxSaves BY <2>1, <2>3
  <2> QED BY <1>2, <2>5, <2>6, <2>7, <2>8 DEF TypeOK, SaveMSD, Change
<1>3. ASSUME NEW t \in Tasks, FindSms(t) PROVE TypeOK'
  <2>1. FindNumb(buf, "SMS") \in NoMsd..(MAX_NUMBER_MSD - 1) BY BufTypes DEF Flags
  <2>2. num' \in [Tasks -> NoMsd..(MAX_NUMBER_MSD - 1)]
    BY <1>3, <2>1 DEF TypeOK, FindSms
  <2> QED BY <1>3, <2>2 DEF TypeOK, FindSms
<1>4. ASSUME NEW t \in Tasks, DeleteMSD(t) \/ DeleteInbandDelete(t) PROVE TypeOK'
  <2>1. num[t] \in Int BY MaxNumberAssumption DEF TypeOK, NoMsd
  <2>2. DeleteNumber(t, num[t]) BY <1>4 DEF DeleteMSD, DeleteInbandDelete
  <2> QED BY <2>1, <2>2, DeleteNumberType
<1>5. ASSUME NEW t \in Tasks, DeleteInbandFind(t) PROVE TypeOK'
  <2>1. FindNumb(buf, "INBAND") \in NoMsd..(MAX_NUMBER_MSD - 1) BY BufTypes DEF Flags
  <2>2. num' \in [Tasks -> NoMsd..(MAX_NUMBER_MSD - 1)] /\ pc' \in [Tasks -> Steps]
    BY <1>5, <2>1 DEF TypeOK, DeleteInbandFind, Goto, Steps
  <2>3. moved' \subseteq Tasks BY <1>5, Zenon DEF TypeOK, DeleteInbandFind
  <2> QED BY <1>5, <2>2, <2>3 DEF TypeOK, DeleteInbandFind
<1>6. ASSUME NEW t \in Tasks, MoveInbandToSms(t) \/ MoveSmsToSaved(t) PROVE TypeOK'
  <2>1. "INBAND" \in Flags /\ "SMS" \in Flags /\ "SAVED" \in Flags BY DEF Flags
  <2> QED BY <1>6, <2>1, MoveType DEF MoveInbandToSms, MoveSmsToSaved
<1>7. ASSUME NEW t \in Tasks, DeleteAllMSDs(t) PROVE TypeOK'
  <2>1. <<>> \in Seq(Msds) /\ Len(<<>>) = 0 /\ 0 <= MAX_NUMBER_MSD
    BY EmptySeq, MaxNumberAssumption
  <2>2. cnt' \in Counters BY <1>7 DEF DeleteAllMSDs, Counters, Flags
  <2>3. ioErrors' \in 0..MaxIoErrors
    BY <1>7, BoundsAssumption DEF TypeOK, DeleteAllMSDs
  <2>4. file' \in Files /\ before' \in Seq(Msds) /\ stale' \in BOOLEAN
    BY <1>7, <2>1, FileType DEF TypeOK, DeleteAllMSDs
  <2> QED BY <1>7, <2>1, <2>2, <2>3, <2>4 DEF TypeOK, DeleteAllMSDs
<1>8. ASSUME NEW t \in Tasks, Unlink(t) PROVE TypeOK'
  <2>1. <<>> \in Seq(Msds) /\ Len(<<>>) = 0 /\ 0 <= MAX_NUMBER_MSD
    BY EmptySeq, MaxNumberAssumption
  <2>2. pc' \in [Tasks -> Steps] BY <1>8 DEF TypeOK, Unlink, Goto, Steps, Writing
  <2>3. file' \in Files BY <1>8, <2>1, FileType DEF Unlink
  <2> QED BY <1>8, <2>2, <2>3 DEF TypeOK, Unlink
<1>9. ASSUME NEW t \in Tasks, Write(t) PROVE TypeOK'
  <2>1. pc' \in [Tasks -> Steps] BY <1>9 DEF TypeOK, Write, Goto, Steps
  <2>2. buf \in Seq(Msds) /\ Len(buf) \in Nat /\ Len(buf) <= MAX_NUMBER_MSD
    BY LenProperties DEF TypeOK
  <2>3. PartlyWritten(buf) \subseteq Files
    BY <2>2, PartlyWrittenProperties
  <2>4. file' \in Files
    BY <1>9, <2>2, <2>3, FileType DEF TypeOK, Write
  <2>5. ioErrors' \in 0..MaxIoErrors
    BY <1>9, BoundsAssumption DEF TypeOK, Write
  <2> QED BY <1>9, <2>1, <2>4, <2>5 DEF TypeOK, Write
<1>10. CASE Crash
  <2>1. <<>> \in Seq(Msds) /\ Len(<<>>) = 0 /\ 0 <= MAX_NUMBER_MSD
    BY EmptySeq, MaxNumberAssumption
  <2>2. buf \in Seq(Msds) /\ Len(buf) \in Nat /\ Len(buf) <= MAX_NUMBER_MSD
    BY LenProperties DEF TypeOK
  <2>3. file' \in Files
    BY <1>10, <2>2, PartlyWrittenProperties DEF TypeOK, Crash
  <2>4. cnt' \in Counters BY <1>10 DEF Crash, Counters, Flags
  <2>5. NoMsd \in NoMsd..(MAX_NUMBER_MSD - 1) BY MaxNumberAssumption DEF NoMsd
  <2>6. pc' \in [Tasks -> Steps] /\ num' \in [Tasks -> NoMsd..(MAX_NUMBER_MSD - 1)]
    BY <1>10, <2>5 DEF Crash, Steps
  <2>7. crashes' \in 0..MaxCrashes BY <1>10, BoundsAssumption DEF TypeOK, Crash
  <2> QED BY <1>10, <2>1, <2>2, <2>3, <2>4, <2>6, <2>7 DEF TypeOK, Crash
<1>11. CASE InitMSD
  <2> DEFINE read == IF file.torn THEN <<>> ELSE file.recs
  <2>1. <<>> \in Seq(Msds) /\ Len(<<>>) = 0 /\ 0 <= MAX_NUMBER_MSD
    BY EmptySeq, MaxNumberAssumption
  <2>2. read \in Seq(Msds) /\ Len(read) <= MAX_NUMBER_MSD BY <2>1 DEF TypeOK, Files
  <2>3. /\ buf' = read /\ cnt' = RecountedFrom(read) /\ before' = read
        /\ file' = [recs |-> read, torn |-> FALSE]
    BY <1>11 DEF InitMSD
  <2> HIDE DEF read
  <2>4. cnt' \in Counters BY <2>2, <2>3, RecountedType DEF Msds
  <2>5. file' \in Files BY <2>2, <2>3, FileType
  <2> QED BY <1>11, <2>1, <2>2, <2>3, <2>4, <2>5 DEF TypeOK, InitMSD
<1> QED BY <1>1, <1>2, <1>3, <1>4, <1>5, <1>6, <1>7, <1>8, <1>9, <1>10, <1>11
        DEF Next, Serve, Proceed

\* Every variable of the storage keeps its type: the buffer never outgrows
\* MAX_NUMBER_MSD, a counter never leaves its eight bits, a remembered number
\* is always one that find_msd_numb can return (msd_storage.c).
THEOREM TypeCorrect == Spec => []TypeOK
<1>1. Init => TypeOK BY InitType
<1>2. TypeOK /\ [Next]_vars => TypeOK' BY StepType
<1> QED BY <1>1, <1>2, PTL DEF Spec

----------------------------------------------------------------------------
(* The inductive invariant.                                                *)

\* The mutex is held by the task whose call is rewriting the file, by nobody
\* else, and no call survives a loss of power.
MutexHeld ==
  /\ \A t \in Tasks : pc[t] \in Writing <=> mutex = t
  /\ ~up => \A t \in Tasks : pc[t] = "idle"

\* The records are in order of creation, in RAM and in what the next start reads.
InOrder ==
  /\ Ordered(buf) /\ NotNewer(buf, saves)
  /\ Ordered(file.recs) /\ NotNewer(file.recs, saves)

\* What init_MSD would read now.
ReadableMsds == IF file.torn THEN <<>> ELSE file.recs

\* If no file operation has failed, the file holds what was last written, or
\* nothing while it is rewritten; after a loss of power perhaps its beginning.
Recoverable ==
  ~stale => IF up THEN file.recs \in {before, <<>>}
            ELSE ReadableMsds = before \/ IsPrefix(ReadableMsds, lost)

\* The records that are saved come first, those that wait to be sent as SMS next, the
\* in-band ones last, in RAM and in what the next start reads.
InTurn == Sorted(buf) /\ Sorted(file.recs)

\* A number that delete_inband_msd has found has only in-band records from there on,
\* unless another task moved one to SMS in the pause.
FoundInband ==
  \A t \in Tasks \ moved : pc[t] = "delete_found" => InbandFrom(buf, num[t])

IInv == MutexHeld /\ FileAgrees /\ InOrder /\ InTurn /\ FoundInband /\ Recoverable

\* get_mutex and put_mutex enclose every rewriting of the file.
LEMMA MutexStep == TypeOK /\ MutexHeld /\ [Next]_vars => MutexHeld'
<1> SUFFICES ASSUME TypeOK, MutexHeld, [Next]_vars PROVE MutexHeld'
  OBVIOUS
<1>1. Nobody \notin Tasks BY DEF Nobody, Tasks, Ops
<1>2. /\ "unlink" \in Writing /\ "write" \in Writing
      /\ "idle" \notin Writing /\ "delete_found" \notin Writing
  BY DEF Writing
<1>3. pc \in [Tasks -> Steps] BY DEF TypeOK
<1> USE <1>1, <1>2, <1>3 DEF MutexHeld
<1>4. CASE UNCHANGED vars
  BY <1>4 DEF vars
<1>5. ASSUME NEW t \in Tasks, NEW b, NEW c, Change(t, b, c), up, mutex = Nobody
      PROVE  MutexHeld'
  BY <1>5 DEF Change, Goto
<1>6. ASSUME NEW t \in Tasks, ReturnAtOnce(t), up, mutex = Nobody
      PROVE  MutexHeld'
  BY <1>6 DEF ReturnAtOnce, Goto
<1>7. ASSUME NEW t \in Tasks, SaveMSD(t) PROVE MutexHeld'
  BY <1>5, <1>7 DEF SaveMSD, Enter
<1>8. ASSUME NEW t \in Tasks, FindSms(t) PROVE MutexHeld'
  BY <1>8 DEF FindSms
<1>9. ASSUME NEW t \in Tasks, DeleteMSD(t) \/ DeleteInbandDelete(t) PROVE MutexHeld'
  <2>1. up /\ mutex = Nobody /\ DeleteNumber(t, num[t])
    BY <1>9 DEF DeleteMSD, DeleteInbandDelete, Enter
  <2> QED BY <1>5, <1>6, <2>1 DEF DeleteNumber
<1>10. ASSUME NEW t \in Tasks, DeleteInbandFind(t) PROVE MutexHeld'
  BY <1>10 DEF DeleteInbandFind, Enter, Goto
<1>11. ASSUME NEW t \in Tasks, MoveInbandToSms(t) \/ MoveSmsToSaved(t) PROVE MutexHeld'
  BY <1>5, <1>11 DEF MoveInbandToSms, MoveSmsToSaved, Move, Enter
<1>12. ASSUME NEW t \in Tasks, DeleteAllMSDs(t) PROVE MutexHeld'
  BY <1>12 DEF DeleteAllMSDs
<1>13. ASSUME NEW t \in Tasks, Unlink(t) PROVE MutexHeld'
  BY <1>13 DEF Unlink, Goto
<1>14. ASSUME NEW t \in Tasks, Write(t) PROVE MutexHeld'
  BY <1>14 DEF Write, Goto
<1>15. CASE Crash
  BY <1>15 DEF Crash
<1>16. CASE InitMSD
  BY <1>16 DEF InitMSD
<1> QED BY <1>4, <1>7, <1>8, <1>9, <1>10, <1>11, <1>12, <1>13, <1>14, <1>15, <1>16
        DEF Next, Serve, Proceed

\* A step that changes the buffer is one of these; every other leaves the
\* buffer, the counters and the number of saves alone.
MsdSaved == LET m == [id |-> saves + 1, flag |-> "INBAND"] IN
  /\ saves < MaxSaves /\ saves' = saves + 1
  /\ buf' = SaveBuf(buf, m) /\ cnt' = SaveCnt(buf, cnt, m)
MsdDeleted(n) ==
  /\ CanDelete(buf, n) /\ saves' = saves
  /\ buf' = DeleteBuf(buf, n) /\ cnt' = DeleteCnt(buf, cnt, n)
MsdMoved(from, to) ==
  /\ FindNumb(buf, from) # NoMsd /\ Rank(to) = Rank(from) - 1 /\ saves' = saves
  /\ buf' = MoveBuf(buf, from, to) /\ cnt' = MoveCnt(buf, cnt, from)

\* The buffer changes in one of three ways, and then the file is the next to
\* change: the task that made the change holds the mutex, the file is untouched.
Changed ==
  /\ MsdSaved \/ (\E n \in Int : MsdDeleted(n)) \/ (\E from, to \in Flags : MsdMoved(from, to))
  /\ \E t \in Tasks : mutex' = t
  /\ UNCHANGED <<file, up, stale, before, lost>>

\* Nothing of the storage changes, or only who works on what.
Kept ==
  /\ UNCHANGED <<buf, cnt, saves, file, up, stale, before, lost>>
  /\ mutex' = mutex

\* Each action is one of few kinds of step, as far as the data are concerned.
LEMMA ChangeKinds ==
  ASSUME TypeOK, [Next]_vars
  PROVE  \/ Changed \/ Kept
         \/ \E t \in Tasks : DeleteAllMSDs(t) \/ Unlink(t) \/ Write(t)
         \/ Crash \/ InitMSD
<1> USE DEF history, bounds
<1>1. CASE UNCHANGED vars
  BY <1>1 DEF vars, Kept
<1>2. ASSUME NEW t \in Tasks, SaveMSD(t) PROVE Changed
  BY <1>2 DEF SaveMSD, Change, Changed, MsdSaved
<1>3. ASSUME NEW t \in Tasks, FindSms(t) \/ DeleteInbandFind(t) PROVE Kept
  BY <1>3 DEF FindSms, DeleteInbandFind, Kept
<1>4. ASSUME NEW t \in Tasks, DeleteMSD(t) \/ DeleteInbandDelete(t) PROVE Changed \/ Kept
  <2>1. num[t] \in Int BY MaxNumberAssumption DEF TypeOK, NoMsd
  <2>2. DeleteNumber(t, num[t]) BY <1>4 DEF DeleteMSD, DeleteInbandDelete
  <2> QED BY <2>1, <2>2 DEF DeleteNumber, Change, ReturnAtOnce, Changed, MsdDeleted, Kept
<1>5. ASSUME NEW t \in Tasks, MoveInbandToSms(t) \/ MoveSmsToSaved(t) PROVE Changed
  <2>1. PICK from \in Flags, to \in Flags : Move(t, from, to) /\ Rank(to) = Rank(from) - 1
    BY <1>5 DEF MoveInbandToSms, MoveSmsToSaved, Flags, Rank
  <2> QED BY <2>1 DEF Move, Change, Changed, MsdMoved
<1> QED BY <1>1, <1>2, <1>3, <1>4, <1>5 DEF Next, Serve, Proceed

\* A step that changes the buffer holds the mutex until the file is rewritten.
LEMMA FileStep ==
  TypeOK /\ MutexHeld /\ FileAgrees /\ [Next]_vars => FileAgrees'
<1> SUFFICES ASSUME TypeOK, MutexHeld, FileAgrees, [Next]_vars PROVE FileAgrees'
  OBVIOUS
<1>1. Nobody \notin Tasks BY DEF Nobody, Tasks, Ops
<1>2. CASE Changed
  BY <1>1, <1>2 DEF Changed, FileAgrees
<1>3. CASE Kept
  BY <1>3 DEF Kept, FileAgrees
<1>4. ASSUME NEW t \in Tasks, DeleteAllMSDs(t) PROVE FileAgrees'
  BY <1>4 DEF DeleteAllMSDs, FileAgrees
<1>5. ASSUME NEW t \in Tasks, Unlink(t) PROVE FileAgrees'
  BY <1>1, <1>5 DEF Unlink, FileAgrees, MutexHeld, Writing
<1>6. ASSUME NEW t \in Tasks, Write(t) PROVE FileAgrees'
  BY <1>6 DEF Write, FileAgrees
<1>7. CASE Crash
  BY <1>7 DEF Crash, FileAgrees
<1>8. CASE InitMSD
  BY <1>8 DEF InitMSD, FileAgrees
<1> QED BY <1>2, <1>3, <1>4, <1>5, <1>6, <1>7, <1>8, ChangeKinds

\* No step of the storage brings the records out of order.
LEMMA OrderStep == TypeOK /\ InOrder /\ [Next]_vars => InOrder'
<1> SUFFICES ASSUME TypeOK, InOrder, [Next]_vars PROVE InOrder'
  OBVIOUS
<1> DEFINE R == Records(Nat)
<1>1. Msds \subseteq R BY DEF Msds, Records
<1>2. /\ buf \in Seq(R) /\ file.recs \in Seq(R) /\ Len(buf) <= MAX_NUMBER_MSD
      /\ saves \in Nat /\ Len(buf) \in Nat
  <2>1. buf \in Seq(Msds) /\ file.recs \in Seq(Msds) BY DEF TypeOK, Files
  <2>2. buf \in Seq(R) /\ file.recs \in Seq(R) BY <1>1, <2>1, SeqMonotonic
  <2>3. Len(buf) \in Nat BY <2>1, LenProperties
  <2> QED BY <2>2, <2>3, BoundsAssumption DEF TypeOK
<1> HIDE DEF R
<1>3. Ordered(<<>>) /\ NotNewer(<<>>, saves)
  BY DEF Ordered, NotNewer
<1>4. ASSUME NEW b \in Seq(R), NotNewer(b, saves) PROVE NotNewer(b, saves + 1)
  <2>1. \A i \in 1..Len(b) : b[i].id \in Nat BY RecordFields DEF R
  <2> QED BY <1>2, <1>4, <2>1 DEF NotNewer
<1>5. \A f \in PartlyWritten(buf) : Ordered(f.recs) /\ NotNewer(f.recs, saves)
  <2> TAKE f \in PartlyWritten(buf)
  <2>1. PICK k \in 0..(Len(buf) - 1) : f.recs = SubSeq(buf, 1, k)
    BY DEF PartlyWritten
  <2>2. k \in 0..Len(buf) BY <1>2, <2>1
  <2> QED BY <1>2, <2>1, <2>2, PrefixOrdered DEF InOrder, R
<1>6. CASE Changed
  <2>1. CASE MsdSaved
    <3> DEFINE m == [id |-> saves + 1, flag |-> "INBAND"]
    <3>1. m \in R /\ m.id = saves + 1 BY <1>2 DEF R, Records, Flags
    <3>2. buf' = SaveBuf(buf, m) /\ saves' = saves + 1 BY <2>1 DEF MsdSaved
    <3> HIDE DEF m
    <3>3. Ordered(buf') /\ NotNewer(buf', saves + 1)
      BY <1>2, <3>1, <3>2, SaveBufOrdered DEF InOrder, R
    <3> QED BY <1>2, <1>4, <1>6, <3>2, <3>3 DEF Changed, InOrder
  <2>2. ASSUME NEW n \in Int, MsdDeleted(n) PROVE InOrder'
    BY <1>2, <1>6, <2>2, DeleteBufOrdered DEF Changed, MsdDeleted, InOrder, R
  <2>3. ASSUME NEW from \in Flags, NEW to \in Flags, MsdMoved(from, to) PROVE InOrder'
    BY <1>2, <1>6, <2>3, MoveBufOrdered DEF Changed, MsdMoved, InOrder, R
  <2> QED BY <1>6, <2>1, <2>2, <2>3 DEF Changed
<1>7. CASE Kept
  BY <1>7 DEF Kept, InOrder
<1>8. ASSUME NEW t \in Tasks, DeleteAllMSDs(t) PROVE InOrder'
  BY <1>3, <1>8 DEF DeleteAllMSDs, InOrder
<1>9. ASSUME NEW t \in Tasks, Unlink(t) PROVE InOrder'
  BY <1>3, <1>9 DEF Unlink, InOrder, bounds
<1>10. ASSUME NEW t \in Tasks, Write(t) PROVE InOrder'
  BY <1>5, <1>10 DEF Write, InOrder
<1>11. CASE Crash
  BY <1>3, <1>5, <1>11 DEF Crash, InOrder
<1>12. CASE InitMSD
  BY <1>3, <1>12 DEF InitMSD, InOrder, bounds
<1> QED BY <1>6, <1>7, <1>8, <1>9, <1>10, <1>11, <1>12, ChangeKinds

\* No step of the storage puts a record before one that is further on its way.
LEMMA TurnStep == TypeOK /\ InTurn /\ [Next]_vars => InTurn'
<1> SUFFICES ASSUME TypeOK, InTurn, [Next]_vars PROVE InTurn'
  OBVIOUS
<1>1. /\ buf \in Seq(Msds) /\ Len(buf) <= MAX_NUMBER_MSD /\ Len(buf) \in Nat
      /\ saves \in Nat
  BY LenProperties, BoundsAssumption DEF TypeOK
<1>2. Sorted(<<>>) BY DEF Sorted
<1>3. \A f \in PartlyWritten(buf) : Sorted(f.recs)
  <2> TAKE f \in PartlyWritten(buf)
  <2>1. PICK k \in 0..(Len(buf) - 1) : f.recs = SubSeq(buf, 1, k)
    BY DEF PartlyWritten
  <2>2. k \in 0..Len(buf) BY <1>1, <2>1
  <2> QED BY <1>1, <2>1, <2>2, PrefixSorted DEF InTurn, Msds
<1>4. CASE Changed
  <2>1. CASE MsdSaved
    <3> DEFINE m == [id |-> saves + 1, flag |-> "INBAND"]
    <3>1. m \in Msds /\ m.flag = "INBAND"
      BY <1>1, <2>1, BoundsAssumption DEF MsdSaved, Msds, Records, Flags
    <3>2. buf' = SaveBuf(buf, m) BY <2>1 DEF MsdSaved
    <3> HIDE DEF m
    <3> QED BY <1>1, <1>4, <3>1, <3>2, SaveBufSorted DEF Changed, InTurn, Msds
  <2>2. ASSUME NEW n \in Int, MsdDeleted(n) PROVE InTurn'
    BY <1>1, <1>4, <2>2, DeleteBufSorted DEF Changed, MsdDeleted, InTurn, Msds
  <2>3. ASSUME NEW from \in Flags, NEW to \in Flags, MsdMoved(from, to) PROVE InTurn'
    BY <1>1, <1>4, <2>3, MoveBufSorted DEF Changed, MsdMoved, InTurn, Msds
  <2> QED BY <1>4, <2>1, <2>2, <2>3 DEF Changed
<1>5. CASE Kept
  BY <1>5 DEF Kept, InTurn
<1>6. ASSUME NEW t \in Tasks, DeleteAllMSDs(t) PROVE InTurn'
  BY <1>2, <1>6 DEF DeleteAllMSDs, InTurn
<1>7. ASSUME NEW t \in Tasks, Unlink(t) PROVE InTurn'
  BY <1>2, <1>7 DEF Unlink, InTurn
<1>8. ASSUME NEW t \in Tasks, Write(t) PROVE InTurn'
  BY <1>3, <1>8 DEF Write, InTurn
<1>9. CASE Crash
  BY <1>2, <1>3, <1>9 DEF Crash, InTurn
<1>10. CASE InitMSD
  BY <1>2, <1>10 DEF InitMSD, InTurn
<1> QED BY <1>4, <1>5, <1>6, <1>7, <1>8, <1>9, <1>10, ChangeKinds

\* What is known of the number delete_inband_msd has found survives every step of the
\* other tasks.
LEMMA FoundStep ==
  TypeOK /\ MutexHeld /\ InTurn /\ FoundInband /\ [Next]_vars => FoundInband'
<1> SUFFICES ASSUME TypeOK, MutexHeld, InTurn, FoundInband, [Next]_vars,
                    NEW t \in Tasks, t \notin moved', pc'[t] = "delete_found"
             PROVE  InbandFrom(buf', num'[t])
  BY DEF FoundInband
<1>1. /\ buf \in Seq(Msds) /\ Len(buf) <= MAX_NUMBER_MSD /\ Len(buf) \in Nat
      /\ pc \in [Tasks -> Steps] /\ num[t] \in Int
  BY LenProperties, MaxNumberAssumption DEF TypeOK, NoMsd
<1> USE DEF history, bounds
\* t paused already, the number it found is good, and it still remembers it.
<1> DEFINE Paused == t \notin moved /\ pc[t] = "delete_found" /\ num'[t] = num[t]
<1>2. Paused => InbandFrom(buf, num[t])
  BY DEF FoundInband
<1>3. ASSUME NEW u \in Tasks, NEW b, NEW c, Change(u, b, c), UNCHANGED num,
             moved \subseteq moved', \A n \in Int : InbandFrom(buf, n) => InbandFrom(b, n)
      PROVE  InbandFrom(buf', num'[t])
  <2>1. pc[t] = "delete_found" BY <1>1, <1>3 DEF Change, Goto
  <2>2. Paused BY <1>3, <2>1
  <2> HIDE DEF Paused
  <2>3. InbandFrom(b, num[t]) BY <1>1, <1>2, <1>3, <2>2
  <2> QED BY <1>3, <2>3 DEF Change
<1>4. ASSUME UNCHANGED <<buf, num, moved>>, pc'[t] = "delete_found" => pc[t] = "delete_found"
      PROVE  InbandFrom(buf', num'[t])
  BY <1>2, <1>4
<1>5. CASE UNCHANGED vars
  BY <1>4, <1>5 DEF vars
<1>6. ASSUME NEW u \in Tasks, SaveMSD(u) PROVE InbandFrom(buf', num'[t])
  <2> DEFINE m == [id |-> saves + 1, flag |-> "INBAND"]
  <2>1. m \in Msds /\ m.flag = "INBAND"
    BY <1>6, BoundsAssumption DEF TypeOK, SaveMSD, Msds, Records, Flags
  <2>2. Change(u, SaveBuf(buf, m), SaveCnt(buf, cnt, m)) /\ UNCHANGED <<num, moved>>
    BY <1>6 DEF SaveMSD
  <2> HIDE DEF m
  <2>3. \A n \in Int : InbandFrom(buf, n) => InbandFrom(SaveBuf(buf, m), n)
    BY <1>1, <2>1, SaveBufSorted DEF InTurn, Msds
  <2> QED BY <1>3, <2>2, <2>3
<1>7. ASSUME NEW u \in Tasks, FindSms(u) PROVE InbandFrom(buf', num'[t])
  <2>1. u # t BY <1>7 DEF FindSms, Enter
  <2>2. Paused BY <1>1, <1>7, <2>1 DEF FindSms, TypeOK
  <2> QED BY <1>2, <1>7, <2>2 DEF FindSms
<1>8. ASSUME NEW u \in Tasks, DeleteMSD(u) \/ DeleteInbandDelete(u)
      PROVE  InbandFrom(buf', num'[t])
  <2>1. num[u] \in Int /\ DeleteNumber(u, num[u])
    BY <1>8, MaxNumberAssumption DEF TypeOK, NoMsd, DeleteMSD, DeleteInbandDelete
  <2>2. CASE Change(u, DeleteBuf(buf, num[u]), DeleteCnt(buf, cnt, num[u])) /\ UNCHANGED <<num, moved>>
    <3>1. \A n \in Int : InbandFrom(buf, n) => InbandFrom(DeleteBuf(buf, num[u]), n)
      BY <1>1, <2>1, DeleteBufSorted DEF InTurn, Msds
    <3> QED BY <1>3, <2>2, <3>1
  <2>3. CASE ReturnAtOnce(u)
    BY <1>1, <1>4, <2>3 DEF ReturnAtOnce, Goto
  <2> QED BY <2>1, <2>2, <2>3 DEF DeleteNumber
<1>9. ASSUME NEW u \in Tasks, DeleteInbandFind(u) PROVE InbandFrom(buf', num'[t])
  <2>1. CASE u = t
    <3>1. /\ FindNumb(buf, "INBAND") # NoMsd /\ num'[t] = FindNumb(buf, "INBAND")
          /\ buf' = buf
      BY <1>9, <2>1 DEF DeleteInbandFind, TypeOK
    <3> QED BY <1>1, <3>1, InbandFollow DEF InTurn, Msds
  <2>2. CASE u # t
    <3>1. Paused BY <1>1, <1>9, <2>2 DEF DeleteInbandFind, Goto, TypeOK
    <3> QED BY <1>2, <1>9, <3>1 DEF DeleteInbandFind
  <2> QED BY <2>1, <2>2
<1>10. ASSUME NEW u \in Tasks, MoveInbandToSms(u) PROVE FALSE
  <2>1. Change(u, MoveBuf(buf, "INBAND", "SMS"), MoveCnt(buf, cnt, "INBAND"))
    BY <1>10 DEF MoveInbandToSms, Move
  <2>2. pc[t] = "delete_found" BY <1>1, <2>1 DEF Change, Goto
  <2> QED BY <1>10, <2>2 DEF MoveInbandToSms, Move
<1>11. ASSUME NEW u \in Tasks, MoveSmsToSaved(u) PROVE InbandFrom(buf', num'[t])
  <2>1. /\ Change(u, MoveBuf(buf, "SMS", "SAVED"), MoveCnt(buf, cnt, "SMS"))
        /\ FindNumb(buf, "SMS") # NoMsd /\ UNCHANGED <<num, moved>>
    BY <1>11 DEF MoveSmsToSaved, Move
  <2>2. \A n \in Int : InbandFrom(buf, n) => InbandFrom(MoveBuf(buf, "SMS", "SAVED"), n)
    BY <1>1, <2>1, MoveBufSorted DEF InTurn, Msds, Rank, Flags
  <2> QED BY <1>3, <2>1, <2>2
<1>12. ASSUME NEW u \in Tasks, DeleteAllMSDs(u) PROVE InbandFrom(buf', num'[t])
  BY <1>12 DEF DeleteAllMSDs, InbandFrom
<1>13. ASSUME NEW u \in Tasks, Unlink(u) \/ Write(u) PROVE InbandFrom(buf', num'[t])
  BY <1>1, <1>4, <1>13 DEF Unlink, Write, Goto
<1>14. CASE Crash
  BY <1>14 DEF Crash
<1>15. CASE InitMSD
  BY <1>15 DEF InitMSD, MutexHeld
<1> QED BY <1>5, <1>6, <1>7, <1>8, <1>9, <1>10, <1>11, <1>12, <1>13, <1>14, <1>15
        DEF Next, Serve, Proceed

\* The beginning of a storage is a prefix of it.
LEMMA PrefixIsPrefix ==
  ASSUME NEW R, NEW b \in Seq(R), NEW k \in 0..Len(b)
  PROVE  IsPrefix(SubSeq(b, 1, k), b)
<1> DEFINE s == SubSeq(b, 1, k)
<1>1. Len(b) \in Nat BY LenProperties
<1>2. s \in Seq(R) /\ Len(s) = k BY PrefixProperties
<1>3. SubSeq(s, 1, Len(s)) = s BY <1>2, SubSeqFull
<1> QED BY <1>1, <1>2, <1>3 DEF IsPrefix

\* The empty storage that init_MSD falls back to is a prefix of every other.
LEMMA EmptyIsPrefix ==
  ASSUME NEW R, NEW b \in Seq(R)
  PROVE  IsPrefix(<<>>, b)
<1>1. 0 \in 0..Len(b) BY LenProperties
<1>2. SubSeq(b, 1, 0) = <<>> BY SubSeqEmpty
<1> QED BY <1>1, <1>2, PrefixIsPrefix

\* Every step leaves a file that init_MSD could be given.
LEMMA RecoverableStep == TypeOK /\ Recoverable /\ [Next]_vars => Recoverable'
<1> SUFFICES ASSUME TypeOK, Recoverable, [Next]_vars PROVE Recoverable'
  OBVIOUS
<1>1. buf \in Seq(Msds) /\ Len(buf) \in Nat
  BY LenProperties DEF TypeOK
<1>2. CASE Changed
  BY <1>2 DEF Changed, Recoverable, ReadableMsds
<1>3. CASE Kept
  BY <1>3 DEF Kept, Recoverable, ReadableMsds
<1>4. ASSUME NEW t \in Tasks, DeleteAllMSDs(t) PROVE Recoverable'
  BY <1>4 DEF DeleteAllMSDs, Enter, Recoverable
<1>5. ASSUME NEW t \in Tasks, Unlink(t) PROVE Recoverable'
  <2>1. CASE up BY <1>5, <2>1 DEF Unlink, Recoverable, history
  <2>2. CASE ~up
    <3>1. ReadableMsds' = <<>> BY <1>5 DEF Unlink, ReadableMsds
    <3>2. lost' = lost /\ IsPrefix(<<>>, lost)
      BY <1>5, EmptyIsPrefix DEF TypeOK, Unlink, history
    <3> QED BY <1>5, <2>2, <3>1, <3>2 DEF Unlink, Recoverable, history
  <2> QED BY <2>1, <2>2
<1>6. ASSUME NEW t \in Tasks, Write(t) PROVE Recoverable'
  BY <1>6 DEF Write, Recoverable, ReadableMsds
<1>7. CASE Crash
  <2>1. lost' = buf /\ ~up' /\ up /\ UNCHANGED <<stale, before>>
    BY <1>7 DEF Crash
  <2>2. IsPrefix(<<>>, lost') BY <1>1, <2>1, EmptyIsPrefix
  <2>3. CASE UNCHANGED file
    BY <2>1, <2>2, <2>3 DEF Recoverable, ReadableMsds
  <2>4. CASE file' \in PartlyWritten(buf)
    <3>1. PICK k \in 0..(Len(buf) - 1) : file'.recs = SubSeq(buf, 1, k)
      BY <2>4 DEF PartlyWritten
    <3>2. k \in 0..Len(buf) BY <1>1, <3>1
    <3>3. IsPrefix(file'.recs, lost') BY <1>1, <2>1, <3>1, <3>2, PrefixIsPrefix
    <3> QED BY <2>1, <2>2, <3>3 DEF Recoverable, ReadableMsds
  <2> QED BY <1>7, <2>3, <2>4 DEF Crash
<1>8. CASE InitMSD
  BY <1>8 DEF InitMSD, Recoverable
<1> QED BY <1>2, <1>3, <1>4, <1>5, <1>6, <1>7, <1>8, ChangeKinds

----------------------------------------------------------------------------
\* The empty storage at start satisfies the inductive invariant.
LEMMA InitIInv == Init => IInv
<1> SUFFICES ASSUME Init PROVE IInv
  OBVIOUS
<1>1. Nobody \notin Tasks BY DEF Nobody, Tasks, Ops
<1>2. MutexHeld BY <1>1 DEF Init, MutexHeld, Writing
<1>3. FileAgrees BY DEF Init, FileAgrees
<1>4. InTurn /\ FoundInband BY DEF Init, InTurn, Sorted, FoundInband
<1>5. InOrder BY DEF Init, InOrder, Ordered, NotNewer
<1>6. Recoverable BY DEF Init, Recoverable
<1> QED BY <1>2, <1>3, <1>4, <1>5, <1>6 DEF IInv

\* The invariant holds in every state: each of its parts is kept by every step
\* from the types, and FileAgrees from MutexHeld besides.
THEOREM Invariance == Spec => []IInv
<1>1. Init => IInv BY InitIInv
<1>2. TypeOK /\ IInv /\ [Next]_vars => IInv'
  BY MutexStep, FileStep, OrderStep, TurnStep, FoundStep, RecoverableStep DEF IInv
<1> QED BY <1>1, <1>2, TypeCorrect, PTL DEF Spec

\* Whenever no task is inside a storage function and the last write succeeded,
\* the file holds exactly the RAM buffer: no path through msd_storage.c changes
\* the one and forgets rewrite_file or unlink for the other.
THEOREM FileAlwaysAgrees == Spec => []FileAgrees
<1>1. IInv => FileAgrees BY DEF IInv
<1> QED BY <1>1, Invariance, PTL

\* The storage is a FIFO through deletions in the middle, overflows and restarts
\* from a file that was written in part.
THEOREM AlwaysOldestFirst == Spec => []OldestFirst
<1>1. IInv => OldestFirst BY DEF IInv, InOrder, Ordered, OldestFirst
<1> QED BY <1>1, Invariance, PTL

\* Buffer, file and order agree for every capacity and any number of losses of power and
\* file errors.
THEOREM StorageStaysSound == Spec => []StorageSound
<1>1. FileAgrees /\ OldestFirst => StorageSound BY DEF StorageSound
<1> QED BY <1>1, FileAlwaysAgrees, AlwaysOldestFirst, PTL

\* init_MSD never brings a record back that had been deleted or delivered: it
\* reads the last contents written completely, or the beginning of what was
\* being written when the power was lost.
THEOREM RecoverySound == Spec => RecoveryInventsNothing
<1>1. IInv /\ [Next]_vars => [~up /\ up' /\ ~stale => buf' = before \/ IsPrefix(buf', lost)]_vars
  <2> SUFFICES ASSUME IInv, [Next]_vars, ~up, up', ~stale
               PROVE  buf' = before \/ IsPrefix(buf', lost)
    OBVIOUS
  <2>1. InitMSD
    BY DEF Next, Serve, Proceed, SaveMSD, FindSms, DeleteMSD, DeleteInbandFind,
           DeleteInbandDelete, MoveInbandToSms, MoveSmsToSaved, DeleteAllMSDs, Move,
           DeleteNumber, Change, ReturnAtOnce, Unlink, Write, Crash, Enter, vars
  <2>2. buf' = ReadableMsds BY <2>1 DEF InitMSD, ReadableMsds
  <2> QED BY <2>2 DEF IInv, Recoverable
<1> QED BY <1>1, Invariance, PTL DEF Spec, RecoveryInventsNothing

\* For every capacity and whatever the other tasks do while delete_inband_msd has given
\* the mutex up: the number it found then never takes a record with it that waits to be
\* sent as SMS or is saved, if no record was moved to SMS in between.  The records stay in
\* the order of their flags (InTurn), so from the first in-band record on there are only
\* in-band ones, and a save, a deletion or a wipe leaves it so (FoundInband).
THEOREM InbandDeleteAlwaysSparesOthers == Spec => InbandDeleteSparesOthers
<1>1. TypeOK /\ MutexHeld /\ FoundInband /\ [Next]_vars =>
        [\A t \in Tasks \ moved : pc[t] = "delete_found" /\ pc'[t] = "unlink" =>
           {m \in ToSet(buf) : m.flag # "INBAND"} \subseteq ToSet(buf')]_vars
  <2> SUFFICES ASSUME TypeOK, MutexHeld, FoundInband, [Next]_vars,
                      NEW t \in Tasks, t \notin moved, pc[t] = "delete_found", pc'[t] = "unlink"
               PROVE  {m \in ToSet(buf) : m.flag # "INBAND"} \subseteq ToSet(buf')
    OBVIOUS
  <2>1. pc \in [Tasks -> Steps] /\ num[t] \in Int /\ buf \in Seq(Msds)
    BY MaxNumberAssumption DEF TypeOK, NoMsd
  <2>2. DeleteInbandDelete(t)
    BY <2>1 DEF Next, Serve, Proceed, SaveMSD, FindSms, DeleteMSD, DeleteInbandFind,
           DeleteInbandDelete, MoveInbandToSms, MoveSmsToSaved, DeleteAllMSDs, Move, Goto,
           DeleteNumber, Change, ReturnAtOnce, Unlink, Write, Crash, InitMSD, Enter, vars
  <2>3. CanDelete(buf, num[t]) /\ buf' = DeleteBuf(buf, num[t])
    BY <2>1, <2>2 DEF DeleteInbandDelete, DeleteNumber, Change, ReturnAtOnce, Goto
  <2>4. InbandFrom(buf, num[t]) BY DEF FoundInband
  <2> QED BY <2>1, <2>3, <2>4, DeleteSparesOthers
<1> QED BY <1>1, TypeCorrect, Invariance, PTL DEF Spec, IInv, InbandDeleteSparesOthers

----------------------------------------------------------------------------
(* The parameters (Prop.tla): what their files hold and what is still to   *)
(* be done to them.                                                        *)

Keys == {"era_restart", "restart_reason", "tr_cnt"}
Reasons == CallEvents \cup {"DEFAULT", "none"}
ValuesOf(n) == IF n = "restart_reason" THEN Reasons ELSE Nat

\* What a file may hold of the parameters, and the parameters in RAM.
Texts ==
  {v \in UNION {[S -> Nat \cup Reasons] : S \in SUBSET Keys} :
     \A n \in DOMAIN v : v[n] \in ValuesOf(n)}
Trees == {v \in Texts : DOMAIN v = Keys}

FileNames == {"main", "backup"}
ParamFiles == {Absent, Spoilt} \cup {Whole(v) : v \in Texts} \cup {Cut(v) : v \in Texts}
FileOps ==
  {DeleteFile(f) : f \in FileNames}
    \cup {WriteTo(f, v, k) : f \in FileNames, v \in Texts, k \in Nat}

\* The tasks that save, and what they and the reading change.
Savers == RestartThreads \cup {"main"}
storeVars == <<tree, files, todo, owner, agreed>>

\* The types of the store.
PropTypes ==
  /\ tree \in Trees
  /\ files \in [main : ParamFiles, backup : ParamFiles]
  /\ todo \in Seq(FileOps)
  /\ owner = "none" => todo = <<>>

\* The texts, spelled out.
LEMMA TextFields ==
  ASSUME NEW v \in Texts
  PROVE  /\ v = [n \in DOMAIN v |-> v[n]] /\ DOMAIN v \subseteq Keys
         /\ \A n \in DOMAIN v : v[n] \in ValuesOf(n)
BY Zenon DEF Texts

LEMMA TextMade ==
  ASSUME NEW S \in SUBSET Keys, NEW v, v = [n \in S |-> v[n]],
         \A n \in S : v[n] \in ValuesOf(n)
  PROVE  v \in Texts
<1>1. \A n \in S : v[n] \in Nat \cup Reasons
  BY DEF ValuesOf
<1>2. v \in [S -> Nat \cup Reasons] /\ DOMAIN v = S
  BY <1>1
<1>3. v \in UNION {[R -> Nat \cup Reasons] : R \in SUBSET Keys}
  BY <1>2, Zenon
<1> QED BY <1>2, <1>3, Zenon DEF Texts

\* The parameters in RAM, spelled out.
LEMMA TreeFields ==
  ASSUME NEW v \in Trees
  PROVE  /\ v \in Texts /\ DOMAIN v = Keys
         /\ v.era_restart \in Nat /\ v.restart_reason \in Reasons /\ v.tr_cnt \in Nat
<1>1. v \in Texts /\ DOMAIN v = Keys
  BY DEF Trees
<1>2. \A n \in Keys : v[n] \in ValuesOf(n)
  BY <1>1, TextFields
<1> QED BY <1>1, <1>2 DEF Keys, ValuesOf

LEMMA EmptyText == <<>> \in Texts /\ DOMAIN <<>> = {}
<1>1. DOMAIN <<>> = {} /\ <<>> = [n \in {} |-> <<>>[n]]
  OBVIOUS
<1> QED BY <1>1, TextMade

\* A parameter is set: the others stay.
LEMMA TreeSet ==
  ASSUME NEW v \in Trees, NEW n \in Keys, NEW x \in ValuesOf(n)
  PROVE  /\ [v EXCEPT ![n] = x] \in Trees
         /\ [v EXCEPT ![n] = x][n] = x
         /\ \A k \in Keys \ {n} : [v EXCEPT ![n] = x][k] = v[k]
<1> DEFINE w == [v EXCEPT ![n] = x]
<1>1. DOMAIN v = Keys /\ v \in Texts /\ \A k \in Keys : v[k] \in ValuesOf(k)
  BY TextFields DEF Trees
<1>2. /\ w = [k \in Keys |-> w[k]] /\ w[n] = x /\ DOMAIN w = Keys
      /\ \A k \in Keys \ {n} : w[k] = v[k]
  BY <1>1
<1> HIDE DEF w
<1>3. \A k \in Keys : w[k] \in ValuesOf(k)
  BY <1>1, <1>2
<1>4. w \in Texts
  BY <1>2, <1>3, TextMade
<1> QED BY <1>2, <1>4 DEF Trees, w

\* init_sys_params: a parameter that was read keeps its value, the others get their defaults.
LEMMA WithDefaultsProperties ==
  ASSUME NEW v \in Texts
  PROVE  /\ WithDefaults(v) \in Trees
         /\ \A n \in DOMAIN v : WithDefaults(v)[n] = v[n]
<1> DEFINE w == WithDefaults(v)
<1>1. DOMAIN Defaults = Keys /\ \A n \in Keys : Defaults[n] \in ValuesOf(n)
  BY DEF Defaults, Keys, ValuesOf, Reasons
<1>2. /\ w = [n \in Keys |-> w[n]] /\ DOMAIN w = Keys
      /\ \A n \in Keys : w[n] = IF n \in DOMAIN v THEN v[n] ELSE Defaults[n]
  BY <1>1 DEF WithDefaults
<1>3. DOMAIN v \subseteq Keys /\ \A n \in DOMAIN v : v[n] \in ValuesOf(n)
  BY TextFields
<1> HIDE DEF w
<1>4. \A n \in Keys : w[n] \in ValuesOf(n)
  BY <1>1, <1>2, <1>3
<1>5. w \in Texts
  BY <1>2, <1>4, TextMade
<1> QED BY <1>2, <1>3, <1>5 DEF Trees, w

LEMMA DefaultsAreTree == Defaults \in Trees
<1>1. /\ DOMAIN Defaults = Keys /\ \A n \in Keys : Defaults[n] \in ValuesOf(n)
      /\ Defaults = [n \in Keys |-> Defaults[n]]
  BY DEF Defaults, Keys, ValuesOf, Reasons
<1> QED BY <1>1, TextMade DEF Trees

\* Lines at the end are missing.
LEMMA CutText ==
  ASSUME NEW v \in Texts, NEW S
  PROVE  Restrict(v, S \cap DOMAIN v) \in Texts
<1> DEFINE w == Restrict(v, S \cap DOMAIN v)
           D == S \cap DOMAIN v
<1>1. DOMAIN v \subseteq Keys /\ \A n \in DOMAIN v : v[n] \in ValuesOf(n)
  BY TextFields
<1>2. w = [n \in D |-> w[n]] /\ \A n \in D : w[n] = v[n]
  BY DEF Restrict
<1>3. D \in SUBSET Keys
  BY <1>1
<1> HIDE DEF w, D
<1>4. \A n \in D : n \in DOMAIN v
  BY DEF D
<1> QED BY <1>1, <1>2, <1>3, <1>4, TextMade DEF w

\* A file, and what is left of a writing that breaks off.
LEMMA FileForms ==
  ASSUME NEW f \in ParamFiles
  PROVE  /\ f.form \in {"whole", "cut"} => f.kept \in Texts
         /\ f.form = "whole" => f = Whole(f.kept)
<1> QED BY DEF ParamFiles, Absent, Spoilt, Whole, Cut

LEMMA RemainsType ==
  ASSUME NEW v \in Texts, NEW r \in Remains(v)
  PROVE  r \in ParamFiles /\ r.form # "whole"
<1>1. CASE r = Spoilt
  BY <1>1 DEF ParamFiles, Spoilt
<1>2. CASE \E k \in 0..Len(Names) : r = Cut(Restrict(v, FirstNames(k) \cap DOMAIN v))
  <2>1. PICK k \in 0..Len(Names) : r = Cut(Restrict(v, FirstNames(k) \cap DOMAIN v))
    BY <1>2
  <2>2. Restrict(v, FirstNames(k) \cap DOMAIN v) \in Texts
    BY CutText
  <2> DEFINE w == Restrict(v, FirstNames(k) \cap DOMAIN v)
  <2> HIDE DEF w
  <2>3. r = Cut(w) /\ w \in Texts
    BY <2>1, <2>2 DEF w
  <2> QED BY <2>3 DEF ParamFiles, Cut
<1> QED BY <1>1, <1>2 DEF Remains

\* The operations of a saving and of a reading.
LEMMA OpsTyped ==
  ASSUME NEW v \in Texts, NEW f \in FileNames, NEW k \in Nat
  PROVE  DeleteFile(f) \in FileOps /\ WriteTo(f, v, k) \in FileOps
BY DEF FileOps

LEMMA SaveAllType ==
  ASSUME NEW v \in Texts
  PROVE  /\ SaveAll(v) \in Seq(FileOps) /\ SaveAll(v) # <<>>
         /\ Tail(SaveAll(v)) = <<WriteTo("main", v, 2), DeleteFile("backup"), WriteTo("backup", v, 0)>>
<1> DEFINE a == DeleteFile("main")
           b == WriteTo("main", v, 2)
           c == DeleteFile("backup")
           d == WriteTo("backup", v, 0)
<1>1. {a, b, c, d} \subseteq FileOps
  BY OpsTyped DEF FileNames
<1>2. SaveAll(v) = <<a, b, c, d>>
  BY DEF SaveAll
<1> HIDE DEF a, b, c, d
<1>3. <<a, b, c, d>> \in Seq(FileOps) /\ <<a, b, c, d>> # <<>>
      /\ Tail(<<a, b, c, d>>) = <<b, c, d>>
  BY <1>1
<1> QED BY <1>2, <1>3 DEF b, c, d

LEMMA CheckBackupType ==
  ASSUME PropTypes, NEW v \in Texts
  PROVE  CheckBackup(v) \in Seq(FileOps)
<1> DEFINE a == DeleteFile("backup")
           b == WriteTo("backup", files.backup.kept, 0)
           c == WriteTo("backup", v, 0)
<1>1. a \in FileOps /\ c \in FileOps
  BY OpsTyped DEF FileNames
<1>2. files.backup.form = "cut" => b \in FileOps
  BY OpsTyped, FileForms DEF FileNames, PropTypes
<1>3. CheckBackup(v) = CASE files.backup.form = "whole" -> <<>>
                         [] files.backup.form = "cut" -> <<a, b>>
                         [] OTHER -> <<a, c, c>>
  BY DEF CheckBackup
<1> HIDE DEF a, b, c
<1> QED BY <1>1, <1>2, <1>3

\* readAll: a whole main file is what it finds.
LEMMA ReadAllType ==
  ASSUME PropTypes
  PROVE  /\ ReadAll.found \in Texts /\ ReadAll.then \in Seq(FileOps)
         /\ files.main.form = "whole" => ReadAll.found = files.main.kept
         /\ files.main.form = "spoilt" /\ files.backup.form = "whole"
              => ReadAll.found = files.backup.kept
<1> DEFINE m == files.main
           b == files.backup
<1>1. m \in ParamFiles /\ b \in ParamFiles
  BY DEF PropTypes
<1>2. /\ m.form \in {"whole", "cut"} => m.kept \in Texts
      /\ b.form \in {"whole", "cut"} => b.kept \in Texts
  BY <1>1, FileForms
<1>3. CASE m.form = "whole"
  <2>1. ReadAll = [found |-> m.kept, then |-> CheckBackup(m.kept)]
    BY <1>3 DEF ReadAll
  <2> QED BY <1>2, <1>3, <2>1, CheckBackupType
<1>4. CASE m.form = "cut"
  <2>1. ReadAll = [found |-> m.kept,
                   then |-> <<WriteTo("main", m.kept, 0)>> \o CheckBackup(m.kept)]
    BY <1>4 DEF ReadAll
  <2>2. WriteTo("main", m.kept, 0) \in FileOps /\ CheckBackup(m.kept) \in Seq(FileOps)
    BY <1>2, <1>4, OpsTyped, CheckBackupType DEF FileNames
  <2>3. <<WriteTo("main", m.kept, 0)>> \o CheckBackup(m.kept) \in Seq(FileOps)
    <3> DEFINE x == WriteTo("main", m.kept, 0)
               q == CheckBackup(m.kept)
    <3> HIDE DEF x, q
    <3>1. <<x>> \in Seq(FileOps) /\ q \in Seq(FileOps)
      BY <2>2 DEF x, q
    <3>2. <<x>> \o q \in Seq(FileOps)
      BY <3>1, ConcatProperties
    <3> QED BY <3>2 DEF x, q
  <2> QED BY <1>2, <1>4, <2>1, <2>3
<1>5. CASE m.form \notin {"whole", "cut"} /\ m.form = "spoilt" /\ b.form = "whole"
  <2>1. ReadAll = [found |-> b.kept, then |-> SaveAll(b.kept)]
    BY <1>5 DEF ReadAll
  <2> QED BY <1>2, <1>5, <2>1, SaveAllType
<1>6. CASE m.form \notin {"whole", "cut"} /\ ~(m.form = "spoilt" /\ b.form = "whole")
  <2>1. ReadAll = [found |-> <<>>, then |-> SaveAll(<<>>)]
    BY <1>6 DEF ReadAll, NothingRead
  <2> QED BY <1>6, <2>1, EmptyText, SaveAllType
<1> QED BY <1>3, <1>4, <1>5, <1>6

----------------------------------------------------------------------------
(* What the operations of the store do.                                    *)

\* set_int_par.
LEMMA SaveTypes ==
  ASSUME PropTypes, NEW v \in Trees, NEW t \in Savers, Save(t, v)
  PROVE  /\ PropTypes'
         /\ tree' = v /\ todo' = SaveAll(v) /\ owner' = t /\ owner = "none"
         /\ UNCHANGED <<files, agreed>>
<1>1. /\ tree' = v /\ todo' = SaveAll(v) /\ owner' = t /\ owner = "none"
      /\ UNCHANGED <<files, agreed>>
  BY DEF Save, ParamsFree
<1>2. t # "none"
  BY DEF Savers, RestartThreads
<1> QED BY <1>1, <1>2, SaveAllType, TreeFields DEF PropTypes

\* A parameter is set.
LEMMA SetParamTypes ==
  ASSUME PropTypes, NEW t \in Savers, NEW n \in Keys, NEW x \in ValuesOf(n), SetParam(t, n, x)
  PROVE  /\ PropTypes'
         /\ tree'[n] = x /\ \A k \in Keys \ {n} : tree'[k] = tree[k]
         /\ tree' \in Trees /\ Save(t, tree')
<1> DEFINE v == [tree EXCEPT ![n] = x]
<1>1. v \in Trees /\ v[n] = x /\ \A k \in Keys \ {n} : v[k] = tree[k]
  BY TreeSet DEF PropTypes
<1>2. Save(t, v)
  BY DEF SetParam
<1> HIDE DEF v
<1> QED BY <1>1, <1>2, SaveTypes

\* init_sys_params.
LEMMA InitSysParamsTypes ==
  ASSUME PropTypes, InitSysParams
  PROVE  /\ PropTypes' /\ files' = files /\ UNCHANGED agreed /\ owner' = "main"
         /\ ReadAll.found \in Texts /\ tree' = WithDefaults(ReadAll.found)
         /\ \A n \in DOMAIN ReadAll.found : tree'[n] = ReadAll.found[n]
<1>1. /\ tree' = WithDefaults(ReadAll.found) /\ owner' = "main" /\ UNCHANGED <<files, agreed>>
      /\ todo' = ReadAll.then \o
           (IF DOMAIN ReadAll.found = DOMAIN Defaults THEN <<>> ELSE SaveAll(tree'))
  BY DEF InitSysParams
<1>2. ReadAll.found \in Texts /\ ReadAll.then \in Seq(FileOps)
  BY ReadAllType
<1>3. tree' \in Trees /\ \A n \in DOMAIN ReadAll.found : tree'[n] = ReadAll.found[n]
  BY <1>1, <1>2, WithDefaultsProperties
<1>4. todo' \in Seq(FileOps)
  <2> DEFINE q == ReadAll.then
             r == IF DOMAIN ReadAll.found = DOMAIN Defaults THEN <<>> ELSE SaveAll(tree')
  <2>1. q \in Seq(FileOps) /\ r \in Seq(FileOps) /\ todo' = q \o r
    BY <1>1, <1>2, <1>3, SaveAllType, TreeFields
  <2> HIDE DEF q, r
  <2> QED BY <2>1, ConcatProperties
<1> QED BY <1>1, <1>2, <1>3, <1>4 DEF PropTypes

\* The next operation is one of the files, on one of the texts.
LEMMA NextOperation ==
  ASSUME PropTypes, todo # <<>>
  PROVE  /\ Head(todo).file \in FileNames /\ Tail(todo) \in Seq(FileOps)
         /\ Head(todo).op \in {"unlink", "write"}
         /\ Head(todo).op = "write" => Head(todo).text \in Texts /\ Head(todo).skip \in Nat
         /\ owner # "none"
<1> DEFINE h == Head(todo)
<1>1. h \in FileOps /\ Tail(todo) \in Seq(FileOps)
  BY HeadTailProperties, EmptySeq DEF PropTypes
<1> HIDE DEF h
<1>2. ASSUME NEW f \in FileNames, h = DeleteFile(f)
      PROVE  h.file \in FileNames /\ h.op = "unlink"
  BY <1>2 DEF DeleteFile
<1>3. ASSUME NEW f \in FileNames, NEW v \in Texts, NEW k \in Nat, h = WriteTo(f, v, k)
      PROVE  h.file \in FileNames /\ h.op = "write" /\ h.text \in Texts /\ h.skip \in Nat
  BY <1>3 DEF WriteTo
<1>4. /\ h.file \in FileNames /\ h.op \in {"unlink", "write"}
      /\ h.op = "write" => h.text \in Texts /\ h.skip \in Nat
  <2>1. \/ \E f \in FileNames : h = DeleteFile(f)
        \/ \E f \in FileNames, v \in Texts, k \in Nat : h = WriteTo(f, v, k)
    BY <1>1 DEF FileOps
  <2>2. CASE \E f \in FileNames : h = DeleteFile(f)
    BY <1>2, <2>2
  <2>3. CASE \E f \in FileNames, v \in Texts, k \in Nat : h = WriteTo(f, v, k)
    BY <1>3, <2>3
  <2> QED BY <2>1, <2>2, <2>3
<1> QED BY <1>1, <1>4 DEF h, PropTypes

\* One file is replaced.
LEMMA FileReplaced ==
  ASSUME PropTypes, NEW f \in FileNames, NEW r \in ParamFiles
  PROVE  /\ [files EXCEPT ![f] = r] \in [main : ParamFiles, backup : ParamFiles]
         /\ [files EXCEPT ![f] = r].main = IF f = "main" THEN r ELSE files.main
         /\ [files EXCEPT ![f] = r].backup = IF f = "backup" THEN r ELSE files.backup
BY DEF PropTypes, FileNames

LEMMA FileOperationTypes ==
  ASSUME PropTypes, FileOperation
  PROVE  PropTypes'
<1> DEFINE f == Head(todo).file
           r == IF Head(todo).op = "unlink" THEN Absent ELSE Whole(Head(todo).text)
<1>1. todo # <<>> /\ files' = [files EXCEPT ![f] = r] /\ todo' = Tail(todo)
      /\ UNCHANGED <<tree, owner, mishaps, agreed>>
  BY DEF FileOperation
<1>2. f \in FileNames /\ r \in ParamFiles
  BY <1>1, NextOperation DEF ParamFiles
<1> HIDE DEF f, r
<1> QED BY <1>1, <1>2, NextOperation, FileReplaced DEF PropTypes

\* A writing that fails leaves no whole file.
LEMMA WriteFailsTypes ==
  ASSUME PropTypes, WriteFails
  PROVE  PropTypes'
<1> DEFINE f == Head(todo).file
           k == Head(todo).skip
           v == Head(todo).text
<1>1. /\ todo # <<>> /\ Head(todo).op = "write" /\ todo' = SubSeq(todo, k + 2, Len(todo))
      /\ UNCHANGED <<tree, owner, agreed>>
      /\ \E r \in Remains(v) \cup {files[f]} : files' = [files EXCEPT ![f] = r]
  BY DEF WriteFails
<1>2. f \in FileNames /\ v \in Texts /\ k \in Nat /\ owner # "none"
  BY <1>1, NextOperation
<1>3. files[f] \in ParamFiles
  BY <1>2 DEF PropTypes, FileNames
<1> HIDE DEF f, k, v
<1>4. PICK r \in ParamFiles : files' = [files EXCEPT ![f] = r]
  BY <1>1, <1>2, <1>3, RemainsType
<1>5. todo' \in Seq(FileOps)
  <2>1. todo \in Seq(FileOps) /\ Len(todo) \in Nat
    BY LenProperties DEF PropTypes
  <2>2. SubSeq(todo, k + 2, Len(todo)) \in Seq(FileOps)
    BY <1>2, <2>1, SubSeqProperties
  <2> QED BY <1>1, <2>2
<1> QED BY <1>1, <1>2, <1>4, <1>5, FileReplaced DEF PropTypes

LEMMA LosesRamTypes ==
  ASSUME PropTypes, LosesRam
  PROVE  /\ PropTypes' /\ owner' = "none" /\ ~agreed'
         /\ todo = <<>> => files' = files
<1> DEFINE f == Head(todo).file
           v == Head(todo).text
<1>1. /\ todo' = <<>> /\ owner' = "none" /\ tree' = Defaults /\ agreed' = FALSE
      /\ \/ files' = files
         \/ /\ todo # <<>> /\ Head(todo).op = "write"
            /\ \E r \in Remains(v) : files' = [files EXCEPT ![f] = r]
  BY DEF LosesRam
<1>2. files' \in [main : ParamFiles, backup : ParamFiles]
  <2>1. CASE files' = files
    BY <2>1 DEF PropTypes
  <2>2. CASE /\ todo # <<>> /\ Head(todo).op = "write"
             /\ \E r \in Remains(v) : files' = [files EXCEPT ![f] = r]
    <3>1. f \in FileNames /\ v \in Texts
      BY <2>2, NextOperation
    <3> HIDE DEF f, v
    <3>2. PICK r \in ParamFiles : files' = [files EXCEPT ![f] = r]
      BY <2>2, <3>1, RemainsType
    <3> QED BY <3>1, <3>2, FileReplaced
  <2> QED BY <1>1, <2>1, <2>2
<1>3. <<>> \in Seq(FileOps)
  OBVIOUS
<1> QED BY <1>1, <1>2, <1>3, DefaultsAreTree DEF PropTypes
----------------------------------------------------------------------------
(* The threads that may want a restart.                                    *)

Pcs == {"ready", "start", "again", "count",
        "check", "read", "write", "reason", "restart", "sleep"}
Backs == {"ready", "start", "again", "count"}
Threads == [RestartThreads -> [pc : Pcs, event : Reasons, next : Nat, back : Backs]]

BootTypes == PropTypes /\ thread \in Threads /\ restarts \in Nat

\* A thread that has asked for a restart, one that goes for it, one that has raised the
\* count, and one that has noted why.
Asking(t) == thread[t].pc \in {"check", "read", "write", "reason", "restart", "sleep"}
Restarting(t) == thread[t].pc \in {"read", "write", "reason", "restart", "sleep"}
Raised(t) == thread[t].pc \in {"reason", "restart", "sleep"}
Noted(t) == thread[t].pc \in {"restart", "sleep"}

\* A thread goes on.
LEMMA ThreadGoes ==
  ASSUME thread \in Threads, NEW t \in RestartThreads, NEW p \in Pcs, Goes(t, p)
  PROVE  /\ thread' \in Threads
         /\ thread'[t].pc = p /\ thread'[t].event = thread[t].event
         /\ thread'[t].next = thread[t].next
         /\ \A s \in RestartThreads \ {t} : thread'[s] = thread[s]
<1> DEFINE r == [thread[t] EXCEPT !.pc = p]
<1>1. thread' = [thread EXCEPT ![t] = r]
  BY DEF Goes
<1>2. /\ r \in [pc : Pcs, event : Reasons, next : Nat, back : Backs]
      /\ r.pc = p /\ r.event = thread[t].event /\ r.next = thread[t].next
  BY DEF Threads
<1> HIDE DEF r
<1>3. /\ thread' \in Threads /\ thread'[t] = r
      /\ \A s \in RestartThreads \ {t} : thread'[s] = thread[s]
  BY <1>1, <1>2 DEF Threads
<1> QED BY <1>2, <1>3

LEMMA ThreadsQuiet ==
  ASSUME thread' = [t \in RestartThreads |-> Quiet]
  PROVE  thread' \in Threads /\ \A t \in RestartThreads : thread'[t].pc = "ready"
BY DEF Threads, Quiet, Pcs, Backs, Reasons

\* The event a restart resumes is one of calls.
LEMMA AskedEvents == /\ CallEvents \cup {"DEFAULT"} \subseteq Reasons
                     /\ "none" \notin CallEvents /\ "DEFAULT" \notin CallEvents
                     /\ Kinds \subseteq CallEvents
BY BootAssumption DEF Reasons, CallEvents

\* A thread asks for a restart.
LEMMA RefusedTypes ==
  ASSUME thread \in Threads, NEW t \in RestartThreads, NEW e \in CallEvents \cup {"DEFAULT"},
         Refused(t, e)
  PROVE  /\ thread' \in Threads /\ thread'[t].pc = "check" /\ thread'[t].event = e
         /\ \A s \in RestartThreads \ {t} : thread'[s] = thread[s]
<1> DEFINE r == [pc |-> "check", event |-> e, next |-> 0, back |-> thread[t].pc]
<1>1. thread' = [thread EXCEPT ![t] = r]
  BY DEF Refused
<1>2. thread[t].pc \in Backs
  <2>1. CASE t = "ecall"
    BY <2>1 DEF Refused, At, Backs
  <2>2. CASE t # "ecall"
    BY <2>2 DEF Refused, At, Backs
  <2> QED BY <2>1, <2>2
<1>3. /\ r \in [pc : Pcs, event : Reasons, next : Nat, back : Backs]
      /\ r.pc = "check" /\ r.event = e
  BY <1>2, AskedEvents DEF Pcs
<1> HIDE DEF r
<1>4. /\ thread' \in Threads /\ thread'[t] = r
      /\ \A s \in RestartThreads \ {t} : thread'[s] = thread[s]
  BY <1>1, <1>3 DEF Threads
<1> QED BY <1>3, <1>4

\* Steps of restart_from_reason.
LEMMA RestartStepTypes ==
  ASSUME BootTypes, NEW t \in RestartThreads, RestartSteps(t)
  PROVE  /\ BootTypes' /\ thread'[t].event = thread[t].event
         /\ \A s \in RestartThreads \ {t} : thread'[s] = thread[s]
         /\ Asking(t) /\ TasksRun
         /\ UNCHANGED <<at, callVars, posted, reasons, restarts, putBack, damaged>>
<1> USE DEF BootTypes
<1>1. /\ UNCHANGED <<at, callVars, posted, reasons, restarts, putBack, damaged>>
      /\ Asking(t) /\ TasksRun
  BY DEF RestartSteps, histVars, ChecksCount, ReadsCount, SetsCount, SetsReason, CallsRestart, At,
         Asking
<1>2. t \in Savers /\ thread[t].next \in Nat /\ thread[t].back \in Backs
      /\ thread[t].event \in Reasons
  BY DEF Threads, Savers
<1>3. tree.era_restart \in Nat
  BY TreeFields DEF PropTypes
<1>4. ASSUME UNCHANGED propVars PROVE PropTypes'
  BY <1>4 DEF propVars, PropTypes
<1>5. CASE ChecksCount(t)
  <2>1. \E p \in Pcs : Goes(t, p)
    BY <1>2, <1>5 DEF ChecksCount, Pcs, Backs
  <2>2. PropTypes'
    BY <1>4, <1>5 DEF ChecksCount
  <2> QED BY <1>1, <2>1, <2>2, ThreadGoes
<1>6. CASE ReadsCount(t)
  <2> DEFINE n == tree.era_restart + 1
             r == [thread[t] EXCEPT !.pc = "write", !.next = n]
  <2>1. n \in Nat
    BY <1>3
  <2>2. thread' = [thread EXCEPT ![t] = r]
    BY <1>6 DEF ReadsCount
  <2> HIDE DEF n
  <2>3. /\ r \in [pc : Pcs, event : Reasons, next : Nat, back : Backs]
        /\ r.event = thread[t].event
    BY <2>1 DEF Threads, Pcs
  <2> HIDE DEF r
  <2>4. PropTypes'
    BY <1>4, <1>6 DEF ReadsCount
  <2>5. /\ thread' \in Threads /\ thread'[t] = r
        /\ \A s \in RestartThreads \ {t} : thread'[s] = thread[s]
    BY <2>2, <2>3 DEF Threads
  <2> QED BY <1>1, <2>3, <2>4, <2>5
<1>7. CASE SetsCount(t)
  <2>1. PropTypes'
    BY <1>2, <1>7, SetParamTypes DEF SetsCount, Keys, ValuesOf
  <2>2. Goes(t, "reason") /\ "reason" \in Pcs
    BY <1>7 DEF SetsCount, Pcs
  <2> QED BY <1>1, <2>1, <2>2, ThreadGoes
<1>8. CASE SetsReason(t)
  <2>1. PropTypes'
    BY <1>2, <1>8, SetParamTypes DEF SetsReason, Keys, ValuesOf
  <2>2. Goes(t, "restart") /\ "restart" \in Pcs
    BY <1>8 DEF SetsReason, Pcs
  <2> QED BY <1>1, <2>1, <2>2, ThreadGoes
<1>9. CASE CallsRestart(t)
  <2>1. \E p \in Pcs : Goes(t, p)
    BY <1>2, <1>9 DEF CallsRestart, Pcs, Backs
  <2>2. PropTypes'
    BY <1>4, <1>9 DEF CallsRestart
  <2> QED BY <1>1, <2>1, <2>2, ThreadGoes
<1> QED BY <1>5, <1>6, <1>7, <1>8, <1>9 DEF RestartSteps

----------------------------------------------------------------------------
(* The steps, by what they do to the store, to the threads and to what is  *)
(* remembered.                                                             *)

\* The unit goes down.
GoesDown == (\E t \in RestartThreads : Reboot(t)) \/ PowerLoss \/ RebootsAfterFailure

\* An operation on the files, or the end of a saving, and nothing else.
StoreStep ==
  PropNext /\ UNCHANGED <<at, callVars, posted, msdVars, thread, toRestart, begun, histVars>>

LEMMA DownSteps == GoesDown => Down
BY DEF GoesDown, Reboot, PowerLoss, RebootsAfterFailure

\* The unit is off or reads its parameters.
LEMMA BeforeTasksSteps ==
  ASSUME [BootNext]_bootVars
  PROVE  /\ at' = "off" => GoesDown \/ (at = "off" /\ (StoreStep \/ UNCHANGED bootVars))
         /\ at' = "params" =>
              PowerOn \/ (at = "params" /\ (StoreStep \/ UNCHANGED bootVars))
         /\ ~TasksRun /\ TasksRun' => InitTasks
         /\ PowerOn => at = "off" /\ at' = "params"
<1> DEFINE others == ~(at' \in {"off", "params"}) /\ TasksRun
<1>1. CountsBoots \/ SetsTrCnt \/ ReadsRestarts \/ ReadsReason \/ ClearsCount \/ Resumes
        \/ ModemInitFails => others
  BY DEF CountsBoots, SetsTrCnt, ReadsRestarts, ReadsReason, ClearsCount, Resumes, ModemInitFails,
         MainGoes, TasksRun, Resumed
<1>2. CallSteps => others
  BY DEF CallSteps, CallBegins, TakesPosted, NewMsd, FindsMsd, CountsCall, StartsDialling, Connected,
         MsdTimeout, DialIsOver, CallIsOver, At, TasksRun
<1>3. (\E t \in RestartThreads, e \in CallEvents \cup {"DEFAULT"} : Refused(t, e)) => others
  BY DEF Refused, At, TasksRun
<1>4. (\E t \in RestartThreads : RestartSteps(t)) => others
  BY DEF RestartSteps, ChecksCount, ReadsCount, SetsCount, SetsReason, CallsRestart, At, TasksRun
<1>5. PowerOn => at = "off" /\ at' = "params" /\ ~(at' = "off")
  BY DEF PowerOn
<1>6. InitTasks => ~(at' \in {"off", "params"})
  BY DEF InitTasks
<1>7. GoesDown => at' = "off"
  BY DownSteps DEF Down
<1>8. StoreStep \/ UNCHANGED bootVars => at' = at
  BY DEF StoreStep, bootVars
<1>9. \/ StoreStep \/ UNCHANGED bootVars \/ GoesDown \/ PowerOn \/ InitTasks
      \/ CountsBoots \/ SetsTrCnt \/ ReadsRestarts \/ ReadsReason \/ ClearsCount \/ Resumes
      \/ ModemInitFails \/ CallSteps
      \/ \E t \in RestartThreads, e \in CallEvents \cup {"DEFAULT"} : Refused(t, e)
      \/ \E t \in RestartThreads : RestartSteps(t)
  BY Zenon DEF BootNext, MainSteps, GoesDown, StoreStep
<1>10. others => ~(at' \in {"off", "params"}) /\ TasksRun
  OBVIOUS
<1> DEFINE still == StoreStep \/ UNCHANGED bootVars
<1> HIDE DEF others
<1>11. others \/ PowerOn \/ InitTasks \/ GoesDown \/ still
  BY <1>1, <1>2, <1>3, <1>4, <1>9, Zenon
<1>12. still => at' = at
  BY <1>8
<1> HIDE DEF still
<1>13. /\ at' = "off" => GoesDown \/ (at = "off" /\ still)
       /\ at' = "params" => PowerOn \/ (at = "params" /\ still)
       /\ ~TasksRun /\ TasksRun' => InitTasks
       /\ PowerOn => at = "off" /\ at' = "params"
  BY <1>5, <1>6, <1>7, <1>10, <1>11, <1>12 DEF TasksRun
<1> QED BY <1>13 DEF still

\* M2MB_main has decided once while the unit is up.
LEMMA RunGoesOn ==
  ASSUME [BootNext]_bootVars, at = "run"
  PROVE  at' = "run" \/ GoesDown
<1>1. ~(\/ InitTasks \/ CountsBoots \/ SetsTrCnt \/ ReadsRestarts \/ ReadsReason \/ Resumes
        \/ ModemInitFails \/ PowerOn \/ ClearsCount)
  BY DEF InitTasks, CountsBoots, SetsTrCnt, ReadsRestarts, ReadsReason, MainGoes, Resumes,
         ModemInitFails, PowerOn, ClearsCount, Resumed
<1>2. CASE CallSteps \/ StoreStep \/ UNCHANGED bootVars
  BY <1>2 DEF CallSteps, CallBegins, TakesPosted, NewMsd, FindsMsd, CountsCall, StartsDialling,
              Connected, MsdTimeout, DialIsOver, CallIsOver, StoreStep, bootVars
<1>3. CASE \E t \in RestartThreads, e \in CallEvents \cup {"DEFAULT"} : Refused(t, e)
  BY <1>3 DEF Refused
<1>4. CASE \E t \in RestartThreads : RestartSteps(t)
  BY <1>4 DEF RestartSteps
<1> QED BY <1>1, <1>2, <1>3, <1>4, Zenon DEF BootNext, MainSteps, GoesDown, StoreStep

\* What a step does to the store.
LEMMA StoreSteps ==
  ASSUME BootTypes, [BootNext]_bootVars
  PROVE  \/ UNCHANGED storeVars
         \/ StoreStep
         \/ PowerOn
         \/ GoesDown
         \/ /\ TasksRun
            /\ tree' \in Trees /\ \E t \in Savers : Save(t, tree')
<1>1. tree \in Trees /\ tree.tr_cnt \in Nat /\ tree.tr_cnt + 1 \in Nat /\ PropTypes
  BY TreeFields DEF BootTypes, PropTypes
<1>2. {"ecall", "era", "main"} \subseteq Savers
  BY DEF Savers, RestartThreads
<1>3. UNCHANGED propVars => UNCHANGED storeVars
  BY DEF propVars, storeVars
<1>4. CASE PowerOn \/ InitTasks \/ CountsBoots \/ ReadsRestarts \/ ReadsReason \/ Resumes
           \/ ModemInitFails \/ RebootsAfterFailure
  BY <1>3, <1>4 DEF InitTasks, CountsBoots, ReadsRestarts, ReadsReason, MainGoes, Resumes,
                    ModemInitFails, storeVars, GoesDown
<1>5. CASE SetsTrCnt
  <2> DEFINE x == IF at = "more" THEN tree.tr_cnt + 1 ELSE 0
  <2>1. SetParam("main", "tr_cnt", x) /\ x \in ValuesOf("tr_cnt") /\ TasksRun
    BY <1>1, <1>5 DEF SetsTrCnt, ValuesOf, TasksRun
  <2> HIDE DEF x
  <2> QED BY <1>1, <1>2, <2>1, SetParamTypes DEF Keys
<1>6. CASE ClearsCount
  <2>1. SetParam("main", "era_restart", 0) /\ 0 \in ValuesOf("era_restart") /\ TasksRun
    BY <1>6 DEF ClearsCount, ValuesOf, TasksRun
  <2> QED BY <1>1, <1>2, <2>1, SetParamTypes DEF Keys
<1>7. CASE Connected
  <2>1. CASE SetParam("era", "era_restart", 0)
    <3>1. 0 \in ValuesOf("era_restart") /\ TasksRun
      BY <1>7 DEF Connected, ValuesOf, At
    <3> QED BY <1>1, <1>2, <2>1, <3>1, SetParamTypes DEF Keys
  <2>2. CASE UNCHANGED propVars
    BY <1>3, <2>2
  <2> QED BY <1>7, <2>1, <2>2 DEF Connected
<1>8. CASE CountsCall
  <2>1. CASE Save("ecall", tree)
    <3>1. tree' = tree /\ TasksRun
      BY <1>8, <2>1 DEF Save, CountsCall, At
    <3> QED BY <1>1, <1>2, <2>1, <3>1
  <2> QED BY <1>3, <1>8, <2>1 DEF CountsCall
<1>9. CASE \/ (\E e \in Kinds : CallBegins(e)) \/ TakesPosted \/ NewMsd \/ FindsMsd \/ StartsDialling
           \/ MsdTimeout \/ DialIsOver \/ CallIsOver
  BY <1>3, <1>9 DEF CallBegins, TakesPosted, NewMsd, FindsMsd, StartsDialling, MsdTimeout, DialIsOver,
                    CallIsOver
<1>10. CASE \E t \in RestartThreads, e \in CallEvents \cup {"DEFAULT"} : Refused(t, e)
  BY <1>3, <1>10 DEF Refused
<1>11. CASE \E t \in RestartThreads : RestartSteps(t)
  <2>1. PICK t \in RestartThreads : RestartSteps(t)
    BY <1>11
  <2>2. t \in Savers /\ thread[t].next \in Nat /\ thread[t].event \in Reasons /\ TasksRun
    BY <2>1, RestartStepTypes DEF BootTypes, Threads, Savers
  <2>3. CASE SetsCount(t)
    BY <1>1, <2>2, <2>3, SetParamTypes DEF SetsCount, Keys, ValuesOf
  <2>4. CASE SetsReason(t)
    BY <1>1, <2>2, <2>4, SetParamTypes DEF SetsReason, Keys, ValuesOf
  <2>5. CASE ChecksCount(t) \/ ReadsCount(t) \/ CallsRestart(t)
    BY <1>3, <2>5 DEF ChecksCount, ReadsCount, CallsRestart
  <2> QED BY <2>1, <2>3, <2>4, <2>5 DEF RestartSteps
<1>12. CASE StoreStep \/ GoesDown \/ UNCHANGED bootVars
  BY <1>12 DEF bootVars, propVars, storeVars
<1> QED BY <1>4, <1>5, <1>6, <1>7, <1>8, <1>9, <1>10, <1>11, <1>12, Zenon
        DEF BootNext, MainSteps, CallSteps, GoesDown, StoreStep

\* What a step does to the threads.
LEMMA ThreadSteps ==
  ASSUME BootTypes, [BootNext]_bootVars
  PROVE  /\ thread' \in Threads
         /\ \/ UNCHANGED thread
            \/ GoesDown /\ \A t \in RestartThreads : thread'[t].pc = "ready"
            \/ \E t \in RestartThreads : RestartSteps(t)
            \/ \E t \in RestartThreads, e \in CallEvents \cup {"DEFAULT"} : Refused(t, e)
            \/ /\ thread["ecall"].pc \in Backs /\ thread'["ecall"].pc \in Backs
               /\ thread'["era"] = thread["era"] /\ TasksRun
<1>1. thread \in Threads /\ RestartThreads = {"ecall", "era"}
  BY DEF BootTypes, RestartThreads
<1>2. ASSUME NEW p \in Backs, Goes("ecall", p), thread["ecall"].pc \in Backs, TasksRun
      PROVE  /\ thread' \in Threads
             /\ thread["ecall"].pc \in Backs /\ thread'["ecall"].pc \in Backs
             /\ thread'["era"] = thread["era"] /\ TasksRun
  BY <1>1, <1>2, ThreadGoes DEF Pcs, Backs
<1>3. CASE \/ StoreStep \/ UNCHANGED bootVars \/ PowerOn \/ InitTasks
           \/ CountsBoots \/ SetsTrCnt \/ ReadsRestarts \/ ReadsReason \/ ClearsCount \/ Resumes
           \/ ModemInitFails \/ StartsDialling \/ Connected \/ MsdTimeout \/ DialIsOver \/ CallIsOver
  <2>1. UNCHANGED thread
    BY <1>3 DEF StoreStep, bootVars, PowerOn, InitTasks, CountsBoots, SetsTrCnt, ReadsRestarts,
                ReadsReason, MainGoes, ClearsCount, Resumes, ModemInitFails, StartsDialling,
                Connected, MsdTimeout, DialIsOver, CallIsOver
  <2> QED BY <1>1, <2>1
<1>4. CASE GoesDown
  <2>1. thread' = [t \in RestartThreads |-> Quiet]
    BY <1>4, DownSteps DEF Down
  <2> QED BY <1>4, <2>1, ThreadsQuiet
<1>5. CASE \E t \in RestartThreads : RestartSteps(t)
  BY <1>5, RestartStepTypes DEF BootTypes
<1>6. CASE \E t \in RestartThreads, e \in CallEvents \cup {"DEFAULT"} : Refused(t, e)
  BY <1>1, <1>6, RefusedTypes
<1>7. CASE (\E e \in Kinds : CallBegins(e)) \/ NewMsd \/ FindsMsd \/ CountsCall
  <2>1. /\ thread["ecall"].pc \in Backs /\ TasksRun
        /\ Goes("ecall", "start") \/ Goes("ecall", "count") \/ Goes("ecall", "ready")
    BY <1>7 DEF CallBegins, NewMsd, FindsMsd, CountsCall, At, Backs
  <2> QED BY <1>2, <2>1 DEF Backs
<1>8. CASE TakesPosted
  <2>1. /\ thread["ecall"].pc \in Backs /\ TasksRun
        /\ Goes("ecall", "again") \/ UNCHANGED thread
    BY <1>8 DEF TakesPosted, At, Backs
  <2> QED BY <1>1, <1>2, <2>1 DEF Backs
<1> QED BY <1>3, <1>4, <1>5, <1>6, <1>7, <1>8, Zenon
        DEF BootNext, MainSteps, CallSteps, GoesDown, StoreStep

\* What is remembered of the restarts changes in few steps.
LEMMA HistorySteps ==
  ASSUME [BootNext]_bootVars, ~GoesDown
  PROVE  /\ damaged' = damaged
         /\ \/ \E e \in Kinds : CallBegins(e)
            \/ Connected
            \/ ClearsCount
            \/ UNCHANGED <<restarts, putBack>>
         /\ \/ \E t \in RestartThreads, e \in CallEvents \cup {"DEFAULT"} : Refused(t, e)
            \/ UNCHANGED reasons
<1>1. CASE \/ StoreStep \/ UNCHANGED bootVars \/ PowerOn \/ InitTasks
           \/ CountsBoots \/ SetsTrCnt \/ ReadsRestarts \/ ReadsReason \/ Resumes
           \/ ModemInitFails
  <2>1. UNCHANGED <<damaged, restarts, putBack, reasons>>
    BY <1>1 DEF StoreStep, bootVars, histVars, PowerOn, InitTasks, CountsBoots, SetsTrCnt,
                ReadsRestarts, ReadsReason, MainGoes, Resumes, ModemInitFails
  <2> QED BY <2>1
<1>2. CASE \/ TakesPosted \/ NewMsd \/ FindsMsd \/ CountsCall \/ StartsDialling \/ MsdTimeout
           \/ DialIsOver \/ CallIsOver
  <2>1. UNCHANGED <<damaged, restarts, putBack, reasons>>
    BY <1>2 DEF TakesPosted, NewMsd, FindsMsd, CountsCall, StartsDialling, MsdTimeout, DialIsOver,
                CallIsOver, histVars
  <2> QED BY <2>1
<1>3. CASE (\E e \in Kinds : CallBegins(e)) \/ Connected \/ ClearsCount
  BY <1>3 DEF CallBegins, Connected, ClearsCount
<1>4. CASE \E t \in RestartThreads, e \in CallEvents \cup {"DEFAULT"} : Refused(t, e)
  BY <1>4 DEF Refused
<1>5. CASE \E t \in RestartThreads : RestartSteps(t)
  <2>1. UNCHANGED <<damaged, restarts, putBack, reasons>>
    BY <1>5 DEF RestartSteps, histVars
  <2> QED BY <2>1
<1> QED BY <1>1, <1>2, <1>3, <1>4, <1>5, Zenon
        DEF BootNext, MainSteps, CallSteps, GoesDown, StoreStep

\* Every step keeps the types.
LEMMA BootTypesKept ==
  ASSUME BootTypes, [BootNext]_bootVars
  PROVE  BootTypes'
<1>1. PropTypes /\ restarts \in Nat
  BY DEF BootTypes
<1>2. thread' \in Threads
  BY ThreadSteps
<1>3. PropTypes'
  <2>1. CASE UNCHANGED storeVars
    BY <1>1, <2>1 DEF storeVars, PropTypes
  <2>2. CASE StoreStep
    <3>1. CASE Saved
      BY <1>1, <3>1 DEF Saved, PropTypes
    <3> QED BY <1>1, <2>2, <3>1, FileOperationTypes, WriteFailsTypes DEF StoreStep, PropNext
  <2>3. CASE PowerOn
    BY <1>1, <2>3, InitSysParamsTypes DEF PowerOn
  <2>4. CASE GoesDown
    BY <1>1, <2>4, LosesRamTypes, DownSteps DEF Down
  <2>5. CASE tree' \in Trees /\ \E t \in Savers : Save(t, tree')
    BY <1>1, <2>5, SaveTypes
  <2> QED BY <2>1, <2>2, <2>3, <2>4, <2>5, StoreSteps
<1>4. restarts' \in Nat
  <2>1. CASE GoesDown
    BY <1>1, <2>1 DEF GoesDown, Reboot, PowerLoss, RebootsAfterFailure
  <2>2. CASE ~GoesDown
    BY <1>1, <2>2, HistorySteps DEF CallBegins, Connected, ClearsCount
  <2> QED BY <2>1, <2>2
<1> QED BY <1>2, <1>3, <1>4 DEF BootTypes
----------------------------------------------------------------------------
(* The savings of a unit that runs.                                        *)

\* How far a saving has come.
Saving ==
  \/ todo = SaveAll(tree)
  \/ /\ todo = <<WriteTo("main", tree, 2), DeleteFile("backup"), WriteTo("backup", tree, 0)>>
     /\ files.main.form # "whole"
  \/ /\ todo \in {<<DeleteFile("backup"), WriteTo("backup", tree, 0)>>,
                  <<WriteTo("backup", tree, 0)>>}
     /\ files.main = Whole(tree)
  \/ todo = <<>> /\ (files.main.form = "whole" => files.main.kept = tree)

\* The backup is deleted or written over, beside a main file that is whole.
BackupInWork ==
  owner # "none" /\ files.main = Whole(tree) /\ todo \in {<<WriteTo("backup", tree, 0)>>, <<>>}

\* A saving goes on, fails or ends.
LEMMA SavingGoesOn ==
  ASSUME PropTypes, Saving, owner # "none", PropNext
  PROVE  /\ tree' = tree
         /\ \/ /\ owner' = owner /\ agreed' = agreed /\ Saving'
               /\ files'.main.form = "whole" => files'.main.kept = tree
               /\ BackupInWork' \/ (~BackupInWork /\ files'.backup = files.backup)
            \/ /\ owner' = "none" /\ files' = files
               /\ files.main.form = "whole" => files.main.kept = tree
               /\ agreed' => files = [main |-> Whole(tree), backup |-> Whole(tree)]
<1> DEFINE a == DeleteFile("main")
           b == WriteTo("main", tree, 2)
           c == DeleteFile("backup")
           d == WriteTo("backup", tree, 0)
           m == files.main
           w == Whole(tree)
           Goal == /\ tree' = tree
                   /\ \/ /\ owner' = owner /\ agreed' = agreed /\ Saving'
                         /\ files'.main.form = "whole" => files'.main.kept = tree
                         /\ BackupInWork' \/ (~BackupInWork /\ files'.backup = files.backup)
                      \/ /\ owner' = "none" /\ files' = files
                         /\ files.main.form = "whole" => files.main.kept = tree
                         /\ agreed' => files = [main |-> Whole(tree), backup |-> Whole(tree)]
<1>1. /\ a.file = "main" /\ a.op = "unlink"
      /\ b.file = "main" /\ b.op = "write" /\ b.text = tree /\ b.skip = 2
      /\ c.file = "backup" /\ c.op = "unlink"
      /\ d.file = "backup" /\ d.op = "write" /\ d.skip = 0
      /\ w.form = "whole" /\ w.kept = tree
  BY DEF DeleteFile, WriteTo, Whole
<1>2. \/ todo = <<a, b, c, d>>
      \/ todo = <<b, c, d>> /\ m.form # "whole"
      \/ todo \in {<<c, d>>, <<d>>} /\ m = w
      \/ todo = <<>> /\ (m.form = "whole" => m.kept = tree)
  BY DEF Saving, SaveAll
<1>3. ASSUME tree' = tree,
             \/ todo' = <<b, c, d>> /\ files'.main.form # "whole"
             \/ todo' \in {<<c, d>>, <<d>>} /\ files'.main = w
             \/ todo' = <<>> /\ (files'.main.form = "whole" => files'.main.kept = tree)
      PROVE  Saving'
  BY <1>3 DEF Saving
<1>4. ASSUME tree' = tree, owner' = owner, todo' \in {<<d>>, <<>>}, files'.main = w
      PROVE  BackupInWork'
  BY <1>4 DEF BackupInWork
<1>5. BackupInWork => m = w /\ todo \in {<<d>>, <<>>}
  BY DEF BackupInWork
<1> HIDE DEF a, b, c, d, w
<1>6. todo \in {<<a, b, c, d>>, <<b, c, d>>, <<c, d>>} => ~BackupInWork
  <2>1. \A x \in {<<d>>, <<>>} : x \notin {<<a, b, c, d>>, <<b, c, d>>, <<c, d>>}
    OBVIOUS
  <2> QED BY <1>5, <2>1
<1>7. CASE FileOperation
  <2> DEFINE r == IF Head(todo).op = "unlink" THEN Absent ELSE Whole(Head(todo).text)
  <2>1. /\ todo # <<>> /\ todo' = Tail(todo) /\ tree' = tree /\ owner' = owner /\ agreed' = agreed
        /\ files' = [files EXCEPT ![Head(todo).file] = r]
    BY <1>7 DEF FileOperation
  <2>2. Head(todo).file \in FileNames /\ r \in ParamFiles
    BY <2>1, NextOperation DEF ParamFiles
  <2>3. /\ files'.main = IF Head(todo).file = "main" THEN r ELSE m
        /\ files'.backup = IF Head(todo).file = "backup" THEN r ELSE files.backup
    BY <2>1, <2>2, FileReplaced
  <2>4. CASE todo = <<a, b, c, d>>
    <3>1. Head(todo) = a /\ todo' = <<b, c, d>>
      BY <2>1, <2>4
    <3>2. files'.main = Absent /\ files'.backup = files.backup
      BY <1>1, <2>3, <3>1
    <3>3. Absent.form # "whole"
      BY DEF Absent
    <3> QED BY <1>3, <1>6, <2>1, <2>4, <3>1, <3>2, <3>3
  <2>5. CASE todo = <<b, c, d>>
    <3>1. Head(todo) = b /\ todo' = <<c, d>>
      BY <2>1, <2>5
    <3>2. files'.main = w /\ files'.backup = files.backup
      BY <1>1, <2>3, <3>1 DEF w
    <3> QED BY <1>1, <1>3, <1>6, <2>1, <2>5, <3>1, <3>2
  <2>6. CASE todo \in {<<c, d>>, <<d>>} /\ m = w
    <3>1. Head(todo) \in {c, d} /\ todo' \in {<<d>>, <<>>}
      <4>1. Head(<<c, d>>) = c /\ Tail(<<c, d>>) = <<d>> /\ Head(<<d>>) = d /\ Tail(<<d>>) = <<>>
        OBVIOUS
      <4> QED BY <2>1, <2>6, <4>1
    <3>2. files'.main = w
      BY <1>1, <2>3, <2>6, <3>1
    <3> QED BY <1>1, <1>3, <1>4, <2>1, <3>1, <3>2
  <2> QED BY <1>2, <2>1, <2>4, <2>5, <2>6
<1>8. CASE WriteFails
  <2> DEFINE f == Head(todo).file
             k == Head(todo).skip
             v == Head(todo).text
  <2>1. /\ todo # <<>> /\ Head(todo).op = "write" /\ todo' = SubSeq(todo, k + 2, Len(todo))
        /\ tree' = tree /\ owner' = owner /\ agreed' = agreed
        /\ \E r \in Remains(v) \cup {files[f]} : files' = [files EXCEPT ![f] = r]
    BY <1>8 DEF WriteFails
  <2>2. f \in FileNames /\ v \in Texts
    BY <2>1, NextOperation
  <2>3. files[f] \in ParamFiles /\ (f = "main" => files[f] = m)
    BY <2>2 DEF PropTypes, FileNames
  <2> HIDE DEF f, k, v
  <2>4. PICK r \in Remains(v) \cup {files[f]} : files' = [files EXCEPT ![f] = r]
    BY <2>1
  <2>5. r \in ParamFiles /\ (r.form # "whole" \/ r = files[f])
    BY <2>2, <2>3, <2>4, RemainsType
  <2>6. /\ files'.main = IF f = "main" THEN r ELSE m
        /\ files'.backup = IF f = "backup" THEN r ELSE files.backup
    BY <2>2, <2>4, <2>5, FileReplaced
  <2>7. CASE todo = <<b, c, d>> /\ m.form # "whole"
    <3>1. Head(todo) = b /\ Len(todo) = 3 /\ SubSeq(todo, 4, 3) = <<>>
      BY <2>7
    <3>2. todo' = <<>> /\ f = "main"
      BY <1>1, <2>1, <3>1 DEF f, k
    <3>3. files'.main.form # "whole" /\ files'.backup = files.backup
      BY <2>3, <2>5, <2>6, <2>7, <3>2
    <3> QED BY <1>3, <1>6, <2>1, <2>7, <3>2, <3>3
  <2>8. CASE todo = <<d>> /\ m = w
    <3>1. Head(todo) = d /\ Len(todo) = 1 /\ SubSeq(todo, 2, 1) = <<>>
      BY <2>8
    <3>2. todo' = <<>> /\ f = "backup"
      BY <1>1, <2>1, <3>1 DEF f, k
    <3>3. files'.main = w
      BY <2>6, <2>8, <3>2
    <3> QED BY <1>1, <1>3, <1>4, <2>1, <3>2, <3>3
  <2>9. CASE todo \in {<<a, b, c, d>>, <<c, d>>}
    <3>1. Head(todo) \in {a, c}
      BY <2>9
    <3> QED BY <1>1, <2>1, <3>1
  <2> QED BY <1>2, <2>1, <2>7, <2>8, <2>9
<1>9. CASE Saved
  <2>1. /\ todo = <<>> /\ owner' = "none" /\ tree' = tree /\ files' = files
        /\ agreed' = (files = [main |-> Whole(tree), backup |-> Whole(tree)])
    BY <1>9 DEF Saved
  <2>2. m.form = "whole" => m.kept = tree
    <3>1. <<>> \notin {<<a, b, c, d>>, <<b, c, d>>, <<c, d>>, <<d>>}
      OBVIOUS
    <3> QED BY <1>2, <2>1, <3>1
  <2>3. agreed' => files = [main |-> Whole(tree), backup |-> Whole(tree)]
    BY <2>1, Zenon
  <2> QED BY <2>1, <2>2, <2>3
<1> QED BY <1>7, <1>8, <1>9 DEF PropNext

\* The unit goes down: a main file that is whole is the one it had, and beside one that is
\* spoilt nothing has been done to the backup.
LEMMA SavingIsLost ==
  ASSUME PropTypes, owner # "none" => Saving, LosesRam
  PROVE  /\ files'.main.form = "whole" => files'.main = files.main
         /\ files'.main.form = "spoilt" => ~BackupInWork /\ files'.backup = files.backup
<1> DEFINE a == DeleteFile("main")
           b == WriteTo("main", tree, 2)
           c == DeleteFile("backup")
           d == WriteTo("backup", tree, 0)
           w == Whole(tree)
<1>1. /\ a.op = "unlink" /\ b.file = "main" /\ c.op = "unlink" /\ d.file = "backup"
      /\ w.form = "whole"
  BY DEF DeleteFile, WriteTo, Whole
<1>2. owner # "none" =>
        \/ todo = <<a, b, c, d>>
        \/ todo = <<b, c, d>> /\ files.main.form # "whole"
        \/ todo \in {<<c, d>>, <<d>>} /\ files.main = w
        \/ todo = <<>>
  BY DEF Saving, SaveAll
<1>3. BackupInWork => files.main = w /\ todo \in {<<d>>, <<>>}
  BY DEF BackupInWork
<1> HIDE DEF a, b, c, d, w
<1>4. CASE files' = files
  BY <1>1, <1>3, <1>4
<1>5. CASE /\ todo # <<>> /\ Head(todo).op = "write"
           /\ \E r \in Remains(Head(todo).text) : files' = [files EXCEPT ![Head(todo).file] = r]
  <2>1. Head(todo).file \in FileNames /\ Head(todo).text \in Texts /\ owner # "none"
    BY <1>5, NextOperation
  <2>2. PICK r \in Remains(Head(todo).text) : files' = [files EXCEPT ![Head(todo).file] = r]
    BY <1>5
  <2>3. r \in ParamFiles /\ r.form # "whole"
    BY <2>1, <2>2, RemainsType
  <2>4. /\ files'.main = IF Head(todo).file = "main" THEN r ELSE files.main
        /\ files'.backup = IF Head(todo).file = "backup" THEN r ELSE files.backup
    BY <2>1, <2>2, <2>3, FileReplaced
  <2>5. CASE todo = <<b, c, d>>
    <3>1. Head(<<b, c, d>>) = b /\ <<b, c, d>> \notin {<<d>>, <<>>}
      OBVIOUS
    <3> QED BY <1>1, <1>3, <2>3, <2>4, <2>5, <3>1
  <2>6. CASE todo = <<d>> /\ files.main = w
    <3>1. Head(<<d>>) = d
      OBVIOUS
    <3> QED BY <1>1, <2>4, <2>6, <3>1
  <2>7. CASE todo \in {<<a, b, c, d>>, <<c, d>>}
    <3>1. Head(<<a, b, c, d>>) = a /\ Head(<<c, d>>) = c
      OBVIOUS
    <3> QED BY <1>1, <1>5, <2>7, <3>1
  <2> QED BY <1>2, <1>5, <2>1, <2>5, <2>6, <2>7
<1> QED BY <1>4, <1>5 DEF LosesRam

\* A store that is at rest does not move.
LEMMA StoreRests ==
  ASSUME PropTypes, owner = "none"
  PROVE  ~PropNext
BY DEF PropTypes, PropNext, FileOperation, WriteFails, Saved

----------------------------------------------------------------------------
(* The unit before its tasks run and while they run.                       *)

\* No call and no restart.
Untouched ==
  /\ action = "none" /\ posted = "none" /\ dialled = "none"
  /\ \A t \in RestartThreads : thread[t].pc = "ready"

Orderly ==
  /\ at = "off" => owner = "none"
  /\ at \in {"off", "params"} => Untouched
  /\ TasksRun /\ owner # "none" => Saving
  /\ \A t \in RestartThreads : Asking(t) => reasons # {}

LEMMA UntouchedKept ==
  ASSUME BootTypes, Untouched, [BootNext]_bootVars
  PROVE  \/ Untouched'
         \/ Resumes
         \/ \E e \in Kinds : CallBegins(e)
<1>1. CASE UNCHANGED <<action, posted, dialled, thread>>
  BY <1>1 DEF Untouched
<1>2. CASE \/ StoreStep \/ UNCHANGED bootVars \/ PowerOn \/ InitTasks
           \/ CountsBoots \/ SetsTrCnt \/ ReadsRestarts \/ ReadsReason \/ ClearsCount
           \/ ModemInitFails \/ Connected \/ MsdTimeout \/ DialIsOver
  <2>1. UNCHANGED <<action, posted, dialled, thread>>
    BY <1>2 DEF StoreStep, bootVars, callVars, PowerOn, InitTasks, CountsBoots, SetsTrCnt,
                ReadsRestarts, ReadsReason, MainGoes, ClearsCount, ModemInitFails, Connected,
                MsdTimeout, DialIsOver
  <2> QED BY <1>1, <2>1
<1>3. ~(TakesPosted \/ NewMsd \/ FindsMsd \/ CountsCall \/ StartsDialling \/ CallIsOver)
  BY DEF TakesPosted, NewMsd, FindsMsd, CountsCall, StartsDialling, CallIsOver, At, Untouched,
         RestartThreads
<1>4. ~(\E t \in RestartThreads, e \in CallEvents \cup {"DEFAULT"} : Refused(t, e))
  BY DEF Refused, At, Untouched
<1>5. ~(\E t \in RestartThreads : RestartSteps(t))
  BY RestartStepTypes DEF Untouched, Asking
<1>6. CASE GoesDown
  BY <1>6, DownSteps, ThreadsQuiet DEF Down, Untouched
<1> QED BY <1>2, <1>3, <1>4, <1>5, <1>6, Zenon DEF BootNext, MainSteps, CallSteps, GoesDown, StoreStep

LEMMA OrderlyKept ==
  ASSUME BootTypes, Orderly, [BootNext]_bootVars
  PROVE  Orderly'
<1>1. PropTypes
  BY DEF BootTypes
<1>2. at' = "off" => owner' = "none"
  <2>1. CASE GoesDown
    BY <1>1, <2>1, DownSteps, LosesRamTypes DEF Down
  <2>2. CASE at = "off" /\ (StoreStep \/ UNCHANGED bootVars)
    BY <1>1, <2>2, StoreRests DEF Orderly, StoreStep, bootVars, propVars
  <2> QED BY <2>1, <2>2, BeforeTasksSteps
<1>3. at' \in {"off", "params"} => Untouched'
  <2>1. CASE GoesDown
    BY <2>1, DownSteps, ThreadsQuiet DEF Down, Untouched
  <2>2. CASE at \in {"off", "params"} /\ (StoreStep \/ UNCHANGED bootVars \/ PowerOn)
    <3>1. Untouched
      BY <2>2 DEF Orderly
    <3>2. UNCHANGED <<action, posted, dialled, thread>>
      BY <2>2 DEF StoreStep, bootVars, callVars, PowerOn
    <3> QED BY <3>1, <3>2 DEF Untouched
  <2> QED BY <2>1, <2>2, BeforeTasksSteps
<1>4. TasksRun' /\ owner' # "none" => Saving'
  <2>1. CASE UNCHANGED storeVars
    <3>1. InitTasks => owner = "none"
      BY DEF InitTasks, ParamsFree
    <3>2. UNCHANGED <<tree, files, todo, owner>>
      BY <2>1 DEF storeVars
    <3>3. TasksRun' /\ owner' # "none" => Saving
      BY <3>1, <3>2, BeforeTasksSteps DEF Orderly
    <3> QED BY <3>2, <3>3 DEF Saving
  <2>2. CASE StoreStep
    <3>1. owner # "none" /\ at' = at /\ PropNext
      BY <1>1, <2>2, StoreRests DEF StoreStep
    <3>2. TasksRun' => Saving
      BY <3>1 DEF Orderly, TasksRun
    <3> QED BY <1>1, <3>1, <3>2, SavingGoesOn
  <2>3. CASE PowerOn \/ GoesDown
    BY <2>3, DownSteps DEF Down, PowerOn, TasksRun
  <2>4. CASE tree' \in Trees /\ \E t \in Savers : Save(t, tree')
    <3>1. todo' = SaveAll(tree')
      BY <2>4 DEF Save
    <3> QED BY <3>1 DEF Saving
  <2> QED BY <2>1, <2>2, <2>3, <2>4, StoreSteps
<1>5. ASSUME NEW t \in RestartThreads, Asking(t)'
      PROVE  reasons' # {}
  <2>1. ~GoesDown
    BY <1>5, DownSteps, ThreadsQuiet DEF Down, Asking
  <2>2. CASE \E s \in RestartThreads, e \in CallEvents \cup {"DEFAULT"} : Refused(s, e)
    BY <2>2 DEF Refused
  <2>3. CASE ~(\E s \in RestartThreads, e \in CallEvents \cup {"DEFAULT"} : Refused(s, e))
    <3>1. reasons' = reasons
      BY <2>1, <2>3, HistorySteps
    <3>2. Asking(t)
      <4>1. CASE UNCHANGED thread
        BY <1>5, <4>1 DEF Asking
      <4>2. CASE \E s \in RestartThreads : RestartSteps(s)
        BY <1>5, <4>2, RestartStepTypes DEF Asking
      <4>3. CASE thread'["ecall"].pc \in Backs /\ thread'["era"] = thread["era"]
        BY <1>5, <4>3 DEF Asking, Backs, RestartThreads
      <4> QED BY <2>1, <2>3, <4>1, <4>2, <4>3, ThreadSteps
    <3> QED BY <3>1, <3>2 DEF Orderly
  <2> QED BY <2>2, <2>3
<1> QED BY <1>2, <1>3, <1>4, <1>5 DEF Orderly
----------------------------------------------------------------------------
(* The count in the parameters keeps up with the restarts.                 *)

\* A file holds a count that is not below, and one that is above that of the restarts.
Covers(v) == "era_restart" \in DOMAIN v /\ restarts <= v.era_restart
Exceeds(v) == "era_restart" \in DOMAIN v /\ restarts < v.era_restart

\* Whatever the next loss of RAM leaves of the files, the count that is read from them is
\* above that of the restarts.
FilesExceed ==
  /\ files.main.form = "whole" => Exceeds(files.main.kept)
  /\ agreed => BackupInWork \/ (files.backup.form = "whole" /\ Exceeds(files.backup.kept))

\* The count while the unit is off, while it starts and while it runs, and of a thread in
\* restart_from_reason.
CountOff ==
  at = "off" /\ restarts > 0 =>
    \/ files.main.form = "whole" /\ Covers(files.main.kept)
    \/ /\ files.main.form = "spoilt"
       /\ files.backup.form = "whole" /\ Covers(files.backup.kept)

CountOn ==
  /\ at \notin {"off", "run"} /\ restarts > 0 => Untouched /\ restarts <= tree.era_restart
  /\ at = "run" /\ restarts > 0 => Untouched \/ restarts <= tree.era_restart

CountIn(t) ==
  /\ Restarting(t) => restarts < MAX_RESTART_NUMBER
  /\ thread[t].pc = "write" => restarts < thread[t].next
  /\ Raised(t) => restarts < tree.era_restart
  /\ Noted(t) \/ (thread[t].pc = "reason" /\ owner # t) => FilesExceed

\* As long as the main file is readable and the count is not put back, the count in the
\* parameters is that of the restarts, or more.
CountKeepsUp ==
  /\ restarts <= MAX_RESTART_NUMBER
  /\ CountOff /\ CountOn
  /\ \A t \in RestartThreads : CountIn(t)

\* The next reading finds the count.
LEMMA CountIsRead ==
  ASSUME BootTypes, Orderly, CountOff, PowerOn
  PROVE  CountOn' /\ restarts' = restarts
<1>1. /\ at = "off" /\ at' = "params" /\ InitSysParams
      /\ UNCHANGED <<restarts, action, posted, dialled, thread>>
  BY DEF PowerOn, histVars, callVars
<1>2. /\ ReadAll.found \in Texts
      /\ \A n \in DOMAIN ReadAll.found : tree'[n] = ReadAll.found[n]
  BY <1>1, InitSysParamsTypes DEF BootTypes
<1>3. restarts > 0 => Covers(ReadAll.found)
  <2>1. /\ files.main.form = "whole" => ReadAll.found = files.main.kept
        /\ files.main.form = "spoilt" /\ files.backup.form = "whole"
             => ReadAll.found = files.backup.kept
    BY ReadAllType DEF BootTypes
  <2> QED BY <1>1, <2>1 DEF CountOff
<1>4. restarts > 0 => restarts <= tree'.era_restart
  BY <1>2, <1>3 DEF Covers
<1>5. Untouched'
  BY <1>1 DEF Orderly, Untouched
<1> QED BY <1>1, <1>4, <1>5 DEF CountOn

\* A thread that asks finds a count that is not below that of the restarts.
LEMMA CountFound ==
  ASSUME BootTypes, CountOn, TasksRun, NEW t \in RestartThreads, thread[t].pc # "ready"
  PROVE  restarts <= tree.era_restart
<1>1. ~Untouched
  BY DEF Untouched
<1>2. restarts \in Nat /\ tree.era_restart \in Nat
  BY TreeFields DEF BootTypes, PropTypes
<1> QED BY <1>1, <1>2 DEF CountOn, TasksRun

\* What the next loss of RAM leaves, after a step that does not go down.
LEMMA FilesExceedKept ==
  ASSUME BootTypes, Orderly, [BootNext]_bootVars, TasksRun, ~GoesDown,
         UNCHANGED restarts, restarts < tree.era_restart, FilesExceed \/ owner # "none"
  PROVE  /\ FilesExceed => FilesExceed'
         /\ owner' = "none" => FilesExceed'
<1>1. PropTypes /\ tree \in Trees /\ "era_restart" \in DOMAIN tree
  BY TreeFields DEF BootTypes, PropTypes, Keys
<1>2. Exceeds(tree)
  BY <1>1 DEF Exceeds
<1>3. \A v : Exceeds(v) => Exceeds(v)'
  BY DEF Exceeds
<1>4. CASE UNCHANGED storeVars
  <2>1. UNCHANGED <<tree, files, todo, owner, agreed>>
    BY <1>4 DEF storeVars
  <2>2. BackupInWork => BackupInWork'
    BY <2>1 DEF BackupInWork
  <2>3. FilesExceed => FilesExceed'
    BY <1>3, <2>1, <2>2 DEF FilesExceed
  <2> QED BY <2>1, <2>3
<1>5. CASE StoreStep
  <2>1. PropNext /\ owner # "none" /\ Saving
    BY <1>1, <1>5, StoreRests DEF StoreStep, Orderly
  <2>2. CASE /\ owner' = owner /\ agreed' = agreed
             /\ files'.main.form = "whole" => files'.main.kept = tree
             /\ BackupInWork' \/ (~BackupInWork /\ files'.backup = files.backup)
    BY <1>2, <1>3, <2>1, <2>2 DEF FilesExceed
  <2>3. CASE /\ owner' = "none" /\ files' = files
             /\ files.main.form = "whole" => files.main.kept = tree
             /\ agreed' => files = [main |-> Whole(tree), backup |-> Whole(tree)]
    <3>1. agreed' => files'.backup.form = "whole" /\ files'.backup.kept = tree
      BY <2>3 DEF Whole
    <3> QED BY <1>2, <1>3, <2>3, <3>1 DEF FilesExceed
  <2> QED BY <1>1, <2>1, <2>2, <2>3, SavingGoesOn
<1>6. CASE \E t \in Savers : Save(t, tree')
  <2>1. owner = "none" /\ owner' # "none" /\ UNCHANGED <<files, agreed>>
    BY <1>6 DEF Save, ParamsFree, Savers, RestartThreads
  <2>2. ~BackupInWork
    BY <2>1 DEF BackupInWork
  <2>3. FilesExceed => FilesExceed'
    BY <1>3, <2>1, <2>2 DEF FilesExceed
  <2> QED BY <2>1, <2>3
<1>7. ~PowerOn
  BY DEF PowerOn, TasksRun
<1> QED BY <1>4, <1>5, <1>6, <1>7, StoreSteps

\* The steps of restart_from_reason.
LEMMA CountInRestart ==
  ASSUME BootTypes, Orderly, CountKeepsUp, NEW t \in RestartThreads, RestartSteps(t)
  PROVE  CountIn(t)' /\ restarts' = restarts /\ restarts' <= tree'.era_restart
<1>1. /\ PropTypes /\ restarts \in Nat /\ tree.era_restart \in Nat /\ thread \in Threads
      /\ t \in Savers /\ MAX_RESTART_NUMBER \in Nat
  BY TreeFields, BootAssumption DEF BootTypes, PropTypes, Savers
<1>2. /\ thread'[t].event = thread[t].event /\ UNCHANGED <<at, restarts>>
      /\ Asking(t) /\ TasksRun
  BY RestartStepTypes
<1>3. restarts <= tree.era_restart
  BY <1>2, CountFound DEF CountKeepsUp, Asking
<1>4. CountIn(t)
  BY DEF CountKeepsUp
<1>5. thread[t].back \in Backs /\ thread[t].next \in Nat /\ thread[t].event \in Reasons
  BY <1>1 DEF Threads
<1>6. Backs \cup {"read", "reason", "restart", "sleep"} \subseteq Pcs
      /\ \A p \in Backs : p \notin {"read", "write", "reason", "restart", "sleep"}
  BY DEF Backs, Pcs
<1>7. FilesExceed /\ UNCHANGED <<files, agreed, tree, todo, owner>> => FilesExceed'
  <2>1. ASSUME UNCHANGED <<files, agreed, tree, todo, owner>>, BackupInWork PROVE BackupInWork'
    BY <2>1 DEF BackupInWork
  <2>2. \A v : Exceeds(v) => Exceeds(v)'
    BY <1>2 DEF Exceeds
  <2> QED BY <2>1, <2>2 DEF FilesExceed
<1>8. CASE ChecksCount(t)
  <2>1. tree' = tree
    BY <1>8 DEF ChecksCount, propVars
  <2>2. CASE tree.era_restart < MAX_RESTART_NUMBER
    <3>1. thread'[t].pc = "read"
      BY <1>1, <1>6, <1>8, <2>2, ThreadGoes DEF ChecksCount
    <3>2. restarts' < MAX_RESTART_NUMBER
      BY <1>1, <1>2, <1>3, <2>2
    <3> QED BY <1>2, <1>3, <2>1, <3>1, <3>2 DEF CountIn, Restarting, Raised, Noted
  <2>3. CASE ~(tree.era_restart < MAX_RESTART_NUMBER)
    <3>1. thread'[t].pc = thread[t].back
      BY <1>1, <1>5, <1>6, <1>8, <2>3, ThreadGoes DEF ChecksCount
    <3> QED BY <1>2, <1>3, <1>5, <1>6, <2>1, <3>1 DEF CountIn, Restarting, Raised, Noted
  <2> QED BY <2>2, <2>3
<1>9. CASE ReadsCount(t)
  <2> DEFINE n == tree.era_restart + 1
  <2>1. tree' = tree /\ thread' = [thread EXCEPT ![t].pc = "write", ![t].next = n]
    BY <1>9 DEF ReadsCount, propVars
  <2>2. restarts < n
    BY <1>1, <1>3
  <2> HIDE DEF n
  <2>3. thread'[t].pc = "write" /\ thread'[t].next = n
    BY <1>1, <2>1 DEF Threads
  <2>4. restarts < MAX_RESTART_NUMBER
    BY <1>4, <1>9 DEF ReadsCount, At, CountIn, Restarting
  <2> QED BY <1>2, <1>3, <2>1, <2>2, <2>3, <2>4 DEF CountIn, Restarting, Raised, Noted
<1>10. CASE SetsCount(t)
  <2>1. tree'.era_restart = thread[t].next /\ owner' = t
    BY <1>1, <1>5, <1>10, SetParamTypes DEF SetsCount, Keys, ValuesOf, Save
  <2>2. thread'[t].pc = "reason"
    BY <1>1, <1>6, <1>10, ThreadGoes DEF SetsCount
  <2>3. restarts < MAX_RESTART_NUMBER /\ restarts < thread[t].next
    BY <1>4, <1>10 DEF SetsCount, At, CountIn, Restarting
  <2>4. restarts <= tree'.era_restart
    BY <1>1, <1>5, <2>1, <2>3
  <2> QED BY <1>2, <2>1, <2>2, <2>3, <2>4 DEF CountIn, Restarting, Raised, Noted
<1>11. CASE SetsReason(t)
  <2>1. tree'.era_restart = tree.era_restart /\ Save(t, tree')
    BY <1>1, <1>5, <1>11, SetParamTypes DEF SetsReason, Keys, ValuesOf
  <2>2. thread'[t].pc = "restart"
    BY <1>1, <1>6, <1>11, ThreadGoes DEF SetsReason
  <2>3. owner = "none" /\ UNCHANGED <<files, agreed>>
    BY <2>1 DEF Save, ParamsFree
  <2>4. restarts < MAX_RESTART_NUMBER /\ restarts < tree.era_restart /\ FilesExceed
    <3>1. t # "none"
      BY DEF RestartThreads
    <3> QED BY <1>4, <1>11, <2>3, <3>1 DEF SetsReason, At, CountIn, Restarting, Raised
  <2>5. FilesExceed'
    <3>1. ~BackupInWork /\ \A v : Exceeds(v) => Exceeds(v)'
      BY <1>2, <2>3 DEF Exceeds, BackupInWork
    <3> QED BY <2>3, <2>4, <3>1 DEF FilesExceed
  <2> QED BY <1>2, <1>3, <2>1, <2>2, <2>4, <2>5 DEF CountIn, Restarting, Raised, Noted
<1>12. CASE CallsRestart(t)
  <2>1. UNCHANGED <<files, agreed, tree, todo, owner>> /\ thread[t].pc = "restart"
    BY <1>12 DEF CallsRestart, propVars, At
  <2>2. /\ restarts < MAX_RESTART_NUMBER /\ restarts < tree.era_restart /\ FilesExceed
    BY <1>4, <2>1 DEF CountIn, Restarting, Raised, Noted
  <2>3. thread'[t].pc \in Backs \cup {"sleep"}
    BY <1>1, <1>5, <1>6, <1>12, ThreadGoes DEF CallsRestart
  <2> QED BY <1>2, <1>3, <1>6, <1>7, <2>1, <2>2, <2>3 DEF CountIn, Restarting, Raised, Noted
<1> QED BY <1>8, <1>9, <1>10, <1>11, <1>12 DEF RestartSteps

\* m2mb_sys_reboot: the count that was raised is in the file that is read next.
LEMMA CountInReboot ==
  ASSUME BootTypes, Orderly, CountKeepsUp, NEW t \in RestartThreads, Reboot(t), ~damaged'
  PROVE  restarts' <= MAX_RESTART_NUMBER /\ CountOff'
<1>1. PropTypes /\ restarts \in Nat /\ MAX_RESTART_NUMBER \in Nat
  BY BootAssumption DEF BootTypes
<1>2. thread[t].pc = "sleep" /\ LosesRam /\ Readable /\ restarts' = restarts + 1 /\ TasksRun
  BY DEF Reboot, At, Down
<1>3. restarts < MAX_RESTART_NUMBER /\ FilesExceed
  BY <1>2 DEF CountKeepsUp, CountIn, Restarting, Noted
<1>4. \A v \in Texts : Exceeds(v) => Covers(v)'
  <2> SUFFICES ASSUME NEW v \in Texts, Exceeds(v) PROVE Covers(v)'
    OBVIOUS
  <2>1. "era_restart" \in DOMAIN v /\ restarts < v.era_restart
    BY DEF Exceeds
  <2>2. v.era_restart \in Nat
    BY <2>1, TextFields DEF ValuesOf
  <2> QED BY <1>1, <1>2, <2>1, <2>2 DEF Covers
<1>5. /\ files'.main.form = "whole" => files'.main = files.main
      /\ files'.main.form = "spoilt" => ~BackupInWork /\ files'.backup = files.backup
  BY <1>1, <1>2, SavingIsLost DEF Orderly
<1>6. /\ files.main.form = "whole" => files.main.kept \in Texts
      /\ files.backup.form = "whole" => files.backup.kept \in Texts
  BY <1>1, FileForms DEF PropTypes
<1>7. CASE files'.main.form = "whole"
  BY <1>1, <1>2, <1>3, <1>4, <1>5, <1>6, <1>7 DEF FilesExceed, CountOff
<1>8. CASE files'.main.form = "spoilt" /\ agreed
  BY <1>1, <1>2, <1>3, <1>4, <1>5, <1>6, <1>8 DEF FilesExceed, CountOff
<1>9. CASE ~(files'.main.form = "whole" \/ (files'.main.form = "spoilt" /\ agreed))
  BY <1>2, <1>9 DEF Readable
<1> QED BY <1>7, <1>8, <1>9

\* The steps by which a row begins anew or the count is put back.
LEMMA CountBeginsAnew ==
  ASSUME BootTypes, Orderly, ~damaged /\ ~putBack => CountKeepsUp, [BootNext]_bootVars,
         (\E e \in Kinds : CallBegins(e)) \/ Connected \/ ClearsCount, ~damaged', ~putBack'
  PROVE  CountKeepsUp'
<1>1. /\ restarts \in Nat /\ thread \in Threads /\ 0 <= MAX_RESTART_NUMBER
      /\ {"ecall", "era"} = RestartThreads
  BY BootAssumption DEF BootTypes, RestartThreads
<1>2. ~GoesDown /\ TasksRun
  <2>1. at' # "off" /\ TasksRun
    BY DEF CallBegins, Connected, ClearsCount, At, TasksRun
  <2> QED BY <2>1, DownSteps DEF Down
<1>3. damaged' = damaged /\ at' # "off"
  BY <1>2, HistorySteps DEF CallBegins, Connected, ClearsCount, At, TasksRun
<1>4. ASSUME reasons = {}
      PROVE  \A t \in RestartThreads : ~Asking(t)
  BY <1>4 DEF Orderly
<1>5. CASE \E e \in Kinds : CallBegins(e)
  <2>1. /\ restarts' = 0 /\ (putBack => reasons = {}) /\ Goes("ecall", "start")
        /\ UNCHANGED <<propVars, at>>
    BY <1>5 DEF CallBegins
  <2>2. thread'["ecall"].pc = "start" /\ thread'["era"] = thread["era"]
    BY <1>1, <2>1, ThreadGoes DEF Pcs
  <2>3. CountIn("ecall")'
    BY <2>2 DEF CountIn, Restarting, Raised, Noted
  <2>4. CountIn("era")'
    <3>1. CASE putBack
      BY <1>1, <1>4, <2>1, <2>2, <3>1 DEF CountIn, Restarting, Raised, Noted, Asking
    <3>2. CASE ~putBack
      <4>1. CountIn("era")
        BY <1>1, <1>3, <3>2 DEF CountKeepsUp
      <4>2. restarts' <= restarts /\ restarts' \in Nat
        BY <1>1, <2>1
      <4>3. \A v \in Texts : Exceeds(v) => Exceeds(v)'
        <5> SUFFICES ASSUME NEW v \in Texts, Exceeds(v) PROVE Exceeds(v)'
          OBVIOUS
        <5>1. "era_restart" \in DOMAIN v /\ restarts < v.era_restart
          BY DEF Exceeds
        <5>2. v.era_restart \in Nat
          BY <5>1, TextFields DEF ValuesOf
        <5> QED BY <1>1, <4>2, <5>1, <5>2 DEF Exceeds
      <4>4. /\ files.main.form = "whole" => files.main.kept \in Texts
            /\ files.backup.form = "whole" => files.backup.kept \in Texts
        BY FileForms DEF PropTypes, BootTypes
      <4>5. UNCHANGED <<tree, files, todo, owner, agreed>>
        BY <2>1 DEF propVars
      <4>6. FilesExceed => FilesExceed'
        <5>1. BackupInWork => BackupInWork'
          BY <4>5 DEF BackupInWork
        <5> QED BY <4>3, <4>4, <4>5, <5>1 DEF FilesExceed
      <4>7. MAX_RESTART_NUMBER \in Nat /\ tree.era_restart \in Nat /\ thread["era"].next \in Nat
        BY <1>1, TreeFields, BootAssumption DEF BootTypes, PropTypes, Threads
      <4> QED BY <1>1, <2>2, <4>1, <4>2, <4>5, <4>6, <4>7
              DEF CountIn, Restarting, Raised, Noted
    <3> QED BY <3>1, <3>2
  <2>5. CountOff' /\ CountOn'
    BY <1>3, <2>1 DEF CountOff, CountOn
  <2> QED BY <1>1, <2>1, <2>3, <2>4, <2>5 DEF CountKeepsUp
<1>6. CASE Connected \/ ClearsCount
  <2>1. reasons = {} /\ thread' = thread /\ (ClearsCount => ~putBack)
    BY <1>6 DEF Connected, ClearsCount
  <2>2. \A t \in RestartThreads : CountIn(t)'
    BY <1>4, <2>1 DEF CountIn, Restarting, Raised, Noted, Asking
  <2>3. CASE restarts' = 0
    BY <1>1, <1>3, <2>2, <2>3 DEF CountKeepsUp, CountOff, CountOn
  <2>4. CASE restarts' = restarts /\ restarts # 0
    <3>1. ClearsCount /\ at = "clear" /\ at' = "run" /\ CountKeepsUp
      BY <1>3, <1>6, <2>1, <2>4 DEF Connected, ClearsCount
    <3>2. Untouched /\ restarts <= MAX_RESTART_NUMBER
      BY <1>1, <2>4, <3>1 DEF CountKeepsUp, CountOn
    <3>3. Untouched'
      BY <3>1, <3>2 DEF ClearsCount, callVars, Untouched
    <3> QED BY <1>3, <2>2, <2>4, <3>1, <3>2, <3>3 DEF CountKeepsUp, CountOff, CountOn
  <2> QED BY <1>6, <2>3, <2>4 DEF Connected, ClearsCount
<1> QED BY <1>5, <1>6

\* What a step that begins nothing anew does to the count.
LEMMA CountOnKept ==
  ASSUME BootTypes, Orderly, CountKeepsUp, [BootNext]_bootVars, TasksRun, ~GoesDown,
         UNCHANGED restarts, ~(\E e \in Kinds : CallBegins(e)), ~Connected, ~ClearsCount
  PROVE  /\ CountOn'
         /\ \A t \in RestartThreads : CountIn(t)
              => /\ thread[t].pc # "ready" /\ ~RestartSteps(t) => restarts' <= tree'.era_restart
                 /\ Raised(t) /\ ~RestartSteps(t) => restarts' < tree'.era_restart
<1>1. /\ restarts \in Nat /\ tree.era_restart \in Nat /\ PropTypes /\ thread \in Threads
      /\ tree.tr_cnt + 1 \in Nat
  BY TreeFields DEF BootTypes, PropTypes
<1>2. \/ tree'.era_restart = tree.era_restart
      \/ \E t \in RestartThreads :
           SetsCount(t) /\ RestartSteps(t) /\ tree'.era_restart = thread[t].next
  <2>1. CASE UNCHANGED storeVars
    BY <2>1 DEF storeVars
  <2>2. CASE StoreStep
    BY <2>2 DEF StoreStep, PropNext, FileOperation, WriteFails, Saved
  <2>3. CASE SetsTrCnt
    <3> DEFINE x == IF at = "more" THEN tree.tr_cnt + 1 ELSE 0
    <3>1. SetParam("main", "tr_cnt", x) /\ x \in ValuesOf("tr_cnt") /\ "main" \in Savers
      BY <1>1, <2>3 DEF SetsTrCnt, ValuesOf, Savers
    <3> HIDE DEF x
    <3> QED BY <1>1, <3>1, SetParamTypes DEF Keys
  <2>4. CASE CountsCall
    BY <2>4 DEF CountsCall, Save, propVars
  <2>5. CASE \E t \in RestartThreads : RestartSteps(t)
    <3>1. PICK t \in RestartThreads : RestartSteps(t)
      BY <2>5
    <3>2. t \in Savers /\ thread[t].next \in Nat /\ thread[t].event \in Reasons
      BY <1>1 DEF Threads, Savers
    <3>3. CASE SetsCount(t)
      <4>1. tree'.era_restart = thread[t].next
        BY <1>1, <3>2, <3>3, SetParamTypes DEF SetsCount, Keys, ValuesOf
      <4> QED BY <3>1, <3>3, <4>1
    <3>4. CASE SetsReason(t)
      BY <1>1, <3>2, <3>4, SetParamTypes DEF SetsReason, Keys, ValuesOf
    <3>5. CASE ChecksCount(t) \/ ReadsCount(t) \/ CallsRestart(t)
      BY <3>5 DEF ChecksCount, ReadsCount, CallsRestart, propVars
    <3> QED BY <3>1, <3>3, <3>4, <3>5 DEF RestartSteps
  <2>6. CASE \/ InitTasks \/ CountsBoots \/ ReadsRestarts \/ ReadsReason \/ Resumes
             \/ ModemInitFails \/ TakesPosted \/ NewMsd \/ FindsMsd \/ StartsDialling
             \/ MsdTimeout \/ DialIsOver \/ CallIsOver \/ UNCHANGED bootVars
    <3>1. tree' = tree
      BY <2>6 DEF InitTasks, CountsBoots, ReadsRestarts, ReadsReason, MainGoes, Resumes,
                  ModemInitFails, TakesPosted, NewMsd, FindsMsd, StartsDialling, MsdTimeout,
                  DialIsOver, CallIsOver, propVars, bootVars
    <3> QED BY <3>1
  <2>7. CASE \E t \in RestartThreads, e \in CallEvents \cup {"DEFAULT"} : Refused(t, e)
    <3>1. tree' = tree
      BY <2>7 DEF Refused, propVars
    <3> QED BY <3>1
  <2>8. ~PowerOn
    BY DEF PowerOn, TasksRun
  <2> QED BY <2>2, <2>3, <2>4, <2>5, <2>6, <2>7, <2>8, Zenon
          DEF BootNext, MainSteps, CallSteps, GoesDown, StoreStep
<1>3. ASSUME NEW t \in RestartThreads, SetsCount(t), tree'.era_restart = thread[t].next
      PROVE  restarts < tree'.era_restart
  BY <1>3 DEF CountKeepsUp, CountIn, SetsCount, At
<1>4. /\ restarts <= tree.era_restart => restarts <= tree'.era_restart
      /\ restarts < tree.era_restart => restarts < tree'.era_restart
  <2>1. CASE tree'.era_restart = tree.era_restart
    BY <2>1
  <2>2. CASE \E t \in RestartThreads : SetsCount(t) /\ tree'.era_restart = thread[t].next
    <3>1. PICK t \in RestartThreads : SetsCount(t) /\ tree'.era_restart = thread[t].next
      BY <2>2
    <3>2. restarts < tree'.era_restart /\ tree'.era_restart \in Nat
      BY <1>1, <1>3, <3>1 DEF Threads
    <3> QED BY <1>1, <3>2
  <2> QED BY <1>2, <2>1, <2>2
<1>5. CountOn'
  <2>1. CASE restarts = 0
    BY <2>1 DEF CountOn
  <2>2. CASE restarts # 0 /\ Untouched
    <3>1. Untouched' \/ Resumes
      BY <2>2, UntouchedKept
    <3>2. at # "run" => restarts <= tree.era_restart
      BY <1>1, <2>2 DEF CountKeepsUp, CountOn, TasksRun
    <3>3. Resumes => at' = "run" /\ at # "run"
      BY DEF Resumes, Resumed
    <3>4. at = "run" => at' = "run"
      BY RunGoesOn
    <3> QED BY <1>1, <1>4, <3>1, <3>2, <3>3, <3>4 DEF CountOn
  <2>3. CASE restarts # 0 /\ ~Untouched
    <3>1. at = "run" /\ restarts <= tree.era_restart
      BY <1>1, <2>3 DEF CountKeepsUp, CountOn, TasksRun
    <3>2. at' = "run"
      BY <3>1, RunGoesOn
    <3> QED BY <1>4, <3>1, <3>2 DEF CountOn
  <2> QED BY <2>1, <2>2, <2>3
<1>6. ASSUME NEW t \in RestartThreads, thread[t].pc # "ready"
      PROVE  restarts <= tree.era_restart
  BY <1>6, CountFound DEF CountKeepsUp
<1>7. ASSUME NEW t \in RestartThreads, CountIn(t), Raised(t)
      PROVE  restarts < tree.era_restart
  BY <1>7 DEF CountIn
<1> QED BY <1>4, <1>5, <1>6, <1>7

LEMMA CountKeepsUpKept ==
  ASSUME BootTypes, Orderly, ~damaged /\ ~putBack => CountKeepsUp, [BootNext]_bootVars,
         ~damaged', ~putBack'
  PROVE  CountKeepsUp'
<1>1. restarts \in Nat /\ thread \in Threads /\ MAX_RESTART_NUMBER \in Nat /\ PropTypes
  BY BootAssumption DEF BootTypes
<1>2. CASE GoesDown
  <2>1. Down /\ at' = "off"
    BY <1>2, DownSteps DEF Down
  <2>2. \A t \in RestartThreads : CountIn(t)'
    BY <2>1, ThreadsQuiet DEF Down, CountIn, Restarting, Raised, Noted
  <2>3. restarts' <= MAX_RESTART_NUMBER /\ CountOff'
    <3>1. CASE \E t \in RestartThreads : Reboot(t)
      <4>1. damaged' = (damaged \/ ~Readable) /\ putBack' = putBack
        BY <3>1 DEF Reboot, Down
      <4>2. ~damaged /\ ~putBack
        BY <4>1, Zenon
      <4> QED BY <3>1, <4>2, CountInReboot
    <3>2. CASE PowerLoss \/ RebootsAfterFailure
      <4>1. restarts' = 0
        BY <3>2 DEF PowerLoss, RebootsAfterFailure
      <4> QED BY <1>1, <4>1 DEF CountOff
    <3> QED BY <1>2, <3>1, <3>2 DEF GoesDown
  <2> QED BY <2>1, <2>2, <2>3 DEF CountKeepsUp, CountOn
<1>3. CASE (\E e \in Kinds : CallBegins(e)) \/ Connected \/ ClearsCount
  BY <1>3, CountBeginsAnew
<1>4. CASE ~GoesDown /\ ~((\E e \in Kinds : CallBegins(e)) \/ Connected \/ ClearsCount)
  <2>1. restarts' = restarts /\ CountKeepsUp
    BY <1>4, HistorySteps
  <2>2. CASE ~TasksRun
    <3>1. PowerOn \/ InitTasks \/ StoreStep \/ UNCHANGED bootVars
      BY <1>4, <2>2, BeforeTasksSteps DEF TasksRun
    <3>2. \A t \in RestartThreads : thread'[t].pc = "ready"
      BY <2>2, <3>1 DEF Orderly, Untouched, TasksRun, PowerOn, InitTasks, StoreStep, bootVars
    <3>3. \A t \in RestartThreads : CountIn(t)'
      BY <3>2 DEF CountIn, Restarting, Raised, Noted
    <3>4. CASE PowerOn
      <4>1. CountOn' /\ at' = "params"
        BY <2>1, <3>4, CountIsRead DEF CountKeepsUp, PowerOn
      <4> QED BY <2>1, <3>3, <4>1 DEF CountKeepsUp, CountOff
    <3>5. CASE InitTasks \/ (at = "params" /\ StoreStep)
      <4>1. at = "params" /\ at' \in {"params", "init"} /\ UNCHANGED <<action, posted, dialled, thread>>
        BY <3>5 DEF InitTasks, StoreStep, callVars
      <4>2. tree' = tree
        BY <3>5 DEF InitTasks, propVars, StoreStep, PropNext, FileOperation, WriteFails, Saved
      <4>3. CountOn' /\ CountOff'
        BY <2>1, <4>1, <4>2 DEF CountKeepsUp, CountOn, CountOff, Untouched
      <4> QED BY <2>1, <3>3, <4>3 DEF CountKeepsUp
    <3>6. CASE UNCHANGED bootVars
      <4>1. UNCHANGED <<at, action, posted, dialled, thread, tree, files>>
        BY <3>6 DEF bootVars, propVars
      <4>2. CountOn' /\ CountOff'
        BY <2>1, <4>1 DEF CountKeepsUp, CountOn, CountOff, Untouched, Covers
      <4> QED BY <2>1, <3>3, <4>2 DEF CountKeepsUp
    <3>7. ~(at = "off" /\ StoreStep)
      BY <1>1, StoreRests DEF Orderly, StoreStep
    <3> QED BY <2>2, <3>1, <3>4, <3>5, <3>6, <3>7 DEF TasksRun
  <2>3. CASE TasksRun
    <3>1. at' # "off"
      BY <1>4, <2>3, BeforeTasksSteps DEF TasksRun
    <3>2. /\ CountOn'
          /\ \A t \in RestartThreads : CountIn(t)
               => /\ thread[t].pc # "ready" /\ ~RestartSteps(t) => restarts' <= tree'.era_restart
                  /\ Raised(t) /\ ~RestartSteps(t) => restarts' < tree'.era_restart
      BY <1>4, <2>1, <2>3, CountOnKept
    <3>3. ASSUME NEW t \in RestartThreads, Restarting(t)', ~RestartSteps(t)
          PROVE  CountIn(t)'
      <4>1. thread'[t] = thread[t]
        <5>1. ~(\E s \in RestartThreads : RestartSteps(s) /\ thread'[t] # thread[t])
          BY <3>3, RestartStepTypes
        <5>2. ~(\E s \in RestartThreads, e \in CallEvents \cup {"DEFAULT"} :
                  Refused(s, e) /\ thread'[t] # thread[t])
          BY <1>1, <3>3, RefusedTypes DEF Restarting
        <5>3. thread'["ecall"].pc \in Backs /\ thread'["era"] = thread["era"] => thread'[t] = thread[t]
          BY <3>3 DEF Restarting, Backs, RestartThreads
        <5> QED BY <1>4, <5>1, <5>2, <5>3, ThreadSteps
      <4>2. CountIn(t)
        BY <2>1 DEF CountKeepsUp
      <4>3. Raised(t)' => restarts < tree.era_restart /\ restarts' < tree'.era_restart
        BY <3>2, <3>3, <4>1, <4>2 DEF CountIn, Raised
      <4>4. Noted(t)' \/ (thread'[t].pc = "reason" /\ owner' # t) => FilesExceed'
        <5> SUFFICES ASSUME Noted(t)' \/ (thread'[t].pc = "reason" /\ owner' # t)
                     PROVE  FilesExceed'
          OBVIOUS
        <5>1. restarts < tree.era_restart
          BY <4>3 DEF Noted, Raised
        <5>2. CASE FilesExceed
          BY <1>4, <2>1, <2>3, <5>1, <5>2, FilesExceedKept
        <5>3. CASE ~FilesExceed
          <6>1. thread[t].pc = "reason" /\ owner = t /\ owner' # t
            BY <4>1, <4>2, <5>3 DEF CountIn, Noted
          <6>2. owner # "none"
            BY <6>1 DEF RestartThreads
          <6>3. owner' = "none"
            <7>1. UNCHANGED storeVars => owner' = owner
              BY DEF storeVars
            <7>2. StoreStep => owner' \in {owner, "none"}
              BY DEF StoreStep, PropNext, FileOperation, WriteFails, Saved
            <7>3. \A s \in Savers : ~Save(s, tree')
              BY <6>2 DEF Save, ParamsFree
            <7>4. ~PowerOn
              BY <2>3 DEF PowerOn, TasksRun
            <7> QED BY <1>4, <6>1, <7>1, <7>2, <7>3, <7>4, StoreSteps
          <6> QED BY <1>4, <2>1, <2>3, <5>1, <6>2, <6>3, FilesExceedKept
        <5> QED BY <5>2, <5>3
      <4> QED BY <2>1, <4>1, <4>2, <4>3, <4>4 DEF CountIn, Restarting
    <3>4. ASSUME NEW t \in RestartThreads
          PROVE  CountIn(t)'
      <4>1. CASE RestartSteps(t)
        BY <2>1, <4>1, CountInRestart
      <4>2. CASE ~Restarting(t)'
        BY <4>2 DEF CountIn, Restarting, Raised, Noted
      <4> QED BY <3>3, <4>1, <4>2
    <3> QED BY <2>1, <3>1, <3>2, <3>4 DEF CountKeepsUp, CountOff
  <2> QED BY <2>2, <2>3
<1> QED BY <1>2, <1>3, <1>4

\* The invariant of the boot.
BootInv == BootTypes /\ Orderly /\ (~damaged /\ ~putBack => CountKeepsUp)

LEMMA BootInitInv == BootInit => BootInv
<1> SUFFICES ASSUME BootInit PROVE BootInv
  OBVIOUS
<1>1. /\ at = "off" /\ action = "none" /\ posted = "none" /\ dialled = "none" /\ restarts = 0
      /\ todo = <<>> /\ owner = "none" /\ tree = Defaults
      /\ thread = [t \in RestartThreads |-> Quiet]
  BY DEF BootInit, PropInit
<1>2. thread \in Threads /\ \A t \in RestartThreads : thread[t].pc = "ready"
  BY <1>1 DEF Threads, Quiet, Pcs, Backs, Reasons
<1>3. files \in [main : ParamFiles, backup : ParamFiles]
  <2>1. Whole(Defaults) \in ParamFiles /\ Absent \in ParamFiles
    BY DefaultsAreTree DEF ParamFiles, Trees
  <2> DEFINE w == Whole(Defaults)
             x == Absent
  <2> HIDE DEF w, x
  <2>2. files \in {[main |-> w, backup |-> w], [main |-> x, backup |-> x]}
    BY DEF BootInit, PropInit, w, x
  <2>3. w \in ParamFiles /\ x \in ParamFiles
    BY <2>1 DEF w, x
  <2> QED BY <2>2, <2>3
<1>4. BootTypes
  <2>1. <<>> \in Seq(FileOps)
    OBVIOUS
  <2> QED BY <1>1, <1>2, <1>3, <2>1, DefaultsAreTree DEF BootTypes, PropTypes
<1>5. Orderly
  BY <1>1, <1>2 DEF Orderly, Untouched, Asking, TasksRun
<1>6. CountKeepsUp
  <2>1. 0 <= MAX_RESTART_NUMBER
    BY BootAssumption
  <2> QED BY <1>1, <1>2, <2>1 DEF CountKeepsUp, CountOff, CountOn, CountIn, Restarting, Raised, Noted
<1> QED BY <1>4, <1>5, <1>6 DEF BootInv

LEMMA BootInvKept ==
  ASSUME BootInv, [BootNext]_bootVars
  PROVE  BootInv'
<1>1. BootTypes' /\ Orderly'
  BY BootTypesKept, OrderlyKept DEF BootInv
<1>2. ~damaged' /\ ~putBack' => CountKeepsUp'
  BY CountKeepsUpKept DEF BootInv
<1> QED BY <1>1, <1>2 DEF BootInv

\* A call restarts the unit at most MAX_RESTART_NUMBER times in a row (era_helper.c:483,
\* M2MB_main.c:315), whichever of the two threads want the restarts, also both at once and
\* while M2MB_main still decides, and whatever losses of power and failing writes come
\* between, as long as a main file is left to be read and the count is not put back under
\* a restart.
THEOREM RestartsAlwaysBounded == FlashSpec => []RestartsAreBounded
<1>1. FlashInit => BootInv
  BY BootInitInv DEF FlashInit
<1>2. BootInv /\ [FlashNext]_flashVars => BootInv'
  <2>1. [FlashNext]_flashVars => [BootNext]_bootVars
    BY DEF FlashNext, flashVars, Rests
  <2> QED BY <2>1, BootInvKept
<1>3. BootInv => RestartsAreBounded
  BY DEF BootInv, CountKeepsUp, RestartsAreBounded
<1> QED BY <1>1, <1>2, <1>3, PTL DEF FlashSpec
=============================================================================
