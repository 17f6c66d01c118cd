---------------------------- MODULE MsdStorage ----------------------------
(***************************************************************************)
(* The MSD storage of era/src/msd_storage.c as the tasks share it: the RAM *)
(* buffer and its counters, the mutex, and the file that rewrite_file      *)
(* unlinks and writes anew after every change.  The unit may lose power    *)
(* between any two steps; init_MSD then reads back what the file holds.    *)
(*                                                                         *)
(* A call is split where another task can see the difference:              *)
(*   body      the task has the mutex and changes buffer and counters (a   *)
(*             task that waits for the mutex has not done anything yet);   *)
(*   unlink    rewrite_file removes the old file;                          *)
(*   write     rewrite_file writes the new one, the mutex is released.     *)
(* delete_inband_msd looks the number up under the mutex, releases it and  *)
(* calls delete_MSD, which takes it again: a step of its own.              *)
(***************************************************************************)
EXTENDS MsdBuffer

CONSTANTS
  MaxSaves,     \* bound: number of MSDs ever created
  MaxCrashes,   \* bound: number of losses of power
  MaxIoErrors   \* bound: number of failed file operations

ASSUME BoundsAssumption == {MaxSaves, MaxCrashes, MaxIoErrors} \subseteq Nat

VARIABLES
  buf,      \* the records 0 .. n_msd-1
  cnt,      \* msd_counter
  mutex,    \* the task that holds the storage mutex
  pc,       \* what each task is doing: "idle" or a step of a call
  num,      \* the record number each task's call works on
  file,     \* what the file holds: records, and whether a torn one follows
  up,       \* the unit is running and the storage initialised
  saves, crashes, ioErrors,   \* counters of the bounds
  stale,    \* history: the last attempt to rewrite the file failed
  before,   \* history: the buffer the file last held completely
  lost,     \* history: the buffer when the power was lost
  moved     \* history: the tasks in delete_inband_msd's pause during which another
            \* one moved an in-band record to SMS

vars == <<buf, cnt, mutex, pc, num, file, up, saves, crashes, ioErrors,
          stale, before, lost, moved>>

\* The tasks that call the storage, and what each of them calls:
\* ecall.c saves and deletes the in-band MSD, era_action.c moves or deletes it,
\* sms_manager.c looks for an SMS record, deletes it by number or moves it to
\* SAVED, and a command or a UDS service wipes the storage.
Ops == [ECALL      |-> {"save", "delete_inband"},
        ERA_ACTION |-> {"delete_inband", "inband_to_sms"},
        SMS        |-> {"find_sms", "delete", "sms_to_saved"},
        UDS        |-> {"delete_all"}]

Tasks == DOMAIN Ops
Nobody == "nobody"

\* Steps of a call: those that hold the mutex, and delete_inband_msd's pause.
Writing == {"unlink", "write"}
Steps == {"idle", "delete_found"} \cup Writing

Msds == Records(1..MaxSaves)
Files == {f \in [recs : Seq(Msds), torn : BOOLEAN] : Len(f.recs) <= MAX_NUMBER_MSD}

TypeOK ==
  /\ buf \in Seq(Msds) /\ Len(buf) <= MAX_NUMBER_MSD
  /\ cnt \in Counters
  /\ mutex \in Tasks \cup {Nobody}
  /\ pc \in [Tasks -> Steps]
  /\ num \in [Tasks -> NoMsd..(MAX_NUMBER_MSD - 1)]
  /\ file \in Files
  /\ before \in Seq(Msds) /\ lost \in Seq(Msds)
  /\ up \in BOOLEAN /\ stale \in BOOLEAN /\ moved \subseteq Tasks
  /\ saves \in 0..MaxSaves
  /\ crashes \in 0..MaxCrashes
  /\ ioErrors \in 0..MaxIoErrors

Init ==
  /\ buf = <<>> /\ before = <<>> /\ lost = <<>>
  /\ cnt = [f \in Flags |-> 0]
  /\ mutex = Nobody
  /\ pc = [t \in Tasks |-> "idle"]
  /\ num = [t \in Tasks |-> NoMsd]
  /\ file = [recs |-> <<>>, torn |-> FALSE]
  /\ up = TRUE /\ stale = FALSE /\ moved = {}
  /\ saves = 0 /\ crashes = 0 /\ ioErrors = 0

----------------------------------------------------------------------------
bounds == <<saves, crashes, ioErrors>>
history == <<stale, before, lost>>

Goto(t, step) == pc' = [pc EXCEPT ![t] = step]

\* Task t may call the storage function op, and gets the mutex.
Enter(t, op) == up /\ pc[t] = "idle" /\ op \in Ops[t] /\ mutex = Nobody

\* The buffer and the counters change in RAM; rewrite_file comes next.
Change(t, b, c) ==
  /\ mutex' = t
  /\ buf' = b /\ cnt' = c
  /\ Goto(t, "unlink")
  /\ UNCHANGED <<file, up, crashes, ioErrors, history>>

\* The function finds nothing to do and releases the mutex.
ReturnAtOnce(t) ==
  /\ Goto(t, "idle")
  /\ UNCHANGED <<buf, cnt, mutex, num, file, up, bounds, history, moved>>

SaveMSD(t) ==
  LET m == [id |-> saves + 1, flag |-> "INBAND"] IN
  /\ Enter(t, "save") /\ saves < MaxSaves
  /\ Change(t, SaveBuf(buf, m), SaveCnt(buf, cnt, m))
  /\ saves' = saves + 1
  /\ UNCHANGED <<num, moved>>

\* find_msd_n(&msd, MSD_SMS): the SMS task remembers the number.
FindSms(t) ==
  /\ Enter(t, "find_sms")
  /\ num' = [num EXCEPT ![t] = FindNumb(buf, "SMS")]
  /\ UNCHANGED <<buf, cnt, mutex, pc, file, up, bounds, history, moved>>

\* delete_MSD(n) once the mutex is held.
DeleteNumber(t, n) ==
  \/ /\ CanDelete(buf, n)
     /\ Change(t, DeleteBuf(buf, n), DeleteCnt(buf, cnt, n))
     /\ UNCHANGED <<num, saves, moved>>
  \/ ~CanDelete(buf, n) /\ ReturnAtOnce(t)

\* The SMS task deletes the record whose number it remembers.
DeleteMSD(t) == Enter(t, "delete") /\ DeleteNumber(t, num[t])

\* delete_inband_msd: the number is looked up and the mutex released ...
DeleteInbandFind(t) ==
  LET n == FindNumb(buf, "INBAND") IN
  /\ Enter(t, "delete_inband") /\ n # NoMsd
  /\ num' = [num EXCEPT ![t] = n]
  /\ Goto(t, "delete_found")
  /\ moved' = moved \ {t}
  /\ UNCHANGED <<buf, cnt, mutex, file, up, bounds, history>>

\* ... and delete_MSD(n) takes it again, when other tasks may have had it.
DeleteInbandDelete(t) ==
  pc[t] = "delete_found" /\ mutex = Nobody /\ DeleteNumber(t, num[t])

Move(t, from, to) ==
  /\ FindNumb(buf, from) # NoMsd
  /\ Change(t, MoveBuf(buf, from, to), MoveCnt(buf, cnt, from))
  /\ moved' = IF from = "INBAND" THEN moved \cup {u \in Tasks : pc[u] = "delete_found"}
              ELSE moved
  /\ UNCHANGED <<num, saves>>

MoveInbandToSms(t) == Enter(t, "inband_to_sms") /\ Move(t, "INBAND", "SMS")
MoveSmsToSaved(t) == Enter(t, "sms_to_saved") /\ Move(t, "SMS", "SAVED")

\* delete_all_MSDs: the buffer is cleared and the file unlinked, not rewritten.
DeleteAllMSDs(t) ==
  /\ Enter(t, "delete_all")
  /\ buf' = <<>> /\ cnt' = [f \in Flags |-> 0]
  /\ \/ /\ file' = [recs |-> <<>>, torn |-> FALSE]
        /\ stale' = FALSE /\ before' = <<>>
        /\ UNCHANGED ioErrors
     \/ /\ ioErrors < MaxIoErrors /\ ioErrors' = ioErrors + 1   \* unlink failed
        /\ stale' = TRUE
        /\ UNCHANGED <<file, before>>
  /\ UNCHANGED <<mutex, num, pc, up, saves, crashes, lost, moved>>

\* What a half-written file may hold: some of the records, and perhaps the
\* first bytes of the next one.
PartlyWritten(b) ==
  {[recs |-> SubSeq(b, 1, k), torn |-> t] : k \in 0..(Len(b) - 1), t \in BOOLEAN}

\* rewrite_file, first half.
Unlink(t) ==
  /\ pc[t] = "unlink"
  /\ file' = [recs |-> <<>>, torn |-> FALSE]
  /\ Goto(t, "write")
  /\ UNCHANGED <<buf, cnt, mutex, num, up, bounds, history, moved>>

\* Mutant of Write: the loop starts with the second record.
WriteSkipsFirst(t) ==
  /\ pc[t] = "write"
  /\ mutex' = Nobody
  /\ Goto(t, "idle")
  /\ file' = [recs |-> IF buf = <<>> THEN buf ELSE Tail(buf), torn |-> FALSE]
  /\ stale' = FALSE /\ before' = buf
  /\ UNCHANGED <<ioErrors, buf, cnt, num, up, saves, crashes, lost, moved>>

\* rewrite_file, second half, and put_mutex.  When fopen or fwrite fails the
\* file stays short; the caller gets FALSE and only logs it.
Write(t) ==
  /\ pc[t] = "write"
  /\ mutex' = Nobody
  /\ Goto(t, "idle")
  /\ \/ /\ file' = [recs |-> buf, torn |-> FALSE]
        /\ stale' = FALSE /\ before' = buf
        /\ UNCHANGED ioErrors
     \/ /\ ioErrors < MaxIoErrors /\ ioErrors' = ioErrors + 1
        /\ stale' = TRUE
        /\ file' \in {file} \cup PartlyWritten(buf)
        /\ UNCHANGED before
  /\ UNCHANGED <<buf, cnt, num, up, saves, crashes, lost, moved>>

----------------------------------------------------------------------------
\* Power is lost, or restart() reboots the modem, at any moment.
Crash ==
  /\ up /\ crashes < MaxCrashes
  /\ crashes' = crashes + 1
  /\ up' = FALSE
  /\ lost' = buf
  /\ \/ UNCHANGED file
     \/ /\ \E t \in Tasks : pc[t] = "write"
        /\ file' \in PartlyWritten(buf)
  /\ buf' = <<>> /\ cnt' = [f \in Flags |-> 0]
  /\ mutex' = Nobody
  /\ pc' = [t \in Tasks |-> "idle"]
  /\ num' = [t \in Tasks |-> NoMsd]
  /\ moved' = {}
  /\ UNCHANGED <<saves, ioErrors, stale, before>>

\* init_MSD: a file whose size is not a multiple of the record size is deleted.
InitMSD ==
  /\ ~up
  /\ up' = TRUE
  /\ LET read == IF file.torn THEN <<>> ELSE file.recs
     IN /\ buf' = read /\ cnt' = RecountedFrom(read)
        /\ file' = [recs |-> read, torn |-> FALSE]
        /\ before' = read
  /\ stale' = FALSE
  /\ lost' = <<>>
  /\ UNCHANGED <<mutex, pc, num, bounds, moved>>

\* A task goes on with the call it is in.
Proceed(t) == DeleteInbandDelete(t) \/ Unlink(t) \/ Write(t)

Serve(t) ==
  \/ SaveMSD(t) \/ FindSms(t) \/ DeleteMSD(t) \/ DeleteInbandFind(t)
  \/ MoveInbandToSms(t) \/ MoveSmsToSaved(t) \/ DeleteAllMSDs(t)
  \/ Proceed(t)

Next == (\E t \in Tasks : Serve(t)) \/ Crash \/ InitMSD

Spec == Init /\ [][Next]_vars

----------------------------------------------------------------------------
\* While nobody is inside a storage function and the last rewrite succeeded, the
\* file holds exactly the buffer: no change of msd_storage.c is left only in RAM.
FileAgrees ==
  (up /\ mutex = Nobody /\ ~stale) => file = [recs |-> buf, torn |-> FALSE]

\* The storage is a FIFO: records stay in the order they were created, so the
\* record dropped when it overflows, and the first found of a flag, is the oldest.
OldestFirst ==
  \A i, j \in 1..Len(buf) : i < j => buf[i].id < buf[j].id

\* Buffer, file and the order of the records never drift apart, though four tasks change
\* them, every change is made in RAM first and delete_inband_msd gives the mutex up in its
\* middle (msd_storage.c:70-95, 217-345).
StorageSound == FileAgrees /\ OldestFirst

\* delete_inband_msd remembers only a number when it gives the mutex up
\* (msd_storage.c:300-306), and other tasks may save, delete, wipe or move records before
\* delete_MSD uses it: still no record that waits to be sent as SMS, or is saved, goes
\* with it.  It may be another in-band record than the one found; and when a task moved
\* an in-band record to SMS in the pause it may be that record, which is exempted.
InbandDeleteSparesOthers ==
  [][\A t \in Tasks \ moved : pc[t] = "delete_found" /\ pc'[t] = "unlink" =>
       {m \in ToSet(buf) : m.flag # "INBAND"} \subseteq ToSet(buf')]_vars

\* Unless a file operation had failed, what init_MSD finds after a loss of power
\* is the last complete contents or a prefix of what was being written: no
\* record comes back from an older state, though rewrite_file may lose some.
RecoveryInventsNothing ==
  [][~up /\ up' /\ ~stale => buf' = before \/ IsPrefix(buf', lost)]_vars
=============================================================================
