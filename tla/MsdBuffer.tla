---------------------------- MODULE MsdBuffer ----------------------------
(***************************************************************************)
(* The RAM buffer of minimum sets of data (MSD) of era/src/msd_storage.c:  *)
(* a sequence of at most MAX_NUMBER_MSD records, oldest first, and the     *)
(* three counters of msd.h, which are UINT8.  Every operator is what one   *)
(* function of msd_storage.c does to the buffer or to the counters while   *)
(* it holds the storage mutex; MsdStorage.tla adds the mutex, the file and *)
(* the tasks, the call modules use the buffer operators alone.             *)
(*                                                                         *)
(* A record is [id, flag]: the identity of the MSD and its msdFlag.  The   *)
(* body of the MSD and its checksum do not influence the storage.          *)
(***************************************************************************)
EXTENDS Integers, Sequences, FiniteSets, SequencesExt

CONSTANT MAX_NUMBER_MSD      \* capacity of the storage, app_cfg.h

ASSUME MaxNumberAssumption == MAX_NUMBER_MSD \in 1..255

Flags == {"INBAND", "SMS", "SAVED"}

\* The records with the identities ids.
Records(ids) == [id : ids, flag : Flags]

\* A record number as the code returns it: 0-based, -1 when nothing is found.
NoMsd == -1

Counters == [Flags -> 0..255]

\* The counters are UINT8 members of msd_counter: they wrap around.
Incremented(cnt, f) == [cnt EXCEPT ![f] = (@ + 1) % 256]
Decremented(cnt, f) == [cnt EXCEPT ![f] = (@ + 255) % 256]

\* find_msd_numb, find_msd_n: the first record with the flag.
FindNumb(b, flag) ==
  IF \E i \in 1..Len(b) : b[i].flag = flag
    THEN (CHOOSE i \in 1..Len(b) : /\ b[i].flag = flag
                                   /\ \A j \in 1..(i - 1) : b[j].flag # flag) - 1
    ELSE NoMsd

----------------------------------------------------------------------------
\* Mutants of save_MSD: the limit forgotten; the slot of the oldest record reused.
SaveBufUnlimited(b, m) == Append(b, m)
SaveBufInPlace(b, m) ==
  IF Len(b) >= MAX_NUMBER_MSD THEN [b EXCEPT ![1] = m] ELSE Append(b, m)

\* save_MSD: append; when full the oldest record is dropped and the counters
\* are left as they are.
SaveBuf(b, m) ==
  IF Len(b) >= MAX_NUMBER_MSD THEN Append(Tail(b), m) ELSE Append(b, m)

SaveCnt(b, cnt, m) ==
  IF Len(b) >= MAX_NUMBER_MSD THEN cnt ELSE Incremented(cnt, m.flag)

\* delete_MSD: a number at or past n_msd (the UINT16 of -1 included) is refused.
CanDelete(b, n) == n \in 0..(Len(b) - 1)

DeleteBuf(b, n) == IF CanDelete(b, n) THEN RemoveAt(b, n + 1) ELSE b

DeleteCnt(b, cnt, n) ==
  IF CanDelete(b, n) THEN Decremented(cnt, b[n + 1].flag) ELSE cnt

\* move_inband_to_sms and move_sms_to_saved: the first record of one flag gets
\* the next flag, in place.
MoveBuf(b, from, to) ==
  IF FindNumb(b, from) = NoMsd THEN b
  ELSE [b EXCEPT ![FindNumb(b, from) + 1] = [@ EXCEPT !.flag = to]]

\* Both functions decrement inband and increment sms, whatever they move.
MoveCnt(b, cnt, from) ==
  IF FindNumb(b, from) = NoMsd THEN cnt
  ELSE Incremented(Decremented(cnt, "INBAND"), "SMS")

\* init_MSD counts the records it has read, flag by flag.
CountOf(b, f) == Cardinality({i \in 1..Len(b) : b[i].flag = f})

RecountedFrom(b) == [f \in Flags |-> CountOf(b, f) % 256]
=============================================================================
