-------------------------- MODULE MsdBufferProofs --------------------------
(***************************************************************************)
(* What the operators of MsdBuffer.tla return, for storages of any         *)
(* capacity: the lemmas every proof about the MSD storage rests on.        *)
(***************************************************************************)
EXTENDS MsdBuffer, SequenceTheorems, FiniteSetTheorems, WellFoundedInduction, TLAPS

\* The numbers of the records with a flag, 1-based.
Positions(b, flag) == {i \in 1..Len(b) : b[i].flag = flag}

\* The first records of a storage, as a file written in part may hold them.
LEMMA PrefixProperties ==
  ASSUME NEW R, NEW b \in Seq(R), NEW k \in 0..Len(b)
  PROVE  /\ SubSeq(b, 1, k) \in Seq(R) /\ Len(SubSeq(b, 1, k)) = k
         /\ \A i \in 1..k : SubSeq(b, 1, k)[i] = b[i]
<1>1. Len(b) \in Nat BY LenProperties
<1>2. \A i \in 1..k : b[i] \in R
  <2>1. \A i \in 1..k : i \in 1..Len(b) BY <1>1
  <2> QED BY <2>1, ElementOfSeq
<1>3. /\ SubSeq(b, 1, k) \in Seq(R)
      /\ Len(SubSeq(b, 1, k)) = IF 1 <= k THEN k - 1 + 1 ELSE 0
      /\ \A i \in 1..(k - 1 + 1) : SubSeq(b, 1, k)[i] = b[1 + i - 1]
  BY <1>1, <1>2, SubSeqProperties
<1> QED BY <1>1, <1>3

\* The fields of a record in the storage.
LEMMA RecordFields ==
  ASSUME NEW I, NEW b \in Seq(Records(I)), NEW i \in 1..Len(b)
  PROVE  b[i].id \in I /\ b[i].flag \in Flags
<1>1. b[i] \in Records(I) BY ElementOfSeq
<1> QED BY <1>1 DEF Records

\* FindNumb finds the first record of the flag if there is one, and says so
\* otherwise: the loop of find_msd_numb runs over all n_msd records.
LEMMA FindNumbProperties ==
  ASSUME NEW R, NEW b \in Seq(R), NEW flag
  PROVE  \/ FindNumb(b, flag) = NoMsd /\ \A i \in 1..Len(b) : b[i].flag # flag
         \/ /\ FindNumb(b, flag) \in 0..(Len(b) - 1)
            /\ b[FindNumb(b, flag) + 1].flag = flag
            /\ \A i \in 1..FindNumb(b, flag) : b[i].flag # flag
<1> DEFINE P == Positions(b, flag)
           First(i) == /\ b[i].flag = flag
                       /\ \A j \in 1..(i - 1) : b[j].flag # flag
<1>1. CASE P = {}
  BY <1>1 DEF Positions, FindNumb
<1>2. CASE P # {}
  <2>1. Len(b) \in Nat /\ P \subseteq Nat
    BY LenProperties DEF Positions
  <2>2. PICK x \in P : \A y \in P : ~(<<y, x>> \in OpToRel(<, Nat))
    <3> HIDE DEF P
    <3> QED BY <1>2, <2>1, NatLessThanWellFounded, WFMin
  <2>3. \A y \in P : ~(y < x)
    BY <2>1, <2>2 DEF OpToRel
  <2>4. x \in 1..Len(b) /\ First(x)
    BY <2>1, <2>3 DEF Positions
  <2>5. \E i \in 1..Len(b) : First(i)
    BY <2>4
  <2> DEFINE c == CHOOSE i \in 1..Len(b) : First(i)
  <2>6. c \in 1..Len(b) /\ First(c)
    BY <2>5
  <2>7. FindNumb(b, flag) = c - 1
    BY <2>4 DEF FindNumb
  <2> HIDE DEF c
  <2> QED BY <2>1, <2>6, <2>7
<1> QED BY <1>1, <1>2

\* How many records make room for a new one.
Dropped(b) == IF Len(b) >= MAX_NUMBER_MSD THEN 1 ELSE 0

\* save_MSD: the storage never holds more than MAX_NUMBER_MSD records, the new
\* record is the last and the others keep their order.
LEMMA SaveBufProperties ==
  ASSUME NEW R, NEW b \in Seq(R), Len(b) <= MAX_NUMBER_MSD, NEW m \in R
  PROVE  /\ SaveBuf(b, m) \in Seq(R)
         /\ Len(SaveBuf(b, m)) = Len(b) + 1 - Dropped(b)
         /\ Len(SaveBuf(b, m)) <= MAX_NUMBER_MSD
         /\ \A i \in 1..(Len(SaveBuf(b, m)) - 1) : SaveBuf(b, m)[i] = b[i + Dropped(b)]
         /\ SaveBuf(b, m)[Len(SaveBuf(b, m))] = m
<1> USE MaxNumberAssumption DEF Dropped
<1>1. Len(b) \in Nat BY LenProperties
<1>2. CASE Len(b) >= MAX_NUMBER_MSD
  <2>1. b # <<>> BY <1>2
  <2>2. /\ Tail(b) \in Seq(R) /\ Len(Tail(b)) = Len(b) - 1
        /\ \A i \in 1..Len(Tail(b)) : Tail(b)[i] = b[i + 1]
    BY <2>1, HeadTailProperties
  <2>3. /\ Append(Tail(b), m) \in Seq(R)
        /\ Len(Append(Tail(b), m)) = Len(Tail(b)) + 1
        /\ \A i \in 1..Len(Tail(b)) : Append(Tail(b), m)[i] = Tail(b)[i]
        /\ Append(Tail(b), m)[Len(Tail(b)) + 1] = m
    BY <2>2, AppendProperties
  <2> QED BY <1>1, <1>2, <2>2, <2>3 DEF SaveBuf
<1>3. CASE Len(b) < MAX_NUMBER_MSD
  <2>1. /\ Append(b, m) \in Seq(R)
        /\ Len(Append(b, m)) = Len(b) + 1
        /\ \A i \in 1..Len(b) : Append(b, m)[i] = b[i]
        /\ Append(b, m)[Len(b) + 1] = m
    BY AppendProperties
  <2> QED BY <1>1, <1>3, <2>1 DEF SaveBuf
<1> QED BY <1>1, <1>2, <1>3

\* delete_MSD: the record goes, those behind it move up by one.
LEMMA DeleteBufProperties ==
  ASSUME NEW R, NEW b \in Seq(R), NEW n \in Int
  PROVE  /\ DeleteBuf(b, n) \in Seq(R)
         /\ ~CanDelete(b, n) => DeleteBuf(b, n) = b
         /\ CanDelete(b, n) =>
              /\ Len(DeleteBuf(b, n)) = Len(b) - 1
              /\ \A i \in 1..(Len(b) - 1) :
                   DeleteBuf(b, n)[i] = IF i <= n THEN b[i] ELSE b[i + 1]
<1>1. Len(b) \in Nat BY LenProperties
<1>2. CASE ~CanDelete(b, n)
  BY <1>2 DEF DeleteBuf
<1>3. CASE CanDelete(b, n)
  <2> DEFINE f == SubSeq(b, 1, n)
             l == SubSeq(b, n + 2, Len(b))
  <2>1. n \in 0..(Len(b) - 1) BY <1>3 DEF CanDelete
  <2>2. \A i \in 1..Len(b) : b[i] \in R BY ElementOfSeq
  <2>3. f \in Seq(R) /\ Len(f) = n /\ \A i \in 1..n : f[i] = b[i]
    <3>1. \A i \in 1..n : b[i] \in R BY <1>1, <2>1, <2>2
    <3> QED BY <1>1, <2>1, <3>1, SubSeqProperties
  <2>4. /\ l \in Seq(R) /\ Len(l) = Len(b) - n - 1
        /\ \A i \in 1..(Len(b) - n - 1) : l[i] = b[i + n + 1]
    <3>1. \A i \in (n + 2)..Len(b) : b[i] \in R BY <1>1, <2>1, <2>2
    <3>2. /\ l \in Seq(R)
          /\ Len(l) = IF n + 2 <= Len(b) THEN Len(b) - (n + 2) + 1 ELSE 0
          /\ \A i \in 1..(Len(b) - (n + 2) + 1) : l[i] = b[(n + 2) + i - 1]
      BY <1>1, <2>1, <3>1, SubSeqProperties
    <3> QED BY <1>1, <2>1, <3>2
  <2>5. DeleteBuf(b, n) = f \o l
    <3>1. (n + 1) - 1 = n /\ (n + 1) + 1 = n + 2 BY <2>1
    <3>2. DeleteBuf(b, n) = SubSeq(b, 1, (n + 1) - 1) \o SubSeq(b, (n + 1) + 1, Len(b))
      BY <1>3, Zenon DEF DeleteBuf, RemoveAt
    <3> QED BY <3>1, <3>2, Zenon
  <2> HIDE DEF f, l
  <2>6. /\ f \o l \in Seq(R) /\ Len(f \o l) = Len(f) + Len(l)
        /\ \A i \in 1..(Len(f) + Len(l)) :
             (f \o l)[i] = IF i <= Len(f) THEN f[i] ELSE l[i - Len(f)]
    <3>1. f \in Seq(R) /\ l \in Seq(R) BY <2>3, <2>4
    <3> QED BY <3>1, ConcatProperties, Zenon
  <2>7. Len(f \o l) = Len(b) - 1
    BY <1>1, <2>1, <2>3, <2>4, <2>6
  <2>8. \A i \in 1..(Len(b) - 1) : (f \o l)[i] = IF i <= n THEN b[i] ELSE b[i + 1]
    BY <1>1, <2>1, <2>3, <2>4, <2>6
  <2> QED BY <1>3, <2>5, <2>6, <2>7, <2>8
<1> QED BY <1>2, <1>3

\* move_inband_to_sms, move_sms_to_saved: one record changes its flag in place.
LEMMA MoveBufProperties ==
  ASSUME NEW I, NEW b \in Seq(Records(I)), NEW from, NEW to \in Flags
  PROVE  /\ MoveBuf(b, from, to) \in Seq(Records(I))
         /\ Len(MoveBuf(b, from, to)) = Len(b)
         /\ \A i \in 1..Len(b) :
              /\ MoveBuf(b, from, to)[i].id = b[i].id
              /\ IF i = FindNumb(b, from) + 1 THEN MoveBuf(b, from, to)[i].flag = to
                 ELSE MoveBuf(b, from, to)[i] = b[i]
<1> DEFINE n == FindNumb(b, from)
<1>1. Len(b) \in Nat BY LenProperties
<1>2. CASE n = NoMsd
  BY <1>2 DEF MoveBuf, NoMsd
<1>3. CASE n # NoMsd
  <2>1. n \in 0..(Len(b) - 1) BY <1>3, FindNumbProperties
  <2> DEFINE k == n + 1
             e == [b[k] EXCEPT !.flag = to]
  <2>2. k \in 1..Len(b) BY <1>1, <2>1
  <2>3. b[k] \in Records(I) BY <2>2, ElementOfSeq
  <2>4. e \in Records(I) /\ e.id = b[k].id /\ e.flag = to BY <2>3 DEF Records
  <2>5. MoveBuf(b, from, to) = [b EXCEPT ![k] = e]
    BY <1>3 DEF MoveBuf
  <2>6. k = FindNumb(b, from) + 1 OBVIOUS
  <2> HIDE DEF k, e
  <2>7. /\ [b EXCEPT ![k] = e] \in Seq(Records(I))
        /\ Len([b EXCEPT ![k] = e]) = Len(b)
        /\ \A j \in 1..Len(b) : [b EXCEPT ![k] = e][j] = IF j = k THEN e ELSE b[j]
    BY <2>2, <2>4, ExceptSeq
  <2> QED BY <2>4, <2>5, <2>6, <2>7
<1> QED BY <1>2, <1>3

----------------------------------------------------------------------------
\* The order of creation.
Ordered(b) == \A i, j \in 1..Len(b) : i < j => b[i].id < b[j].id

\* No record is newer than number n.
NotNewer(b, n) == \A i \in 1..Len(b) : b[i].id <= n

\* A new record is saved behind the older ones.
LEMMA SaveBufOrdered ==
  ASSUME NEW b \in Seq(Records(Nat)), Len(b) <= MAX_NUMBER_MSD,
         NEW n \in Nat, Ordered(b), NotNewer(b, n),
         NEW m \in Records(Nat), m.id = n + 1
  PROVE  Ordered(SaveBuf(b, m)) /\ NotNewer(SaveBuf(b, m), n + 1)
<1> DEFINE s == SaveBuf(b, m)
           d == Dropped(b)
<1>1. /\ s \in Seq(Records(Nat)) /\ Len(s) = Len(b) + 1 - d
      /\ \A i \in 1..(Len(s) - 1) : s[i] = b[i + d]
      /\ s[Len(s)] = m
  BY SaveBufProperties
<1>2. Len(b) \in Nat /\ d \in {0, 1} /\ Len(s) \in Nat
  BY <1>1, LenProperties DEF Dropped
<1>3. \A i \in 1..Len(b) : b[i].id \in Nat
  BY RecordFields
<1> HIDE DEF s, d
<1>4. ASSUME NEW i \in 1..(Len(s) - 1)
      PROVE  i + d \in 1..Len(b) /\ s[i] = b[i + d]
  BY <1>1, <1>2
<1>5. ASSUME NEW i \in 1..Len(s)
      PROVE  /\ s[i].id \in Nat /\ s[i].id <= n + 1
             /\ i < Len(s) => s[i].id <= n
  <2>1. CASE i = Len(s)
    BY <1>1, <1>2, <2>1
  <2>2. CASE i \in 1..(Len(s) - 1)
    <3>1. i + d \in 1..Len(b) /\ s[i] = b[i + d] BY <1>4, <2>2
    <3>2. s[i].id \in Nat /\ s[i].id <= n BY <1>3, <3>1 DEF NotNewer
    <3> QED BY <3>2
  <2> QED BY <1>2, <2>1, <2>2
<1>6. NotNewer(s, n + 1)
  BY <1>5 DEF NotNewer
<1>7. Ordered(s)
  <2> SUFFICES ASSUME NEW i \in 1..Len(s), NEW j \in 1..Len(s), i < j
               PROVE  s[i].id < s[j].id
    BY DEF Ordered
  <2>1. i \in 1..(Len(s) - 1) /\ i + d \in 1..Len(b) /\ s[i] = b[i + d]
    BY <1>2, <1>4
  <2>2. CASE j = Len(s)
    BY <1>1, <1>5, <2>1, <2>2
  <2>3. CASE j \in 1..(Len(s) - 1)
    <3>1. j + d \in 1..Len(b) /\ s[j] = b[j + d] BY <1>4, <2>3
    <3>2. i + d < j + d BY <1>2
    <3> QED BY <2>1, <3>1, <3>2 DEF Ordered
  <2> QED BY <1>2, <2>2, <2>3
<1> QED BY <1>6, <1>7 DEF s

\* Deleting a record keeps the order of the others.
LEMMA DeleteBufOrdered ==
  ASSUME NEW b \in Seq(Records(Nat)), NEW k \in Int,
         NEW n \in Nat, Ordered(b), NotNewer(b, n)
  PROVE  Ordered(DeleteBuf(b, k)) /\ NotNewer(DeleteBuf(b, k), n)
<1> DEFINE d == DeleteBuf(b, k)
<1>1. CASE ~CanDelete(b, k)
  BY <1>1, DeleteBufProperties
<1>2. CASE CanDelete(b, k)
  <2>1. /\ Len(d) = Len(b) - 1 /\ Len(b) \in Nat /\ k \in Nat
        /\ \A i \in 1..(Len(b) - 1) : d[i] = IF i <= k THEN b[i] ELSE b[i + 1]
    <3>1. Len(b) \in Nat BY LenProperties
    <3>2. k \in Nat BY <1>2, <3>1 DEF CanDelete
    <3>3. /\ Len(d) = Len(b) - 1
          /\ \A i \in 1..(Len(b) - 1) : d[i] = IF i <= k THEN b[i] ELSE b[i + 1]
      BY <1>2, DeleteBufProperties
    <3> QED BY <3>1, <3>2, <3>3
  <2> HIDE DEF d
  <2>2. \A i \in 1..Len(b) : b[i].id \in Nat
    BY RecordFields
  <2>3. ASSUME NEW i \in 1..Len(d)
        PROVE  \/ i <= k /\ i \in 1..Len(b) /\ d[i] = b[i]
               \/ k < i /\ i + 1 \in 1..Len(b) /\ d[i] = b[i + 1]
    BY <2>1
  <2>4. Ordered(d)
    <3> SUFFICES ASSUME NEW i \in 1..Len(d), NEW j \in 1..Len(d), i < j
                 PROVE  d[i].id < d[j].id
      BY DEF Ordered
    <3>1. CASE i > k
      BY <2>1, <2>3, <3>1 DEF Ordered
    <3>2. CASE i <= k /\ j <= k
      BY <2>1, <2>3, <3>2 DEF Ordered
    <3>3. CASE i <= k /\ j > k
      <4>1. /\ i \in 1..Len(b) /\ d[i] = b[i]
            /\ j + 1 \in 1..Len(b) /\ d[j] = b[j + 1]
        BY <2>1, <2>3, <3>3
      <4> QED BY <2>1, <4>1 DEF Ordered
    <3> QED BY <2>1, <3>1, <3>2, <3>3
  <2>5. NotNewer(d, n)
    BY <2>3 DEF NotNewer
  <2> QED BY <2>4, <2>5 DEF d
<1> QED BY <1>1, <1>2

\* A record changes its flag where it stands.
LEMMA MoveBufOrdered ==
  ASSUME NEW b \in Seq(Records(Nat)), NEW from, NEW to \in Flags,
         NEW n \in Nat, Ordered(b), NotNewer(b, n)
  PROVE  Ordered(MoveBuf(b, from, to)) /\ NotNewer(MoveBuf(b, from, to), n)
<1>1. /\ Len(MoveBuf(b, from, to)) = Len(b)
      /\ \A i \in 1..Len(b) : MoveBuf(b, from, to)[i].id = b[i].id
  BY MoveBufProperties
<1> QED BY <1>1 DEF Ordered, NotNewer

\* The first records of an ordered storage are ordered.
LEMMA PrefixOrdered ==
  ASSUME NEW b \in Seq(Records(Nat)), NEW k \in 0..Len(b),
         NEW n \in Nat, Ordered(b), NotNewer(b, n)
  PROVE  Ordered(SubSeq(b, 1, k)) /\ NotNewer(SubSeq(b, 1, k), n)
<1>1. Len(b) \in Nat BY LenProperties
<1>2. Len(SubSeq(b, 1, k)) = k /\ \A i \in 1..k : SubSeq(b, 1, k)[i] = b[i]
  BY PrefixProperties
<1> QED BY <1>1, <1>2 DEF Ordered, NotNewer

----------------------------------------------------------------------------
\* The order of the flags: a record is moved to the next flag only when it is the
\* first of its flag, so the saved ones come first and the in-band ones last.
Rank(flag) == IF flag = "SAVED" THEN 0 ELSE IF flag = "SMS" THEN 1 ELSE 2
Sorted(b) == \A i, j \in 1..Len(b) : i < j => Rank(b[i].flag) <= Rank(b[j].flag)

\* From number n on there are only in-band records.
InbandFrom(b, n) == \A i \in 1..Len(b) : i > n => b[i].flag = "INBAND"

\* What follows the first in-band record of a sorted storage.
LEMMA InbandFollow ==
  ASSUME NEW I, NEW b \in Seq(Records(I)), Sorted(b), FindNumb(b, "INBAND") # NoMsd
  PROVE  InbandFrom(b, FindNumb(b, "INBAND"))
<1> DEFINE n == FindNumb(b, "INBAND")
<1>1. Len(b) \in Nat BY LenProperties
<1>2. n \in 0..(Len(b) - 1) /\ b[n + 1].flag = "INBAND" BY FindNumbProperties
<1> HIDE DEF n
<1> SUFFICES ASSUME NEW i \in 1..Len(b), i > n PROVE b[i].flag = "INBAND"
  BY DEF InbandFrom, n
<1>3. n + 1 \in 1..Len(b) BY <1>1, <1>2
<1>4. CASE i = n + 1 BY <1>2, <1>4
<1>5. CASE i > n + 1
  <2>1. Rank("INBAND") <= Rank(b[i].flag) BY <1>2, <1>3, <1>5 DEF Sorted
  <2>2. b[i].flag \in Flags BY RecordFields
  <2> QED BY <2>1, <2>2 DEF Rank, Flags
<1> QED BY <1>2, <1>4, <1>5

\* save_MSD puts an in-band record at the end.
LEMMA SaveBufSorted ==
  ASSUME NEW I, NEW b \in Seq(Records(I)), Len(b) <= MAX_NUMBER_MSD,
         NEW m \in Records(I), m.flag = "INBAND", Sorted(b)
  PROVE  /\ Sorted(SaveBuf(b, m))
         /\ \A n \in Int : InbandFrom(b, n) => InbandFrom(SaveBuf(b, m), n)
<1> DEFINE s == SaveBuf(b, m)
           d == Dropped(b)
<1>1. /\ Len(s) = Len(b) + 1 - d /\ s[Len(s)] = m
      /\ \A i \in 1..(Len(s) - 1) : s[i] = b[i + d]
  BY SaveBufProperties
<1>2. Len(b) \in Nat /\ d \in {0, 1} /\ Len(s) \in Nat
  BY <1>1, LenProperties DEF Dropped
<1>3. \A i \in 1..Len(b) : b[i].flag \in Flags BY RecordFields
<1> HIDE DEF s, d
<1>4. ASSUME NEW i \in 1..Len(s)
      PROVE  \/ i = Len(s) /\ s[i].flag = "INBAND"
             \/ i < Len(s) /\ i + d \in 1..Len(b) /\ s[i] = b[i + d]
  BY <1>1, <1>2
<1>5. Sorted(s)
  <2> SUFFICES ASSUME NEW i \in 1..Len(s), NEW j \in 1..Len(s), i < j
               PROVE  Rank(s[i].flag) <= Rank(s[j].flag)
    BY DEF Sorted
  <2>1. i < Len(s) /\ i + d \in 1..Len(b) /\ s[i] = b[i + d] BY <1>2, <1>4
  <2>2. CASE j = Len(s)
    <3>1. Rank(s[j].flag) = 2 BY <1>4, <2>2 DEF Rank
    <3>2. Rank(s[i].flag) <= 2 BY <1>3, <2>1 DEF Rank, Flags
    <3> QED BY <3>1, <3>2
  <2>3. CASE j < Len(s)
    <3>1. j + d \in 1..Len(b) /\ s[j] = b[j + d] BY <1>4, <2>3
    <3>2. i + d < j + d BY <1>2
    <3> QED BY <2>1, <3>1, <3>2 DEF Sorted
  <2> QED BY <1>2, <2>2, <2>3
<1>6. ASSUME NEW n \in Int, InbandFrom(b, n) PROVE InbandFrom(s, n)
  BY <1>2, <1>4, <1>6 DEF InbandFrom
<1> QED BY <1>5, <1>6 DEF s

\* delete_MSD takes one record out.
LEMMA DeleteBufSorted ==
  ASSUME NEW I, NEW b \in Seq(Records(I)), NEW k \in Int, Sorted(b)
  PROVE  /\ Sorted(DeleteBuf(b, k))
         /\ \A n \in Int : InbandFrom(b, n) => InbandFrom(DeleteBuf(b, k), n)
<1> DEFINE d == DeleteBuf(b, k)
<1>1. CASE ~CanDelete(b, k)
  BY <1>1, DeleteBufProperties
<1>2. CASE CanDelete(b, k)
  <2>1. /\ Len(d) = Len(b) - 1 /\ Len(b) \in Nat /\ k \in Nat
        /\ \A i \in 1..(Len(b) - 1) : d[i] = IF i <= k THEN b[i] ELSE b[i + 1]
    <3>1. Len(b) \in Nat BY LenProperties
    <3>2. k \in Nat BY <1>2, <3>1 DEF CanDelete
    <3>3. /\ Len(d) = Len(b) - 1
          /\ \A i \in 1..(Len(b) - 1) : d[i] = IF i <= k THEN b[i] ELSE b[i + 1]
      BY <1>2, DeleteBufProperties
    <3> QED BY <3>1, <3>2, <3>3
  <2> HIDE DEF d
  <2>2. ASSUME NEW i \in 1..Len(d)
        PROVE  \/ i <= k /\ i \in 1..Len(b) /\ d[i] = b[i]
               \/ k < i /\ i + 1 \in 1..Len(b) /\ d[i] = b[i + 1]
    BY <2>1
  <2>3. Sorted(d)
    <3> SUFFICES ASSUME NEW i \in 1..Len(d), NEW j \in 1..Len(d), i < j
                 PROVE  Rank(d[i].flag) <= Rank(d[j].flag)
      BY DEF Sorted
    <3>1. CASE i > k
      BY <2>1, <2>2, <3>1 DEF Sorted
    <3>2. CASE i <= k /\ j <= k
      BY <2>1, <2>2, <3>2 DEF Sorted
    <3>3. CASE i <= k /\ j > k
      <4>1. /\ i \in 1..Len(b) /\ d[i] = b[i]
            /\ j + 1 \in 1..Len(b) /\ d[j] = b[j + 1]
        BY <2>1, <2>2, <3>3
      <4> QED BY <2>1, <4>1 DEF Sorted
    <3> QED BY <2>1, <3>1, <3>2, <3>3
  <2>4. ASSUME NEW n \in Int, InbandFrom(b, n) PROVE InbandFrom(d, n)
    BY <2>1, <2>2, <2>4 DEF InbandFrom
  <2> QED BY <2>3, <2>4 DEF d
<1> QED BY <1>1, <1>2

\* The first in-band record becomes the last that waits as SMS, the first that waits
\* as SMS the last that is saved.
LEMMA MoveBufSorted ==
  ASSUME NEW I, NEW b \in Seq(Records(I)), NEW from \in Flags, NEW to \in Flags,
         Rank(to) = Rank(from) - 1, FindNumb(b, from) # NoMsd, Sorted(b)
  PROVE  /\ Sorted(MoveBuf(b, from, to))
         /\ from # "INBAND" =>
              \A n \in Int : InbandFrom(b, n) => InbandFrom(MoveBuf(b, from, to), n)
<1> DEFINE m == MoveBuf(b, from, to)
           k == FindNumb(b, from) + 1
<1>1. Len(b) \in Nat BY LenProperties
<1>2. /\ Len(m) = Len(b)
      /\ \A i \in 1..Len(b) : IF i = k THEN m[i].flag = to ELSE m[i] = b[i]
  BY MoveBufProperties
<1>3. /\ k \in 1..Len(b) /\ b[k].flag = from
      /\ \A i \in 1..(k - 1) : b[i].flag # from
  <2>1. /\ FindNumb(b, from) \in 0..(Len(b) - 1) /\ b[FindNumb(b, from) + 1].flag = from
        /\ \A i \in 1..FindNumb(b, from) : b[i].flag # from
    BY FindNumbProperties
  <2> QED BY <1>1, <2>1
<1> HIDE DEF m, k
<1>4. \A i \in 1..Len(b) : b[i].flag \in Flags BY RecordFields
<1>5. ASSUME NEW i \in 1..Len(b), i < k PROVE Rank(b[i].flag) <= Rank(to)
  <2>1. Rank(b[i].flag) <= Rank(from) BY <1>3, <1>5 DEF Sorted
  <2>2. b[i].flag # from /\ b[i].flag \in Flags BY <1>3, <1>4, <1>5
  <2> QED BY <2>1, <2>2 DEF Rank, Flags
<1>6. ASSUME NEW i \in 1..Len(b), i > k PROVE Rank(to) <= Rank(b[i].flag)
  <2>1. Rank(from) <= Rank(b[i].flag) BY <1>3, <1>6 DEF Sorted
  <2> QED BY <2>1 DEF Rank
<1>7. Sorted(m)
  <2> SUFFICES ASSUME NEW i \in 1..Len(b), NEW j \in 1..Len(b), i < j
               PROVE  Rank(m[i].flag) <= Rank(m[j].flag)
    BY <1>2 DEF Sorted
  <2>1. CASE i = k
    BY <1>2, <1>3, <1>6, <2>1
  <2>2. CASE j = k
    BY <1>2, <1>3, <1>5, <2>2
  <2>3. CASE i # k /\ j # k
    BY <1>2, <2>3 DEF Sorted
  <2> QED BY <2>1, <2>2, <2>3
<1>8. ASSUME from # "INBAND", NEW n \in Int, InbandFrom(b, n) PROVE InbandFrom(m, n)
  BY <1>1, <1>2, <1>3, <1>8 DEF InbandFrom
<1> QED BY <1>7, <1>8 DEF m

\* The first records of a sorted storage are sorted.
LEMMA PrefixSorted ==
  ASSUME NEW I, NEW b \in Seq(Records(I)), NEW k \in 0..Len(b), Sorted(b)
  PROVE  Sorted(SubSeq(b, 1, k))
<1>1. Len(b) \in Nat BY LenProperties
<1>2. Len(SubSeq(b, 1, k)) = k /\ \A i \in 1..k : SubSeq(b, 1, k)[i] = b[i]
  BY PrefixProperties
<1> QED BY <1>1, <1>2 DEF Sorted

\* delete_MSD with the number of an in-band record spares every other record.
LEMMA DeleteSparesOthers ==
  ASSUME NEW R, NEW b \in Seq(R), NEW n \in Int, CanDelete(b, n), InbandFrom(b, n)
  PROVE  {m \in ToSet(b) : m.flag # "INBAND"} \subseteq ToSet(DeleteBuf(b, n))
<1> DEFINE d == DeleteBuf(b, n)
<1>1. Len(b) \in Nat /\ n \in 0..(Len(b) - 1) BY LenProperties DEF CanDelete
<1>2. /\ d \in Seq(R) /\ Len(d) = Len(b) - 1
      /\ \A i \in 1..(Len(b) - 1) : d[i] = IF i <= n THEN b[i] ELSE b[i + 1]
  BY DeleteBufProperties
<1>3. DOMAIN b = 1..Len(b) /\ DOMAIN d = 1..Len(d) BY <1>2, LenProperties
<1> HIDE DEF d
<1>4. ASSUME NEW i \in 1..Len(b), b[i].flag # "INBAND" PROVE b[i] \in ToSet(d)
  <2>1. i <= n BY <1>1, <1>4 DEF InbandFrom
  <2>2. i \in DOMAIN d /\ d[i] = b[i] BY <1>1, <1>2, <1>3, <2>1
  <2> QED BY <2>2, Zenon DEF ToSet
<1>5. ToSet(b) = {b[i] : i \in 1..Len(b)} BY <1>3, Zenon DEF ToSet
<1> QED BY <1>4, <1>5, Zenon DEF d

----------------------------------------------------------------------------
\* The counters stay UINT8 whatever init_MSD counts ...
LEMMA RecountedType ==
  ASSUME NEW I, NEW b \in Seq(Records(I))
  PROVE  RecountedFrom(b) \in Counters
<1>1. Len(b) \in Nat BY LenProperties
<1>2. IsFiniteSet(1..Len(b)) BY <1>1, FS_Interval
<1>3. ASSUME NEW f \in Flags PROVE CountOf(b, f) % 256 \in 0..255
  <2>1. {i \in 1..Len(b) : b[i].flag = f} \in SUBSET (1..Len(b)) OBVIOUS
  <2>2. IsFiniteSet({i \in 1..Len(b) : b[i].flag = f}) BY <1>2, <2>1, FS_Subset
  <2>3. CountOf(b, f) \in Nat BY <2>2, FS_CardinalityType DEF CountOf
  <2>4. \A x \in Nat : x % 256 \in 0..255 OBVIOUS
  <2> QED BY <2>3, <2>4, Zenon
<1> QED BY <1>3 DEF RecountedFrom, Counters

\* ... and whatever the other functions count.
LEMMA CountersProperties ==
  ASSUME NEW cnt \in Counters, NEW f \in Flags
  PROVE  Incremented(cnt, f) \in Counters /\ Decremented(cnt, f) \in Counters
<1>1. cnt["INBAND"] \in 0..255 /\ cnt["SMS"] \in 0..255 /\ cnt["SAVED"] \in 0..255
  BY DEF Counters, Flags
<1>2. (cnt[f] + 1) % 256 \in 0..255 /\ (cnt[f] + 255) % 256 \in 0..255
  BY <1>1, SMTT(40) DEF Flags
<1> QED BY <1>2 DEF Counters, Incremented, Decremented
=============================================================================
