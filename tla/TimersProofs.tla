------------------------- MODULE TimersProofs -------------------------
(***************************************************************************)
(* Proofs about Timers.tla for every set of clients, every number of slots *)
(* and every duration: no slot is shared or lost, although it is taken in  *)
(* one step and its number is assigned to the client's variable three      *)
(* steps later; and set_duration and the restarts lose no time.            *)
(***************************************************************************)
EXTENDS Timers, SequenceTheorems, WellFoundedInduction, TLAPS

\* set_duration (azx_timer.c:58-75): what runs first is between 1 and MAX_DUR, and
\* with what is left over it makes up the duration.
THEOREM DurationIsKept ==
  ASSUME NEW d \in Nat \ {0}
  PROVE  /\ Split(d).cycle \in 1..MAX_DUR
         /\ Split(d).total \in Nat
         /\ Split(d).cycle + Split(d).total = d
<1>. DEFINE m == d % MAX_DUR
            p == MAX_DUR * (d \div MAX_DUR)
<1>1. MAX_DUR \in Nat \ {0}
  BY TimersAssumption
<1>2. m \in 0..(MAX_DUR - 1) /\ d \div MAX_DUR \in Nat /\ d = p + m
  BY <1>1, SMT
<1>3. p \in Nat /\ (d \div MAX_DUR # 0 => p >= MAX_DUR)
  BY <1>1, <1>2, SMT
<1>4. d \div MAX_DUR = 0 => p = 0
  BY <1>1, SMT
<1>5. Split(d) = IF m # 0 THEN [cycle |-> m, total |-> d - m]
                 ELSE [cycle |-> MAX_DUR, total |-> d - MAX_DUR]
  BY DEF Split
<1>. HIDE DEF m, p
<1>6. CASE m # 0
  BY <1>1, <1>2, <1>3, <1>5, <1>6
<1>7. CASE m = 0
  BY <1>1, <1>2, <1>3, <1>4, <1>5, <1>7
<1>. QED BY <1>2, <1>6, <1>7

\* init_timer takes a slot that is free, if there is one.
LEMMA NextAvailableIsFree ==
  ASSUME FreeSlots # {}
  PROVE  NextAvailable \in Ids /\ ~slot[NextAvailable].used
<1>1. FreeSlots \subseteq Nat
  BY TimersAssumption DEF FreeSlots, Ids
<1>2. PICK x \in FreeSlots : \A y \in FreeSlots : ~(<<y, x>> \in OpToRel(<, Nat))
  BY <1>1, NatLessThanWellFounded, WFMin
<1>3. \A y \in FreeSlots : ~(y < x)
  BY <1>1, <1>2 DEF OpToRel
<1>4. \A y \in FreeSlots : x <= y
  BY <1>1, <1>3
<1>5. NextAvailable \in FreeSlots
  BY <1>2, <1>4 DEF NextAvailable
<1>. QED BY <1>5 DEF FreeSlots

----------------------------------------------------------------------------
(* The mailbox.                                                            *)

\* Slot s has at most one expiry in mailbox m.
Single(m, s) == \A i, j \in 1..Len(m) : m[i] = s /\ m[j] = s => i = j

\* An expiry posted is the last in the mailbox, the others stay.
LEMMA Posted ==
  ASSUME NEW m \in Seq(Ids), NEW s \in Ids
  PROVE  /\ Append(m, s) \in Seq(Ids) /\ Len(Append(m, s)) = Len(m) + 1
         /\ \A r : r \in Range(Append(m, s)) <=> r \in Range(m) \/ r = s
         /\ s \notin Range(m) => Single(Append(m, s), s)
         /\ \A r : r # s /\ Single(m, r) => Single(Append(m, s), r)
<1>1. /\ Len(m) \in Nat /\ DOMAIN m = 1..Len(m)
      /\ Append(m, s) \in Seq(Ids) /\ Len(Append(m, s)) = Len(m) + 1
      /\ DOMAIN Append(m, s) = 1..(Len(m) + 1)
      /\ \A i \in 1..Len(m) : Append(m, s)[i] = m[i]
      /\ Append(m, s)[Len(m) + 1] = s
  BY AppendProperties, LenProperties
<1>. QED BY <1>1 DEF Range, Single

\* The Timer task takes the oldest expiry.
LEMMA Taken ==
  ASSUME NEW m \in Seq(Ids), m # <<>>
  PROVE  /\ Head(m) \in Ids
         /\ Tail(m) \in Seq(Ids) /\ Len(Tail(m)) = Len(m) - 1
         /\ \A r : r \in Range(m) <=> r \in Range(Tail(m)) \/ r = Head(m)
         /\ \A r : Single(m, r) => Single(Tail(m), r)
         /\ Single(m, Head(m)) => Head(m) \notin Range(Tail(m))
<1>1. /\ Len(m) \in Nat \ {0} /\ DOMAIN m = 1..Len(m)
      /\ Head(m) = m[1] /\ Head(m) \in Ids
      /\ Tail(m) \in Seq(Ids) /\ Len(Tail(m)) = Len(m) - 1
      /\ DOMAIN Tail(m) = 1..(Len(m) - 1)
      /\ \A i \in 1..(Len(m) - 1) : Tail(m)[i] = m[i + 1]
  BY HeadTailProperties, LenProperties, EmptySeq
<1>2. \A r : r \in Range(m) <=> \E i \in 1..Len(m) : m[i] = r
  BY <1>1 DEF Range
<1>3. \A r : r \in Range(Tail(m)) <=> \E i \in 1..(Len(m) - 1) : m[i + 1] = r
  BY <1>1 DEF Range
<1>4. \A r : r \in Range(m) <=> r \in Range(Tail(m)) \/ r = Head(m)
  <2>1. ASSUME NEW r, NEW i \in 1..Len(m), m[i] = r, r # Head(m)
        PROVE  r \in Range(Tail(m))
    <3>1. i - 1 \in 1..(Len(m) - 1) /\ Tail(m)[i - 1] = r
      BY <1>1, <2>1
    <3>. QED BY <1>1, <3>1 DEF Range
  <2>2. ASSUME NEW r, NEW i \in 1..(Len(m) - 1), m[i + 1] = r
        PROVE  r \in Range(m)
    <3>1. i + 1 \in 1..Len(m)
      BY <1>1
    <3>. QED BY <1>2, <2>2, <3>1
  <2>3. Head(m) \in Range(m)
    <3>1. 1 \in 1..Len(m)
      BY <1>1
    <3>. QED BY <1>1, <1>2, <3>1
  <2>. QED BY <1>2, <1>3, <2>1, <2>2, <2>3
<1>5. ASSUME NEW r, Single(m, r) PROVE Single(Tail(m), r)
  BY <1>1, <1>5 DEF Single
<1>6. ASSUME Single(m, Head(m)) PROVE Head(m) \notin Range(Tail(m))
  <2>1. \A i \in 1..(Len(m) - 1) : i + 1 \in 1..Len(m) /\ i + 1 # 1 /\ 1 \in 1..Len(m)
    BY <1>1
  <2>. QED BY <1>1, <1>3, <1>6, <2>1 DEF Single
<1>. QED BY <1>1, <1>4, <1>5, <1>6

----------------------------------------------------------------------------
(* The inductive invariant.                                                *)

\* A client holds a slot in its local variable exactly while it is in init_timer with
\* one; then its own variable is empty, because deinit_timer came before, and the
\* duration it asks for is known.
LocalOnlyInInit ==
  \A c \in Clients :
    /\ id[c] # NO_AZX_TIMER_ID <=> pc[c] \in {"cb", "start", "assign"}
    /\ pc[c] # "ready" => var[c] = NO_AZX_TIMER_ID /\ dur[c] \in Durations

\* From SetCallback on the slot's callback is its client's.
CallbackIsOwners ==
  \A c \in Clients, s \in Ids :
    var[c] = s \/ (id[c] = s /\ pc[c] \in {"start", "assign"}) => slot[s].cb = c

\* A slot waits: it does not run and none of its expiries is on its way.
Waits(s) == ~slot[s].running /\ ~OnItsWay(s)

\* What is left to count of slot s, with what was counted, is duration d.
Counts(s, d) ==
  /\ slot[s].running /\ ~OnItsWay(s)
  /\ elapsed[s] + slot[s].cycle + slot[s].total = d

\* One cycle was counted and its expiry is on its way, once.
Posts(s, d) ==
  /\ ~slot[s].running
  /\ Single(q, s) /\ (task = s => s \notin Range(q))
  /\ elapsed[s] + slot[s].total = d

\* The time account of a slot that did not change hands with an expiry on its way.
TimeOf(s) ==
  /\ ~slot[s].used => Waits(s)
  /\ \A c \in Clients :
       /\ id[c] = s => IF pc[c] = "assign" THEN Counts(s, dur[c]) ELSE Waits(s)
       /\ var[c] = s => Waits(s) \/ Counts(s, dur[c]) \/ Posts(s, dur[c])

TimeAccount == \A s \in Ids : ~overtaken[s] => TimeOf(s)

\* A free slot has no hardware timer.
FreeDoesNotRun == \A s \in Ids : ~slot[s].used => ~slot[s].running

Ownership == LocalOnlyInInit /\ SlotsNotShared /\ CallbackIsOwners /\ FreeDoesNotRun

IInv == TypeOK /\ Ownership /\ TimeAccount /\ ExactDuration

----------------------------------------------------------------------------
\* The identifiers are numbers from 1 on.
LEMMA IdsAreNumbers == Ids \subseteq Nat /\ NO_AZX_TIMER_ID \notin Ids
BY TimersAssumption DEF Ids, NO_AZX_TIMER_ID

\* A slot that was started has a running timer and durations of type.
LEMMA StartedSlot ==
  ASSUME NEW r \in Slots, NEW d \in Nat \ {0}
  PROVE  /\ DoStart(r, d) \in Slots
         /\ DoStart(r, d) = [used |-> r.used, cb |-> r.cb, running |-> TRUE,
                             cycle |-> Split(d).cycle, total |-> Split(d).total]
<1>1. Split(d).cycle \in Nat /\ Split(d).total \in Nat
  BY DurationIsKept, TimersAssumption
<1>. DEFINE a == Split(d).cycle
            b == Split(d).total
<1>2. DoStart(r, d) = [r EXCEPT !.running = TRUE, !.cycle = a, !.total = b]
  BY DEF DoStart
<1>. HIDE DEF a, b
<1>3. DoStart(r, d) = [used |-> r.used, cb |-> r.cb, running |-> TRUE, cycle |-> a, total |-> b]
  BY <1>2 DEF Slots
<1>4. a \in Nat /\ b \in Nat
  BY <1>1 DEF a, b
<1>5. DoStart(r, d) \in Slots
  BY <1>3, <1>4 DEF Slots
<1>. QED BY <1>3, <1>5 DEF a, b

\* A slot whose hardware timer stopped.
LEMMA StoppedSlot ==
  ASSUME NEW r \in Slots
  PROVE  /\ [r EXCEPT !.running = FALSE] \in Slots
         /\ ~[r EXCEPT !.running = FALSE].running
         /\ [r EXCEPT !.running = FALSE].used = r.used
         /\ [r EXCEPT !.running = FALSE].cb = r.cb
         /\ [r EXCEPT !.running = FALSE].cycle = r.cycle
         /\ [r EXCEPT !.running = FALSE].total = r.total
BY DEF Slots

LEMMA InitInv == Init => IInv
<1>. SUFFICES ASSUME Init PROVE IInv
  OBVIOUS
<1>1. TypeOK
  BY TimersAssumption DEF Init, TypeOK, Slots, Pcs, NO_AZX_TIMER_ID
<1>2. \A s \in Ids : Waits(s) /\ ~slot[s].used
  BY IdsAreNumbers DEF Init, Waits, OnItsWay, Range
<1>3. /\ \A c \in Clients : id[c] = NO_AZX_TIMER_ID /\ var[c] = NO_AZX_TIMER_ID
      /\ \A c \in Clients : pc[c] = "ready" /\ fired[c] = "no"
  BY DEF Init
<1>4. LocalOnlyInInit /\ ExactDuration
  BY <1>3 DEF LocalOnlyInInit, ExactDuration
<1>5. SlotsNotShared /\ CallbackIsOwners /\ FreeDoesNotRun /\ TimeAccount
  BY <1>2, <1>3, IdsAreNumbers
     DEF SlotsNotShared, Holds, CallbackIsOwners, FreeDoesNotRun, TimeAccount, TimeOf, Waits
<1>. QED BY <1>1, <1>4, <1>5 DEF IInv, Ownership

\* What deinit_timer leaves behind.
LEMMA DeinitTypes ==
  ASSUME TypeOK, NEW c \in Clients, Deinit(c)
  PROVE  /\ slot' \in [Ids -> Slots] /\ overtaken' \in [Ids -> BOOLEAN]
         /\ var' \in [Clients -> Ids \cup {NO_AZX_TIMER_ID}]
         /\ fired' \in [Clients -> {"no", "due", "stale", "wrong"}]
         /\ var'[c] = NO_AZX_TIMER_ID
         /\ \A d \in Clients : d # c => var'[d] = var[d] /\ fired'[d] = fired[d]
         /\ \A s \in Ids : s # var[c] => slot'[s] = slot[s] /\ overtaken'[s] = overtaken[s]
         /\ \A s \in Ids : s = var[c] =>
              /\ ~slot'[s].used /\ ~slot'[s].running
              /\ overtaken'[s] = OnItsWay(s)
<1>1. CASE var[c] = NO_AZX_TIMER_ID
  BY <1>1, IdsAreNumbers DEF TypeOK, Deinit
<1>2. CASE var[c] # NO_AZX_TIMER_ID
  <2>1. var[c] \in Ids
    BY <1>2 DEF TypeOK
  <2>2. slot' = [slot EXCEPT ![var[c]] =
                  [used |-> FALSE, cb |-> slot[var[c]].cb, running |-> FALSE,
                   cycle |-> slot[var[c]].cycle, total |-> slot[var[c]].total]]
    BY <1>2, <2>1 DEF Deinit, TypeOK, Slots
  <2>3. slot' \in [Ids -> Slots]
    BY <2>1, <2>2 DEF TypeOK, Slots
  <2>4. OnItsWay(var[c]) \in BOOLEAN
    BY DEF OnItsWay
  <2>. QED BY <1>2, <2>1, <2>2, <2>3, <2>4, IdsAreNumbers DEF TypeOK, Deinit
<1>. QED BY <1>1, <1>2

\* The steps, one by one: every proof below goes through them.
LEMMA Steps ==
  ASSUME [Next]_timerVars
  PROVE  \/ \E c \in Clients : StartTimer(c) \/ StopTimer(c) \/ TakeSlot(c)
                               \/ SetCallback(c) \/ StartSlot(c) \/ AssignId(c)
         \/ \E s \in Ids : Expires(s)
         \/ LookUp \/ Dispatch \/ UNCHANGED timerVars
BY DEF Next, InInitTimer, TimerTask

\* What the steps of init_timer put into the slot.
LEMMA TakenSlot ==
  ASSUME TypeOK, NEW c \in Clients, TakeSlot(c), FreeSlots # {}
  PROVE  /\ NextAvailable \in Ids /\ ~slot[NextAvailable].used
         /\ slot' \in [Ids -> Slots]
         /\ \A s \in Ids : s # NextAvailable => slot'[s] = slot[s] /\ overtaken'[s] = overtaken[s]
         /\ slot'[NextAvailable] = [slot[NextAvailable] EXCEPT !.used = TRUE, !.total = 0]
         /\ slot'[NextAvailable].used /\ slot'[NextAvailable].running = slot[NextAvailable].running
         /\ overtaken' \in [Ids -> BOOLEAN] /\ overtaken'[NextAvailable] = OnItsWay(NextAvailable)
         /\ id' = [id EXCEPT ![c] = NextAvailable]
         /\ pc' = [pc EXCEPT ![c] = "cb"]
<1>. DEFINE n == NextAvailable
<1>1. n \in Ids /\ ~slot[n].used
  BY NextAvailableIsFree
<1>2. /\ slot' = [slot EXCEPT ![n].used = TRUE, ![n].total = 0]
      /\ overtaken' = [overtaken EXCEPT ![n] = OnItsWay(n)]
      /\ id' = [id EXCEPT ![c] = n] /\ pc' = [pc EXCEPT ![c] = "cb"]
  BY DEF TakeSlot
<1>. HIDE DEF n
<1>3. slot[n] \in Slots /\ OnItsWay(n) \in BOOLEAN
  BY <1>1 DEF TypeOK, OnItsWay
<1>4. slot' = [slot EXCEPT ![n] = [slot[n] EXCEPT !.used = TRUE, !.total = 0]]
  BY <1>1, <1>2 DEF TypeOK
<1>5. [slot[n] EXCEPT !.used = TRUE, !.total = 0] \in Slots
  BY <1>3 DEF Slots
<1>6. /\ [slot[n] EXCEPT !.used = TRUE, !.total = 0].used
      /\ [slot[n] EXCEPT !.used = TRUE, !.total = 0].running = slot[n].running
  BY <1>3 DEF Slots
<1>7. slot' \in [Ids -> Slots] /\ overtaken' \in [Ids -> BOOLEAN]
  BY <1>1, <1>2, <1>3, <1>4, <1>5 DEF TypeOK
<1>8. slot'[n] = [slot[n] EXCEPT !.used = TRUE, !.total = 0]
  BY <1>1, <1>4 DEF TypeOK
<1>9. \A s \in Ids : s # n => slot'[s] = slot[s] /\ overtaken'[s] = overtaken[s]
  BY <1>2, <1>4 DEF TypeOK
<1>10. overtaken'[n] = OnItsWay(n)
  BY <1>1, <1>2 DEF TypeOK
<1>. QED BY <1>1, <1>2, <1>6, <1>7, <1>8, <1>9, <1>10 DEF n

\* A dispatch either calls back or starts the next cycle.
LEMMA Dispatched ==
  ASSUME TypeOK, Dispatch
  PROVE  /\ task \in Ids /\ slot' \in [Ids -> Slots]
         /\ \A s \in Ids : s # task => slot'[s] = slot[s]
         /\ slot'[task].used = slot[task].used /\ slot'[task].cb = slot[task].cb
         /\ \/ /\ slot[task].total = 0 /\ slot' = slot
               /\ fired' = [c \in Clients |-> IF c \in Reached(task) THEN Quality(c, task)
                                              ELSE fired[c]]
            \/ /\ slot[task].total \in Nat \ {0} /\ fired' = fired
               /\ slot'[task].running = slot[task].used
               /\ slot'[task].cycle \in Nat /\ slot'[task].total \in Nat
               /\ slot'[task].cycle + slot'[task].total = slot[task].total
<1>1. task \in Ids
  BY DEF Dispatch, TypeOK
<1>2. slot[task] \in Slots
  BY <1>1 DEF TypeOK
<1>3. CASE slot[task].total = 0
  BY <1>1, <1>3 DEF Dispatch, CallBack, TypeOK
<1>4. CASE slot[task].total # 0
  <2>. DEFINE d == slot[task].total
              r == DoStart(slot[task], d)
  <2>1. d \in Nat \ {0}
    BY <1>2, <1>4 DEF Slots
  <2>2. /\ r \in Slots
        /\ r = [used |-> slot[task].used, cb |-> slot[task].cb, running |-> TRUE,
                cycle |-> Split(d).cycle, total |-> Split(d).total]
    BY <1>2, <2>1, StartedSlot
  <2>3. Split(d).cycle \in Nat /\ Split(d).total \in Nat /\ Split(d).cycle + Split(d).total = d
    BY <2>1, DurationIsKept, TimersAssumption
  <2>4. /\ slot' = [slot EXCEPT ![task] = [r EXCEPT !.running = slot[task].used]]
        /\ fired' = fired
    BY <1>1, <1>4 DEF Dispatch, TypeOK
  <2>. HIDE DEF r, d
  <2>5. /\ [r EXCEPT !.running = slot[task].used] =
             [used |-> slot[task].used, cb |-> slot[task].cb, running |-> slot[task].used,
              cycle |-> Split(d).cycle, total |-> Split(d).total]
        /\ [r EXCEPT !.running = slot[task].used] \in Slots
    BY <1>2, <2>2, <2>3 DEF Slots
  <2>6. /\ slot' \in [Ids -> Slots]
        /\ slot'[task] = [used |-> slot[task].used, cb |-> slot[task].cb,
                          running |-> slot[task].used,
                          cycle |-> Split(d).cycle, total |-> Split(d).total]
        /\ \A s \in Ids : s # task => slot'[s] = slot[s]
    BY <1>1, <2>4, <2>5 DEF TypeOK
  <2>. QED BY <1>1, <2>1, <2>3, <2>4, <2>6 DEF d
<1>. QED BY <1>3, <1>4

\* An expiry stops the timer and is posted, or lost in a full mailbox.
LEMMA Expired ==
  ASSUME TypeOK, NEW s \in Ids, Expires(s)
  PROVE  /\ slot' \in [Ids -> Slots]
         /\ \A r \in Ids : r # s => slot'[r] = slot[r] /\ elapsed'[r] = elapsed[r]
         /\ ~slot'[s].running /\ slot'[s].used = slot[s].used /\ slot'[s].cb = slot[s].cb
         /\ slot'[s].total = slot[s].total /\ slot'[s].total \in Nat
         /\ elapsed' \in [Ids -> Nat] /\ elapsed'[s] = elapsed[s] + slot[s].cycle
<1>1. /\ slot[s] \in Slots /\ elapsed[s] \in Nat
      /\ slot' = [slot EXCEPT ![s].running = FALSE]
      /\ elapsed' = [elapsed EXCEPT ![s] = elapsed[s] + slot[s].cycle]
  BY DEF Expires, TypeOK
<1>. DEFINE r == [slot[s] EXCEPT !.running = FALSE]
<1>2. /\ r \in Slots /\ ~r.running /\ r.used = slot[s].used /\ r.cb = slot[s].cb
      /\ r.total = slot[s].total /\ r.total \in Nat /\ slot[s].cycle \in Nat
  <2>1. slot[s].cycle \in Nat /\ slot[s].total \in Nat
    BY <1>1 DEF Slots
  <2>. QED BY <1>1, <2>1, StoppedSlot
<1>3. slot' = [slot EXCEPT ![s] = r]
  BY <1>1 DEF TypeOK
<1>. HIDE DEF r
<1>4. slot' \in [Ids -> Slots] /\ slot'[s] = r /\ \A x \in Ids : x # s => slot'[x] = slot[x]
  BY <1>2, <1>3 DEF TypeOK
<1>5. /\ elapsed' \in [Ids -> Nat] /\ elapsed'[s] = elapsed[s] + slot[s].cycle
      /\ \A x \in Ids : x # s => elapsed'[x] = elapsed[x]
  BY <1>1, <1>2 DEF TypeOK
<1>. QED BY <1>2, <1>4, <1>5

----------------------------------------------------------------------------
(* The steps preserve the parts of the invariant.                          *)

LEMMA TypeStep ==
  ASSUME TypeOK, LocalOnlyInInit, [Next]_timerVars
  PROVE  TypeOK'
<1>1. ASSUME NEW c \in Clients, StartTimer(c) PROVE TypeOK'
  <2>1. Deinit(c)
    BY <1>1 DEF StartTimer
  <2>2. dur' \in [Clients -> Durations \cup {0}] /\ starts' \in 0..MaxStarts
    BY <1>1, TimersAssumption DEF StartTimer, TypeOK
  <2>. QED BY <1>1, <2>1, <2>2, DeinitTypes DEF StartTimer, Deinit, Pcs, TypeOK
<1>2. ASSUME NEW c \in Clients, StopTimer(c) PROVE TypeOK'
  BY <1>2, DeinitTypes DEF StopTimer, Deinit, TypeOK
<1>3. ASSUME NEW c \in Clients, TakeSlot(c) PROVE TypeOK'
  <2>1. UNCHANGED <<q, task, var, dur, starts, elapsed, fired>>
    BY <1>3 DEF TakeSlot
  <2>2. CASE FreeSlots = {}
    BY <1>3, <2>1, <2>2 DEF TakeSlot, Pcs, TypeOK
  <2>3. CASE FreeSlots # {}
    <3>1. /\ NextAvailable \in Ids
          /\ slot' \in [Ids -> Slots] /\ overtaken' \in [Ids -> BOOLEAN]
          /\ id' = [id EXCEPT ![c] = NextAvailable] /\ pc' = [pc EXCEPT ![c] = "cb"]
      BY <1>3, <2>3, TakenSlot
    <3>2. /\ id' \in [Clients -> Ids \cup {NO_AZX_TIMER_ID}]
          /\ pc' \in [Clients -> Pcs]
      BY <3>1 DEF TypeOK, Pcs
    <3>. QED BY <2>1, <3>1, <3>2 DEF TypeOK
  <2>. QED BY <2>2, <2>3
<1>4. ASSUME NEW c \in Clients, SetCallback(c) PROVE TypeOK'
  <2>1. slot' \in [Ids -> Slots]
    <3>1. ASSUME NEW x \in Slots PROVE [x EXCEPT !.cb = c] \in Slots
      BY DEF Slots
    <3>. QED BY <1>4, <3>1 DEF SetCallback, TypeOK
  <2>2. pc' \in [Clients -> Pcs]
    BY <1>4 DEF SetCallback, Pcs, TypeOK
  <2>. QED BY <1>4, <2>1, <2>2 DEF SetCallback, TypeOK
<1>5. ASSUME NEW c \in Clients, StartSlot(c) PROVE TypeOK'
  <2>1. id[c] \in Ids /\ dur[c] \in Nat \ {0} /\ slot[id[c]] \in Slots
    BY <1>5, TimersAssumption DEF StartSlot, LocalOnlyInInit, TypeOK
  <2>2. DoStart(slot[id[c]], dur[c]) \in Slots
    BY <2>1, StartedSlot
  <2>3. slot' \in [Ids -> Slots]
    BY <1>5, <2>1, <2>2 DEF StartSlot, TypeOK
  <2>4. elapsed' \in [Ids -> Nat] /\ pc' \in [Clients -> Pcs]
    BY <1>5, <2>1 DEF StartSlot, TypeOK, Pcs
  <2>. QED BY <1>5, <2>3, <2>4 DEF StartSlot, TypeOK
<1>6. ASSUME NEW c \in Clients, AssignId(c) PROVE TypeOK'
  BY <1>6 DEF AssignId, Pcs, TypeOK
<1>7. ASSUME NEW s \in Ids, Expires(s) PROVE TypeOK'
  <2>1. q' \in Seq(Ids) /\ Len(q') <= Mbox
    <3>1. Append(q, s) \in Seq(Ids) /\ Len(Append(q, s)) = Len(q) + 1 /\ Len(q) \in Nat
      BY Posted, LenProperties DEF TypeOK
    <3>. QED BY <1>7, <3>1, TimersAssumption DEF Expires, TypeOK
  <2>. QED BY <1>7, <2>1, Expired DEF Expires, TypeOK
<1>8. ASSUME LookUp PROVE TypeOK'
  <2>1. /\ Head(q) \in Ids /\ Tail(q) \in Seq(Ids)
        /\ Len(Tail(q)) = Len(q) - 1 /\ Len(q) \in Nat
    BY <1>8, Taken, LenProperties DEF LookUp, TypeOK
  <2>. QED BY <1>8, <2>1, TimersAssumption DEF LookUp, TypeOK
<1>9. ASSUME Dispatch PROVE TypeOK'
  <2>1. fired' \in [Clients -> {"no", "due", "stale", "wrong"}]
    BY <1>9, Dispatched DEF TypeOK, Quality
  <2>. QED BY <1>9, <2>1, Dispatched DEF Dispatch, TypeOK
<1>10. CASE UNCHANGED timerVars
  BY <1>10 DEF timerVars, TypeOK
<1>. QED BY <1>1, <1>2, <1>3, <1>4, <1>5, <1>6, <1>7, <1>8, <1>9, <1>10, Steps

LEMMA OwnershipStep ==
  ASSUME TypeOK, Ownership, [Next]_timerVars
  PROVE  Ownership'
<1>. USE DEF Ownership
<1>1. ASSUME NEW c \in Clients, Deinit(c), UNCHANGED id,
             pc[c] = "ready", pc'[c] \in {"ready", "init"},
             pc'[c] = "init" => dur'[c] \in Durations,
             \A d \in Clients : d # c => pc'[d] = pc[d] /\ dur'[d] = dur[d]
      PROVE  Ownership'
  <2>1. /\ var'[c] = NO_AZX_TIMER_ID /\ id[c] = NO_AZX_TIMER_ID
        /\ \A d \in Clients : d # c => var'[d] = var[d]
        /\ \A s \in Ids : s # var[c] => slot'[s] = slot[s]
        /\ \A s \in Ids : s = var[c] => ~slot'[s].used /\ ~slot'[s].running
    BY <1>1, DeinitTypes DEF LocalOnlyInInit
  <2>2. LocalOnlyInInit'
    BY <1>1, <2>1 DEF LocalOnlyInInit
  <2>3. SlotsNotShared'
    BY <1>1, <2>1, IdsAreNumbers DEF SlotsNotShared, Holds
  <2>4. CallbackIsOwners'
    BY <1>1, <2>1, IdsAreNumbers DEF CallbackIsOwners, SlotsNotShared, Holds
  <2>5. FreeDoesNotRun'
    BY <1>1, <2>1 DEF FreeDoesNotRun
  <2>. QED BY <2>2, <2>3, <2>4, <2>5
<1>2. ASSUME NEW c \in Clients, StartTimer(c) PROVE Ownership'
  BY <1>1, <1>2 DEF StartTimer, Deinit, TypeOK
<1>3. ASSUME NEW c \in Clients, StopTimer(c) PROVE Ownership'
  BY <1>1, <1>3 DEF StopTimer, Deinit
<1>4. ASSUME NEW c \in Clients, TakeSlot(c) PROVE Ownership'
  <2>1. UNCHANGED <<var, dur>> /\ pc[c] = "init"
    BY <1>4 DEF TakeSlot
  <2>2. CASE FreeSlots = {}
    <3>1. pc' = [pc EXCEPT ![c] = "ready"] /\ UNCHANGED <<slot, id>>
      BY <1>4, <2>2 DEF TakeSlot
    <3>. QED BY <2>1, <3>1 DEF LocalOnlyInInit, SlotsNotShared, Holds, CallbackIsOwners,
                             FreeDoesNotRun, TypeOK
  <2>3. CASE FreeSlots # {}
    <3>. DEFINE n == NextAvailable
    <3>1. /\ n \in Ids /\ ~slot[n].used
          /\ \A s \in Ids : s # n => slot'[s] = slot[s]
          /\ slot'[n].used /\ slot'[n].running = slot[n].running
          /\ id' = [id EXCEPT ![c] = n] /\ pc' = [pc EXCEPT ![c] = "cb"]
      BY <1>4, <2>3, TakenSlot
    <3>. HIDE DEF n
    <3>2. /\ id'[c] = n /\ pc'[c] = "cb" /\ id[c] = NO_AZX_TIMER_ID
          /\ \A d \in Clients : d # c => id'[d] = id[d] /\ pc'[d] = pc[d]
          /\ var'[c] = NO_AZX_TIMER_ID
      BY <2>1, <3>1 DEF TypeOK, LocalOnlyInInit
    <3>3. \A d \in Clients : ~Holds(d, n)
      BY <3>1 DEF SlotsNotShared
    <3>4. LocalOnlyInInit'
      BY <2>1, <3>1, <3>2, IdsAreNumbers DEF LocalOnlyInInit
    <3>5. SlotsNotShared'
      BY <2>1, <3>1, <3>2, <3>3, IdsAreNumbers DEF SlotsNotShared, Holds
    <3>6. CallbackIsOwners'
      BY <2>1, <3>1, <3>2, <3>3, IdsAreNumbers DEF CallbackIsOwners, Holds
    <3>7. FreeDoesNotRun'
      BY <3>1 DEF FreeDoesNotRun
    <3>. QED BY <3>4, <3>5, <3>6, <3>7
  <2>. QED BY <2>2, <2>3
<1>5. ASSUME NEW c \in Clients, SetCallback(c) PROVE Ownership'
  <2>1. id[c] \in Ids /\ slot[id[c]] \in Slots
    BY <1>5 DEF SetCallback, LocalOnlyInInit, TypeOK
  <2>2. /\ slot'[id[c]].cb = c /\ slot'[id[c]].used = slot[id[c]].used
        /\ slot'[id[c]].running = slot[id[c]].running
        /\ \A s \in Ids : s # id[c] => slot'[s] = slot[s]
    BY <1>5, <2>1 DEF SetCallback, TypeOK, Slots
  <2>3. /\ pc[c] = "cb" /\ pc'[c] = "start" /\ UNCHANGED <<var, id, dur>>
        /\ \A d \in Clients : d # c => pc'[d] = pc[d]
    BY <1>5 DEF SetCallback, TypeOK
  <2>4. LocalOnlyInInit' /\ SlotsNotShared' /\ FreeDoesNotRun'
    BY <2>1, <2>2, <2>3 DEF LocalOnlyInInit, SlotsNotShared, Holds, FreeDoesNotRun
  <2>5. CallbackIsOwners'
    BY <2>1, <2>2, <2>3 DEF CallbackIsOwners, SlotsNotShared, Holds
  <2>. QED BY <2>4, <2>5
<1>6. ASSUME NEW c \in Clients, StartSlot(c) PROVE Ownership'
  <2>1. id[c] \in Ids /\ dur[c] \in Nat \ {0} /\ slot[id[c]] \in Slots
    BY <1>6, TimersAssumption DEF StartSlot, LocalOnlyInInit, TypeOK
  <2>2. slot[id[c]].used
    BY <2>1 DEF SlotsNotShared, Holds
  <2>3. /\ DoStart(slot[id[c]], dur[c]).cb = slot[id[c]].cb
        /\ DoStart(slot[id[c]], dur[c]).used = slot[id[c]].used
    BY <2>1, StartedSlot
  <2>4. /\ slot'[id[c]].cb = slot[id[c]].cb /\ slot'[id[c]].used = slot[id[c]].used
        /\ \A s \in Ids : s # id[c] => slot'[s] = slot[s]
    BY <1>6, <2>1, <2>3 DEF StartSlot, TypeOK
  <2>5. /\ pc[c] = "start" /\ pc'[c] = "assign" /\ UNCHANGED <<var, id, dur>>
        /\ \A d \in Clients : d # c => pc'[d] = pc[d]
    BY <1>6 DEF StartSlot, TypeOK
  <2>6. LocalOnlyInInit' /\ SlotsNotShared'
    BY <2>4, <2>5 DEF LocalOnlyInInit, SlotsNotShared, Holds
  <2>7. CallbackIsOwners'
    BY <2>4, <2>5 DEF CallbackIsOwners
  <2>8. FreeDoesNotRun'
    BY <2>2, <2>4 DEF FreeDoesNotRun
  <2>. QED BY <2>6, <2>7, <2>8
<1>7. ASSUME NEW c \in Clients, AssignId(c) PROVE Ownership'
  <2>1. /\ pc[c] = "assign" /\ pc'[c] = "ready" /\ UNCHANGED <<slot, dur>>
        /\ var'[c] = id[c] /\ id'[c] = NO_AZX_TIMER_ID /\ var[c] = NO_AZX_TIMER_ID
        /\ \A d \in Clients : d # c => pc'[d] = pc[d] /\ var'[d] = var[d] /\ id'[d] = id[d]
    BY <1>7 DEF AssignId, LocalOnlyInInit, TypeOK
  <2>2. LocalOnlyInInit'
    BY <2>1 DEF LocalOnlyInInit
  <2>3. SlotsNotShared' /\ CallbackIsOwners' /\ FreeDoesNotRun'
    BY <2>1, IdsAreNumbers DEF SlotsNotShared, Holds, CallbackIsOwners, FreeDoesNotRun
  <2>. QED BY <2>2, <2>3
<1>8. ASSUME NEW s \in Ids, Expires(s) PROVE Ownership'
  BY <1>8, Expired
     DEF Expires, LocalOnlyInInit, SlotsNotShared, Holds, CallbackIsOwners, FreeDoesNotRun
<1>9. ASSUME LookUp PROVE Ownership'
  BY <1>9 DEF LookUp, LocalOnlyInInit, SlotsNotShared, Holds, CallbackIsOwners, FreeDoesNotRun
<1>10. ASSUME Dispatch PROVE Ownership'
  <2>1. UNCHANGED <<var, pc, id, dur>>
    BY <1>10 DEF Dispatch
  <2>2. /\ task \in Ids /\ \A s \in Ids : s # task => slot'[s] = slot[s]
        /\ slot'[task].used = slot[task].used /\ slot'[task].cb = slot[task].cb
        /\ slot' = slot \/ slot'[task].running = slot[task].used
    BY <1>10, Dispatched
  <2>. QED BY <2>1, <2>2
           DEF LocalOnlyInInit, SlotsNotShared, Holds, CallbackIsOwners, FreeDoesNotRun
<1>11. CASE UNCHANGED timerVars
  BY <1>11 DEF timerVars, LocalOnlyInInit, SlotsNotShared, Holds, CallbackIsOwners, FreeDoesNotRun
<1>. QED BY <1>2, <1>3, <1>4, <1>5, <1>6, <1>7, <1>8, <1>9, <1>10, <1>11, Steps

\* A slot whose fields, expiries and clients a step leaves alone keeps its account.
LEMMA AccountKept ==
  ASSUME NEW s \in Ids, TimeOf(s),
         slot'[s] = slot[s], elapsed'[s] = elapsed[s],
         OnItsWay(s)' <=> OnItsWay(s),
         Single(q, s) /\ (task = s => s \notin Range(q))
           => Single(q', s) /\ (task' = s => s \notin Range(q')),
         \A c \in Clients : /\ id'[c] = s => id[c] = s /\ pc'[c] = pc[c] /\ dur'[c] = dur[c]
                            /\ var'[c] = s => var[c] = s /\ dur'[c] = dur[c]
  PROVE  TimeOf(s)'
BY DEF TimeOf, Waits, Counts, Posts

LEMMA TimeStep ==
  ASSUME TypeOK, Ownership, TimeAccount, [Next]_timerVars
  PROVE  TimeAccount'
<1>. USE DEF Ownership
<1>1. ASSUME NEW c \in Clients, Deinit(c), UNCHANGED <<id, elapsed, q, task>>,
             pc[c] = "ready",
             \A d \in Clients : d # c => pc'[d] = pc[d] /\ dur'[d] = dur[d]
      PROVE  TimeAccount'
  <2>1. /\ var'[c] = NO_AZX_TIMER_ID /\ id[c] = NO_AZX_TIMER_ID
        /\ \A d \in Clients : d # c => var'[d] = var[d]
        /\ \A s \in Ids : s # var[c] => slot'[s] = slot[s] /\ overtaken'[s] = overtaken[s]
        /\ \A s \in Ids : s = var[c] => /\ ~slot'[s].used /\ ~slot'[s].running
                                        /\ overtaken'[s] = OnItsWay(s)
    BY <1>1, DeinitTypes DEF LocalOnlyInInit
  <2>2. \A s \in Ids : OnItsWay(s)' <=> OnItsWay(s)
    BY <1>1 DEF OnItsWay
  <2>3. ASSUME NEW s \in Ids, ~overtaken'[s], s # var[c] PROVE TimeOf(s)'
    BY <1>1, <2>1, <2>2, <2>3, AccountKept, IdsAreNumbers DEF TimeAccount
  <2>4. ASSUME NEW s \in Ids, ~overtaken'[s], s = var[c] PROVE TimeOf(s)'
    <3>1. Waits(s)'
      BY <2>1, <2>2, <2>4 DEF Waits
    <3>2. \A d \in Clients : id'[d] # s /\ var'[d] # s
      BY <1>1, <2>1, <2>4, IdsAreNumbers DEF SlotsNotShared, Holds
    <3>. QED BY <3>1, <3>2 DEF TimeOf
  <2>. QED BY <2>3, <2>4 DEF TimeAccount
<1>2. ASSUME NEW c \in Clients, StartTimer(c) PROVE TimeAccount'
  BY <1>1, <1>2 DEF StartTimer, Deinit, TypeOK
<1>3. ASSUME NEW c \in Clients, StopTimer(c) PROVE TimeAccount'
  BY <1>1, <1>3 DEF StopTimer, Deinit
<1>4. ASSUME NEW c \in Clients, TakeSlot(c) PROVE TimeAccount'
  <2>1. UNCHANGED <<q, task, var, dur, elapsed>> /\ pc[c] = "init" /\ id[c] = NO_AZX_TIMER_ID
    BY <1>4 DEF TakeSlot, LocalOnlyInInit
  <2>2. \A s \in Ids : OnItsWay(s)' <=> OnItsWay(s)
    BY <2>1 DEF OnItsWay
  <2>3. CASE FreeSlots = {}
    <3>1. pc' = [pc EXCEPT ![c] = "ready"] /\ UNCHANGED <<slot, id, overtaken>>
      BY <1>4, <2>3 DEF TakeSlot
    <3>2. \A s \in Ids, d \in Clients : id'[d] = s => pc'[d] = pc[d]
      BY <2>1, <3>1, IdsAreNumbers DEF TypeOK
    <3>. QED BY <2>1, <2>2, <3>1, <3>2, AccountKept DEF TimeAccount
  <2>4. CASE FreeSlots # {}
    <3>. DEFINE n == NextAvailable
    <3>1. /\ n \in Ids /\ ~slot[n].used
          /\ \A s \in Ids : s # n => slot'[s] = slot[s] /\ overtaken'[s] = overtaken[s]
          /\ slot'[n].used /\ slot'[n].running = slot[n].running
          /\ overtaken'[n] = OnItsWay(n)
          /\ id' = [id EXCEPT ![c] = n] /\ pc' = [pc EXCEPT ![c] = "cb"]
      BY <1>4, <2>4, TakenSlot
    <3>. HIDE DEF n
    <3>2. /\ id'[c] = n /\ pc'[c] = "cb"
          /\ \A d \in Clients : d # c => id'[d] = id[d] /\ pc'[d] = pc[d]
      BY <3>1 DEF TypeOK
    <3>3. \A d \in Clients : ~Holds(d, n)
      BY <3>1 DEF SlotsNotShared
    <3>4. ASSUME NEW s \in Ids, ~overtaken'[s], s # n PROVE TimeOf(s)'
      BY <2>1, <2>2, <3>1, <3>2, <3>4, AccountKept DEF TimeAccount
    <3>5. ASSUME NEW s \in Ids, s = n, ~overtaken'[s] PROVE TimeOf(s)'
      <4>1. Waits(s)'
        BY <2>2, <3>1, <3>5 DEF Waits, FreeDoesNotRun
      <4>2. \A d \in Clients : var'[d] # s /\ (id'[d] = s => pc'[d] # "assign")
        BY <2>1, <3>2, <3>3, <3>5 DEF Holds
      <4>. QED BY <3>1, <3>5, <4>1, <4>2 DEF TimeOf
    <3>. QED BY <3>4, <3>5 DEF TimeAccount
  <2>. QED BY <2>3, <2>4<1>5. ASSUME NEW c \in Clients, SetCallback(c) PROVE TimeAccount'
  <2>1. id[c] \in Ids /\ slot[id[c]] \in Slots
    BY <1>5 DEF SetCallback, LocalOnlyInInit, TypeOK
  <2>2. /\ slot'[id[c]].used = slot[id[c]].used
        /\ slot'[id[c]].running = slot[id[c]].running
        /\ \A s \in Ids : s # id[c] => slot'[s] = slot[s]
    BY <1>5, <2>1 DEF SetCallback, TypeOK, Slots
  <2>3. /\ pc[c] = "cb" /\ pc'[c] = "start"
        /\ UNCHANGED <<q, task, var, id, dur, elapsed, overtaken>>
        /\ \A d \in Clients : d # c => pc'[d] = pc[d]
    BY <1>5 DEF SetCallback, TypeOK
  <2>4. \A s \in Ids : OnItsWay(s)' <=> OnItsWay(s)
    BY <2>3 DEF OnItsWay
  <2>5. ASSUME NEW s \in Ids, ~overtaken'[s], s # id[c] PROVE TimeOf(s)'
    BY <2>2, <2>3, <2>4, <2>5, AccountKept DEF TimeAccount
  <2>6. ASSUME ~overtaken'[id[c]] PROVE TimeOf(id[c])'
    <3>1. Waits(id[c])
      BY <2>1, <2>3, <2>6 DEF TimeAccount, TimeOf
    <3>2. Waits(id[c])'
      BY <2>1, <2>2, <2>3, <2>4, <3>1 DEF Waits
    <3>3. \A d \in Clients : var'[d] # id[c] /\ (id'[d] = id[c] => d = c)
      BY <2>1, <2>3, IdsAreNumbers DEF SlotsNotShared, Holds, LocalOnlyInInit
    <3>. QED BY <2>3, <3>2, <3>3 DEF TimeOf
  <2>. QED BY <2>1, <2>3, <2>5, <2>6 DEF TimeAccount
<1>6. ASSUME NEW c \in Clients, StartSlot(c) PROVE TimeAccount'
  <2>1. id[c] \in Ids /\ dur[c] \in Nat \ {0} /\ slot[id[c]] \in Slots
    BY <1>6, TimersAssumption DEF StartSlot, LocalOnlyInInit, TypeOK
  <2>2. /\ pc[c] = "start" /\ pc'[c] = "assign" /\ elapsed'[id[c]] = 0
        /\ UNCHANGED <<q, task, var, id, dur, overtaken>>
        /\ \A d \in Clients : d # c => pc'[d] = pc[d]
        /\ \A s \in Ids : s # id[c] => slot'[s] = slot[s] /\ elapsed'[s] = elapsed[s]
    BY <1>6, <2>1 DEF StartSlot, TypeOK
  <2>3. \A s \in Ids : OnItsWay(s)' <=> OnItsWay(s)
    BY <2>2 DEF OnItsWay
  <2>4. ASSUME NEW s \in Ids, ~overtaken'[s], s # id[c] PROVE TimeOf(s)'
    BY <2>2, <2>3, <2>4, AccountKept DEF TimeAccount
  <2>5. ASSUME ~overtaken'[id[c]] PROVE TimeOf(id[c])'
    <3>1. Waits(id[c])
      BY <2>1, <2>2, <2>5 DEF TimeAccount, TimeOf
    <3>2. slot'[id[c]] = DoStart(slot[id[c]], dur[c])
      BY <1>6, <2>1, <3>1 DEF StartSlot, Waits, TypeOK
    <3>3. /\ slot'[id[c]].running /\ slot'[id[c]].used = slot[id[c]].used
          /\ slot'[id[c]].cycle \in Nat /\ slot'[id[c]].total \in Nat
          /\ slot'[id[c]].cycle + slot'[id[c]].total = dur[c]
      BY <2>1, <3>2, StartedSlot, DurationIsKept, TimersAssumption, SMTT(40)
    <3>4. Counts(id[c], dur[c])'
      BY <2>1, <2>2, <2>3, <3>1, <3>3 DEF Counts, Waits
    <3>5. \A d \in Clients : var'[d] # id[c] /\ (id'[d] = id[c] => d = c)
      BY <2>1, <2>2, IdsAreNumbers DEF SlotsNotShared, Holds, LocalOnlyInInit
    <3>6. slot'[id[c]].used
      BY <2>1, <3>3 DEF SlotsNotShared, Holds
    <3>. QED BY <2>2, <3>4, <3>5, <3>6 DEF TimeOf
  <2>. QED BY <2>1, <2>2, <2>4, <2>5 DEF TimeAccount
<1>7. ASSUME NEW c \in Clients, AssignId(c) PROVE TimeAccount'
  <2>1. /\ pc[c] = "assign" /\ pc'[c] = "ready"
        /\ UNCHANGED <<slot, q, task, dur, elapsed, overtaken>>
        /\ id[c] \in Ids /\ var'[c] = id[c] /\ id'[c] = NO_AZX_TIMER_ID
        /\ \A d \in Clients : d # c => pc'[d] = pc[d] /\ var'[d] = var[d] /\ id'[d] = id[d]
    BY <1>7 DEF AssignId, LocalOnlyInInit, TypeOK
  <2>2. \A s \in Ids : OnItsWay(s)' <=> OnItsWay(s)
    BY <2>1 DEF OnItsWay
  <2>3. ASSUME NEW s \in Ids, ~overtaken'[s], s # id[c] PROVE TimeOf(s)'
    BY <2>1, <2>2, <2>3, AccountKept, IdsAreNumbers DEF TimeAccount
  <2>4. ASSUME NEW s \in Ids, s = id[c], ~overtaken'[s] PROVE TimeOf(s)'
    <3>1. Counts(s, dur[c])
      BY <2>1, <2>4 DEF TimeAccount, TimeOf
    <3>2. Counts(s, dur[c])'
      BY <2>1, <2>2, <3>1 DEF Counts
    <3>3. \A d \in Clients : id'[d] # s /\ (var'[d] = s => d = c)
      BY <2>1, <2>4, IdsAreNumbers DEF SlotsNotShared, Holds
    <3>4. slot'[s].used
      BY <2>1, <2>4 DEF SlotsNotShared, Holds
    <3>. QED BY <2>1, <3>2, <3>3, <3>4 DEF TimeOf
  <2>. QED BY <2>1, <2>3, <2>4 DEF TimeAccount
<1>8. ASSUME NEW x \in Ids, Expires(x) PROVE TimeAccount'
  <2>1. /\ slot[x].running /\ UNCHANGED <<task, var, pc, id, dur, overtaken>>
        /\ \A c \in Clients : pc[c] = "assign" => id[c] # x
        /\ q' = q \/ q' = Append(q, x)
    BY <1>8 DEF Expires
  <2>2. /\ \A s \in Ids : s # x => slot'[s] = slot[s] /\ elapsed'[s] = elapsed[s]
        /\ ~slot'[x].running /\ slot'[x].used = slot[x].used
        /\ slot'[x].total = slot[x].total /\ elapsed'[x] = elapsed[x] + slot[x].cycle
    BY <1>8, Expired
  <2>3. /\ q \in Seq(Ids)
        /\ \A r : r # x => (r \in Range(q') <=> r \in Range(q))
        /\ \A r : r # x /\ Single(q, r) => Single(q', r)
        /\ x \notin Range(q) => Single(q', x)
    <3>1. q \in Seq(Ids)
      BY DEF TypeOK
    <3>2. CASE q' = Append(q, x)
      BY <3>1, <3>2, Posted
    <3>3. CASE q' = q
      <4>1. x \notin Range(q) => Single(q, x)
        BY <3>1, LenProperties DEF Range, Single
      <4>. QED BY <3>1, <3>3, <4>1
    <3>. QED BY <2>1, <3>2, <3>3
  <2>4. ASSUME NEW s \in Ids, ~overtaken'[s], s # x PROVE TimeOf(s)'
    <3>1. OnItsWay(s)' <=> OnItsWay(s)
      BY <2>1, <2>3, <2>4 DEF OnItsWay
    <3>. QED BY <2>1, <2>2, <2>3, <2>4, <3>1, AccountKept DEF TimeAccount
  <2>5. ASSUME ~overtaken'[x] PROVE TimeOf(x)'
    <3>1. TimeOf(x) /\ ~Waits(x) /\ slot'[x].used
      BY <2>1, <2>2, <2>5 DEF TimeAccount, TimeOf, Waits
    <3>2. \A d \in Clients : id'[d] # x
      BY <2>1, <3>1 DEF TimeOf
    <3>3. ASSUME NEW d \in Clients, var'[d] = x PROVE Posts(x, dur[d])'
      <4>1. Counts(x, dur[d])
        BY <2>1, <3>1, <3>3 DEF TimeOf, Posts
      <4>2. /\ elapsed'[x] + slot'[x].total = dur'[d]
        BY <2>1, <2>2, <4>1 DEF Counts, TypeOK, Slots
      <4>3. Single(q', x) /\ task' # x
        BY <2>1, <2>3, <4>1 DEF Counts, OnItsWay
      <4>. QED BY <2>2, <4>2, <4>3 DEF Posts
    <3>. QED BY <3>1, <3>2, <3>3 DEF TimeOf
  <2>. QED BY <2>4, <2>5 DEF TimeAccount
<1>9. ASSUME LookUp PROVE TimeAccount'
  <2>1. /\ task = NO_AZX_TIMER_ID /\ q \in Seq(Ids) /\ q # <<>> /\ q' = Tail(q)
        /\ task' = IF slot[Head(q)].used THEN Head(q) ELSE NO_AZX_TIMER_ID
        /\ UNCHANGED <<slot, var, pc, id, dur, elapsed, overtaken>>
    BY <1>9 DEF LookUp, TypeOK
  <2>2. /\ Head(q) \in Ids
        /\ \A r : r \in Range(q) <=> r \in Range(q') \/ r = Head(q)
        /\ \A r : Single(q, r) => Single(q', r)
        /\ Single(q, Head(q)) => Head(q) \notin Range(q')
    BY <2>1, Taken
  <2>3. ASSUME NEW s \in Ids, ~overtaken'[s] PROVE TimeOf(s)'
    <3>1. TimeOf(s)
      BY <2>1, <2>3 DEF TimeAccount
    <3>2. CASE s # Head(q)
      <4>1. OnItsWay(s)' <=> OnItsWay(s)
        BY <2>1, <2>2, <3>2, IdsAreNumbers DEF OnItsWay
      <4>. QED BY <2>1, <2>2, <3>1, <3>2, <4>1, AccountKept, IdsAreNumbers
    <3>3. CASE s = Head(q)
      <4>1. OnItsWay(s) /\ slot[s].used
        BY <2>2, <3>1, <3>3 DEF OnItsWay, TimeOf, Waits
      <4>2. task' = s /\ OnItsWay(s)'
        BY <2>1, <3>3, <4>1 DEF OnItsWay
      <4>. QED BY <2>1, <2>2, <3>1, <3>3, <4>1, <4>2, AccountKept
    <3>. QED BY <3>2, <3>3
  <2>. QED BY <2>3 DEF TimeAccount
<1>10. ASSUME Dispatch PROVE TimeAccount'
  <2>1. /\ task \in Ids /\ task' = NO_AZX_TIMER_ID
        /\ UNCHANGED <<q, var, pc, id, dur, elapsed, overtaken>>
        /\ \A s \in Ids : s # task => slot'[s] = slot[s]
        /\ slot'[task].used = slot[task].used
    BY <1>10, Dispatched DEF Dispatch
  <2>2. ASSUME NEW s \in Ids, ~overtaken'[s], s # task PROVE TimeOf(s)'
    <3>1. OnItsWay(s)' <=> OnItsWay(s)
      BY <2>1, <2>2, IdsAreNumbers DEF OnItsWay
    <3>. QED BY <2>1, <2>2, <3>1, AccountKept, IdsAreNumbers DEF TimeAccount
  <2>3. ASSUME NEW s \in Ids, s = task, ~overtaken'[s] PROVE TimeOf(s)'
    <3>1. TimeOf(s) /\ ~Waits(s) /\ slot[s].used
      BY <2>1, <2>3 DEF TimeAccount, TimeOf, Waits, OnItsWay
    <3>2. PICK c \in Clients : Holds(c, s)
      BY <2>1, <3>1 DEF SlotsNotShared
    <3>3. var[c] = s /\ Posts(s, dur[c])
      <4>1. OnItsWay(s) /\ ~Waits(s) /\ ~Counts(s, dur[c])
        BY <2>3, <3>1 DEF OnItsWay, Counts
      <4>2. id[c] # s
        BY <3>1, <4>1 DEF TimeOf
      <4>. QED BY <3>1, <3>2, <4>1, <4>2 DEF Holds, TimeOf
    <3>4. \A d \in Clients : id'[d] # s /\ (var'[d] = s => d = c)
      BY <2>1, <3>2, <3>3, IdsAreNumbers DEF SlotsNotShared, Holds, LocalOnlyInInit
    <3>5. ~OnItsWay(s)'
      BY <2>1, <2>3, <3>3, IdsAreNumbers DEF OnItsWay, Posts
    <3>6. Waits(s)' \/ Counts(s, dur[c])'
      <4>1. CASE slot' = slot
        BY <2>1, <3>3, <3>5, <4>1 DEF Waits, Posts
      <4>2. CASE /\ slot'[s].running = slot[s].used
                 /\ slot'[s].cycle \in Nat /\ slot'[s].total \in Nat
                 /\ slot'[s].cycle + slot'[s].total = slot[s].total
        BY <2>1, <3>1, <3>3, <3>5, <4>2 DEF Counts, Posts, TypeOK
      <4>. QED BY <1>10, <2>3, <4>1, <4>2, Dispatched
    <3>. QED BY <2>1, <2>3, <3>1, <3>3, <3>4, <3>6 DEF TimeOf
  <2>. QED BY <2>2, <2>3 DEF TimeAccount
<1>11. CASE UNCHANGED timerVars
  BY <1>11 DEF timerVars, TimeAccount, TimeOf, Waits, Counts, Posts, OnItsWay
<1>. QED BY <1>2, <1>3, <1>4, <1>5, <1>6, <1>7, <1>8, <1>9, <1>10, <1>11, Steps

\* A call that reaches a client is for its own timer and comes when its time is over,
\* unless the slot changed hands with an expiry on its way.
LEMMA ExactStep ==
  ASSUME TypeOK, Ownership, TimeAccount, ExactDuration, [Next]_timerVars
  PROVE  ExactDuration'
<1>. USE DEF Ownership
<1>1. ASSUME NEW c \in Clients, Deinit(c) PROVE ExactDuration'
  BY <1>1 DEF Deinit, ExactDuration, TypeOK
<1>2. ASSUME UNCHANGED fired PROVE ExactDuration'
  BY <1>2 DEF ExactDuration
<1>3. ASSUME Dispatch PROVE ExactDuration'
  <2>1. CASE UNCHANGED fired
    BY <1>2, <2>1
  <2>2. CASE /\ slot[task].total = 0
             /\ fired' = [c \in Clients |-> IF c \in Reached(task) THEN Quality(c, task)
                                            ELSE fired[c]]
    <3>1. SUFFICES ASSUME NEW c \in Clients, c \in Reached(task), ~overtaken[task]
                   PROVE  Quality(c, task) = "due"
      BY <2>2 DEF ExactDuration, Quality
    <3>2. task \in Ids /\ OnItsWay(task)
      BY <1>3, Dispatched DEF OnItsWay
    <3>3. TimeOf(task)
      BY <3>1, <3>2 DEF TimeAccount
    <3>4. slot[task].used
      BY <3>2, <3>3 DEF TimeOf, Waits
    <3>5. PICK d \in Clients : Holds(d, task)
      BY <3>2, <3>4 DEF SlotsNotShared
    <3>6. var[d] = task /\ Posts(task, dur[d])
      <4>1. ~Waits(task) /\ ~Counts(task, dur[d])
        BY <3>2 DEF Waits, Counts
      <4>. QED BY <3>3, <3>5, <4>1 DEF Holds, TimeOf, Counts
    <3>7. c = d
      <4>1. CASE c \in Unchecked
        BY <3>1, <3>2, <3>6, <4>1 DEF Reached, CallbackIsOwners
      <4>2. CASE c \notin Unchecked
        BY <3>1, <3>2, <3>5, <4>2 DEF Reached, SlotsNotShared, Holds
      <4>. QED BY <4>1, <4>2
    <3>8. elapsed[task] = dur[d]
      BY <2>2, <3>2, <3>6 DEF Posts, TypeOK
    <3>. QED BY <3>6, <3>7, <3>8 DEF Quality
  <2>. QED BY <1>3, <2>1, <2>2, Dispatched
<1>4. CASE UNCHANGED timerVars
  BY <1>2, <1>4 DEF timerVars
<1>. QED BY <1>1, <1>2, <1>3, <1>4, Steps
         DEF StartTimer, StopTimer, TakeSlot, SetCallback, StartSlot, AssignId, Expires, LookUp

----------------------------------------------------------------------------
\* The invariant holds in every reachable state.
THEOREM TimersInvariance == Spec => []IInv
<1>1. IInv /\ [Next]_timerVars => IInv'
  BY TypeStep, OwnershipStep, TimeStep, ExactStep DEF IInv, Ownership
<1>. QED BY <1>1, InitInv, PTL DEF Spec

\* Every variable of the timer library keeps its type.
THEOREM TimersTypeCorrect == Spec => []TypeOK
<1>1. IInv => TypeOK
  BY DEF IInv
<1>. QED BY <1>1, TimersInvariance, PTL

\* No slot is shared and none is lost, for any number of clients and slots: between
\* get_next_available and deinit_timer a slot is its client's alone.
THEOREM SlotsNeverShared == Spec => []SlotsNotShared
<1>1. IInv => SlotsNotShared
  BY DEF IInv, Ownership
<1>. QED BY <1>1, TimersInvariance, PTL

\* A timer of any duration, however many cycles of the hardware timer it takes, calls
\* back after exactly that time, unless its slot changed hands with an expiry on its way.
THEOREM DurationsAreExact == Spec => []ExactDuration
<1>1. IInv => ExactDuration
  BY DEF IInv
<1>. QED BY <1>1, TimersInvariance, PTL
=========================================================================
