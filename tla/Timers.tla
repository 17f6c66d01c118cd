----------------------------- MODULE Timers -----------------------------
(***************************************************************************)
(* The software timers of azx/src/azx_timer.c behind init_timer and        *)
(* deinit_timer of hal/src/sys_utils.c.                                    *)
(*                                                                         *)
(* A client is one timer variable of the program (conn_wait_t, ccft_t,     *)
(* a_timer_t, ...).  Starting it takes a slot of allTimers; the slot's     *)
(* number is the timer's identifier.  The hardware timer counts one cycle  *)
(* of at most MAX_DUR and posts the identifier to the Timer task, which    *)
(* starts the next cycle or calls the client back.  Clients run in their   *)
(* own tasks under the mutex of sys_utils.c; the hardware and the Timer    *)
(* task take no mutex.                                                     *)
(*                                                                         *)
(* A handler gets the identifier and compares it with its variables; the   *)
(* handlers of Unchecked (a_player.c, sim.c) do not look at it.            *)
(***************************************************************************)
EXTENDS Integers, Sequences, SequencesExt

CONSTANTS Clients,     \* the timer variables
          Unchecked,   \* those whose handler ignores the identifier
          MAX_TIMERS,  \* slots, 15 in the code
          MAX_DUR,     \* longest cycle of the hardware timer, 30 minutes
          Mbox,        \* places in the Timer task's mailbox, AZX_TASKS_MBOX_L
          Durations,   \* durations asked for, none is 0
          MaxStarts    \* bound: how often init_timer is called

ASSUME TimersAssumption ==
  /\ Unchecked \subseteq Clients
  /\ MAX_TIMERS \in Nat \ {0} /\ MAX_DUR \in Nat \ {0} /\ Mbox \in Nat \ {0}
  /\ Durations \subseteq Nat \ {0} /\ MaxStarts \in Nat
  /\ "none" \notin Clients

NO_AZX_TIMER_ID == 0
Ids == 1..MAX_TIMERS

VARIABLES
  slot,      \* allTimers: [used, cb, running, cycle, total] of every slot
  q,         \* mailbox of the Timer task: identifiers
  task,      \* the slot timer_task has looked up, or NO_AZX_TIMER_ID
  var,       \* the client's variable: its timer's identifier
  pc,        \* where the client is in init_timer
  id,        \* its local variable id in init_timer
  dur,       \* the duration it asked for
  starts,    \* number of calls of init_timer
  elapsed,   \* history: what the slot's hardware timer has counted since it was started
  overtaken, \* history: slots taken or given back with an old expiry on its way
  fired      \* history: how the last callback came

timerVars == <<slot, q, task, var, pc, id, dur, starts, elapsed, overtaken, fired>>

\* Between "cb" and "start" the client holds the mutex of sys_utils.c.
Pcs == {"ready", "init", "cb", "start", "assign"}
MutexFree == \A c \in Clients : pc[c] \notin {"cb", "start"}

Slots == [used : BOOLEAN, cb : Clients \cup {"none"}, running : BOOLEAN,
          cycle : Nat, total : Nat]

\* An expiry of slot s is in the mailbox or in the hands of the Timer task.
OnItsWay(s) == s \in Range(q) \/ task = s

----------------------------------------------------------------------------
\* set_duration: what is left over from whole cycles runs first; a multiple of
\* MAX_DUR starts with a whole cycle.
Split(d) ==
  IF d % MAX_DUR # 0 THEN [cycle |-> d % MAX_DUR, total |-> d - (d % MAX_DUR)]
  ELSE [cycle |-> MAX_DUR, total |-> d - MAX_DUR]

\* do_start(tim, d, TRUE) on a slot that has its hardware timer.
DoStart(r, d) == [r EXCEPT !.running = TRUE, !.cycle = Split(d).cycle, !.total = Split(d).total]

Init ==
  /\ slot = [s \in Ids |-> [used |-> FALSE, cb |-> "none", running |-> FALSE,
                            cycle |-> 0, total |-> 0]]
  /\ q = <<>> /\ task = NO_AZX_TIMER_ID
  /\ var = [c \in Clients |-> NO_AZX_TIMER_ID] /\ id = var
  /\ pc = [c \in Clients |-> "ready"]
  /\ dur = [c \in Clients |-> 0]
  /\ starts = 0
  /\ elapsed = [s \in Ids |-> 0]
  /\ overtaken = [s \in Ids |-> FALSE]
  /\ fired = [c \in Clients |-> "no"]

----------------------------------------------------------------------------
\* Mutant of Deinit: the variable keeps the identifier.
DeinitKeepsId(c) ==
  /\ MutexFree
  /\ IF var[c] = NO_AZX_TIMER_ID THEN UNCHANGED <<slot, overtaken>>
     ELSE /\ slot' = [slot EXCEPT ![var[c]].used = FALSE, ![var[c]].running = FALSE]
          /\ overtaken' = [overtaken EXCEPT ![var[c]] = OnItsWay(var[c])]
  /\ fired' = [fired EXCEPT ![c] = "no"]
  /\ UNCHANGED <<q, task, var, id, elapsed>>

\* deinit_timer: the hardware timer is stopped and freed, the slot and the
\* variable are cleared; the slot's callback and durations stay as they are.
Deinit(c) ==
  /\ MutexFree
  /\ IF var[c] = NO_AZX_TIMER_ID THEN UNCHANGED <<slot, overtaken>>
     ELSE /\ slot' = [slot EXCEPT ![var[c]].used = FALSE, ![var[c]].running = FALSE]
          /\ overtaken' = [overtaken EXCEPT ![var[c]] = OnItsWay(var[c])]
  /\ var' = [var EXCEPT ![c] = NO_AZX_TIMER_ID]
  /\ fired' = [fired EXCEPT ![c] = "no"]
  /\ UNCHANGED <<q, task, id, elapsed>>

\* A client that has no timer to run any more: deinit_timer(&x).
StopTimer(c) ==
  /\ pc[c] = "ready"
  /\ Deinit(c)
  /\ UNCHANGED <<pc, dur, starts>>

\* A client starts its timer: deinit_timer(&x); x = init_timer(name, d, handler).
StartTimer(c) ==
  /\ pc[c] = "ready" /\ starts < MaxStarts
  /\ starts' = starts + 1
  /\ \E d \in Durations : dur' = [dur EXCEPT ![c] = d]
  /\ Deinit(c)
  /\ pc' = [pc EXCEPT ![c] = "init"]

\* get_next_available: the first slot with no identifier.
FreeSlots == {s \in Ids : ~slot[s].used}
NextAvailable == CHOOSE s \in FreeSlots : \A r \in FreeSlots : s <= r

\* azx_timer_init: the slot gets its identifier and a hardware timer that does not
\* run; total_duration_ms is set to the parameter, 0.  Without a free slot
\* init_timer returns NO_AZX_TIMER_ID.
TakeSlot(c) ==
  /\ pc[c] = "init" /\ MutexFree
  /\ IF FreeSlots = {}
       THEN /\ pc' = [pc EXCEPT ![c] = "ready"]
            /\ UNCHANGED <<slot, id, overtaken>>
       ELSE /\ slot' = [slot EXCEPT ![NextAvailable].used = TRUE, ![NextAvailable].total = 0]
            /\ overtaken' = [overtaken EXCEPT ![NextAvailable] = OnItsWay(NextAvailable)]
            /\ id' = [id EXCEPT ![c] = NextAvailable]
            /\ pc' = [pc EXCEPT ![c] = "cb"]
  /\ UNCHANGED <<q, task, var, dur, starts, elapsed, fired>>

\* azx_timer_initWithCb: the callback is set.
SetCallback(c) ==
  /\ pc[c] = "cb"
  /\ slot' = [slot EXCEPT ![id[c]].cb = c]
  /\ pc' = [pc EXCEPT ![c] = "start"]
  /\ UNCHANGED <<q, task, var, id, dur, starts, elapsed, overtaken, fired>>

\* azx_timer_start with restart = FALSE, then the mutex is given back.
StartSlot(c) ==
  /\ pc[c] = "start"
  /\ slot' = IF slot[id[c]].running THEN slot
             ELSE [slot EXCEPT ![id[c]] = DoStart(@, dur[c])]
  /\ elapsed' = [elapsed EXCEPT ![id[c]] = 0]
  /\ pc' = [pc EXCEPT ![c] = "assign"]
  /\ UNCHANGED <<q, task, var, id, dur, starts, overtaken, fired>>

\* The caller of init_timer assigns the identifier to its variable.
AssignId(c) ==
  /\ pc[c] = "assign"
  /\ var' = [var EXCEPT ![c] = id[c]]
  /\ id' = [id EXCEPT ![c] = NO_AZX_TIMER_ID]
  /\ pc' = [pc EXCEPT ![c] = "ready"]
  /\ UNCHANGED <<slot, q, task, dur, starts, elapsed, overtaken, fired>>

InInitTimer(c) == TakeSlot(c) \/ SetCallback(c) \/ StartSlot(c) \/ AssignId(c)

----------------------------------------------------------------------------
\* timer_cb: a cycle is over, the identifier is posted; a full mailbox loses it.
\* The shortest timer of the program runs 1.5 s: the variable is assigned by then.
Expires(s) ==
  /\ slot[s].running
  /\ \A c \in Clients : pc[c] = "assign" => id[c] # s
  /\ slot' = [slot EXCEPT ![s].running = FALSE]
  /\ elapsed' = [elapsed EXCEPT ![s] = @ + slot[s].cycle]
  /\ q' = IF Len(q) < Mbox THEN Append(q, s) ELSE q
  /\ UNCHANGED <<task, var, pc, id, dur, starts, overtaken, fired>>

\* timer_task, get_timer: an identifier whose slot is free is ignored.
LookUp ==
  /\ task = NO_AZX_TIMER_ID /\ q # <<>>
  /\ task' = IF slot[Head(q)].used THEN Head(q) ELSE NO_AZX_TIMER_ID
  /\ q' = Tail(q)
  /\ UNCHANGED <<slot, var, pc, id, dur, starts, elapsed, overtaken, fired>>

\* The clients whose handler takes the call of slot s for its own timer's.
Reached(s) == {c \in Clients : IF c \in Unchecked THEN slot[s].cb = c ELSE var[c] = s}

\* What such a call is to client c: due after exactly its duration, stale when the
\* slot was taken or given back while an older expiry was on its way.
Quality(c, s) ==
  IF var[c] = s /\ elapsed[s] = dur[c] THEN "due"
  ELSE IF overtaken[s] THEN "stale" ELSE "wrong"

CallBack(s) ==
  /\ fired' = [c \in Clients |-> IF c \in Reached(s) THEN Quality(c, s) ELSE fired[c]]
  /\ UNCHANGED slot

\* Mutants of timer_task: the callback after the first cycle; the next cycle prepared
\* and not started.
DispatchAtOnce ==
  /\ task # NO_AZX_TIMER_ID
  /\ CallBack(task)
  /\ task' = NO_AZX_TIMER_ID
  /\ UNCHANGED <<q, var, pc, id, dur, starts, elapsed, overtaken>>

DispatchIdle ==
  /\ task # NO_AZX_TIMER_ID
  /\ IF slot[task].total = 0 THEN CallBack(task)
     ELSE /\ slot' = [slot EXCEPT ![task] = [DoStart(@, @.total) EXCEPT !.running = FALSE]]
          /\ UNCHANGED fired
  /\ task' = NO_AZX_TIMER_ID
  /\ UNCHANGED <<q, var, pc, id, dur, starts, elapsed, overtaken>>

\* timer_task, the slot looked up: the callback when no cycle is left, or the next
\* cycle.  A slot given back meanwhile has no hardware timer to start.
Dispatch ==
  /\ task # NO_AZX_TIMER_ID
  /\ IF slot[task].total = 0 THEN CallBack(task)
     ELSE /\ slot' = [slot EXCEPT ![task] = [DoStart(@, @.total) EXCEPT !.running = slot[task].used]]
          /\ UNCHANGED fired
  /\ task' = NO_AZX_TIMER_ID
  /\ UNCHANGED <<q, var, pc, id, dur, starts, elapsed, overtaken>>

TimerTask == LookUp \/ Dispatch

Next ==
  \/ \E c \in Clients : StartTimer(c) \/ StopTimer(c) \/ InInitTimer(c)
  \/ \E s \in Ids : Expires(s)
  \/ TimerTask

\* The hardware counts, the Timer task reads its mailbox, and nothing in init_timer
\* blocks but the mutex, which its holder gives back.
Fairness ==
  /\ \A s \in Ids : WF_timerVars(Expires(s))
  /\ WF_timerVars(TimerTask)
  /\ \A c \in Clients : WF_timerVars(InInitTimer(c))

Spec == Init /\ [][Next]_timerVars /\ Fairness

----------------------------------------------------------------------------
TypeOK ==
  /\ slot \in [Ids -> Slots]
  /\ q \in Seq(Ids) /\ Len(q) <= Mbox
  /\ task \in Ids \cup {NO_AZX_TIMER_ID}
  /\ var \in [Clients -> Ids \cup {NO_AZX_TIMER_ID}]
  /\ id \in [Clients -> Ids \cup {NO_AZX_TIMER_ID}]
  /\ pc \in [Clients -> Pcs]
  /\ dur \in [Clients -> Durations \cup {0}]
  /\ starts \in 0..MaxStarts
  /\ elapsed \in [Ids -> Nat]
  /\ overtaken \in [Ids -> BOOLEAN]
  /\ fired \in [Clients -> {"no", "due", "stale", "wrong"}]

\* A slot belongs to at most one timer, from the moment init_timer takes it to
\* deinit_timer, and a slot in use belongs to one (get_next_available,
\* azx_timer.c:77-88, under the mutex of sys_utils.c): no slot is lost.
Holds(c, s) == var[c] = s \/ id[c] = s
SlotsNotShared ==
  \A s \in Ids :
    /\ \A c, d \in Clients : Holds(c, s) /\ Holds(d, s) => c = d
    /\ slot[s].used <=> \E c \in Clients : Holds(c, s)

\* The cycles of set_duration add up: a client is called after exactly the time it
\* asked for, unless its slot changed hands with an expiry on the way.
ExactDuration == \A c \in Clients : fired[c] # "wrong"

\* A timer that was started calls back, unless its client stops or restarts it.
EveryTimerFires ==
  \A c \in Clients :
    (pc[c] = "ready" /\ var[c] # NO_AZX_TIMER_ID /\ fired[c] = "no")
      ~> (fired[c] # "no" \/ var[c] = NO_AZX_TIMER_ID)
=========================================================================
