--------------------------- MODULE Indication ---------------------------
(***************************************************************************)
(* The indicator of the user interface block (indication.c) with the       *)
(* flags it shows: failures (failures.c), activation (sys_param.c),        *)
(* ignition, test mode.                                                    *)
(*                                                                         *)
(* The task has no timer.  Whatever blinks or is repeated goes on because  *)
(* the handler sends the task its own current command again, as a          *)
(* continuation, after it has slept.  A command of others and a            *)
(* continuation pass through the same bounded mailbox; a continuation of a *)
(* command that is not the current one any more ends.                      *)
(*                                                                         *)
(* A handler is cut where it sleeps, and between the look at the levels of *)
(* failures and the look at all of them.  Failures are set in several      *)
(* threads, and each looks at its flag, remembers what is known of all of  *)
(* them, writes, and then compares and sends; one flag stands for the      *)
(* failures of its level.  Who changes the activation sends first.         *)
(***************************************************************************)
EXTENDS Naturals, Sequences, SequencesExt

CONSTANTS IndMbox,     \* places in the mailbox
          CallSigns,   \* commands of a call: a subset of CallCommands
          IgnOnSteps,  \* steps of the display of ignition on, 80 in the code
          IgnOffSteps, \* of ignition off, 5 in the code
          Setters,     \* threads that set failures
          Changes,     \* the kinds of changes of what is to be shown that come
          MaxEvents,   \* bound: of these changes
          MaxTurns     \* bound: turns of the ignition

CallCommands == {"SHOW_ECALL", "SHOW_SENDING_MSD", "SHOW_VOICE_CHANNEL",
                 "SHOW_ECALL_DIALING", "SHOW_ECALL_IMPOSSIBLE"}

ASSUME IndAssumption ==
  /\ CallSigns \subseteq CallCommands \cup {"SHOW_RING_SIGNAL", "CANCEL_SHOW_RING_SIGNAL"}
  /\ Changes \subseteq {"failure", "clear", "activation", "call", "test", "mode", "special"}
  /\ IndMbox \in Nat \ {0} /\ {IgnOnSteps, IgnOffSteps, MaxEvents, MaxTurns} \subseteq Nat

VARIABLES
  ind,     \* currentTask and stage
  indBox,  \* mailbox: commands of others and continuations
  hand,    \* the command being handled after its first sleep, or what is left of it
  lamp,    \* what is lit; CHANGING with the rhythm of a call or a test
  car,     \* the car: model 10 (Cherry), two-wire interface block
  show,    \* what is to be shown; history: touched, the activation was changed; outdated, a
           \* failure was written when what its setter remembered of all was not so any more
  fex,     \* failures_ex, the failures as last notified
  setter,  \* where each change of a failure is; a change of the activation is under way
  missed,  \* history: a message found no place
  events   \* used up of the bounds

indVars == <<ind, indBox, hand, lamp, car, show, fex, setter, missed, events>>

FailureSigns == {"SHOW_FAILURE", "SHOW_NO_FAILURE", "NO_ACTIVATED"}
Undisturbed == CallCommands \cup {"SHOW_TEST_STARTED"}
Signs == CallSigns \cup FailureSigns \cup
         {"SHOW_IGN_ON", "SHOW_IGN_OFF", "CANCEL_FLASHING", "SHOW_TEST_STARTED", "ACTIVATED",
          "SPEC_FUNC", "NO_TASK"}
Knowledge == {"unknown", "failing", "fine"}
Lamps == {"RED", "GREEN", "YELLOW", "CHANGING"}
Hands == Signs \cup {"free", "recording", "noFailure"}

New(c) == [sign |-> c, again |-> FALSE]
Again(c) == [sign |-> c, again |-> TRUE]

\* send_to_ind_task: without waiting, so a message may be lost.
Send(m) == /\ indBox' = IF Len(indBox) < IndMbox THEN Append(indBox, m) ELSE indBox
           /\ missed' = (missed \/ Len(indBox) >= IndMbox)

Failing(s) == s.high \/ s.low

\* What failures_exist() leaves in failures_ex.
Known(s) == IF Failing(s) THEN "failing" ELSE "fine"

\* set_x_failure under way: of which level, to what, and what it remembered.
NoSetting == [at |-> "idle", level |-> "high", on |-> FALSE, known |-> "unknown"]

IndInit ==
  /\ ind = [current |-> "SHOW_IGN_ON", stage |-> 0]
  /\ indBox = <<>> /\ hand = "free" /\ lamp = "GREEN"
  /\ car \in [cherry : BOOLEAN, twoWire : BOOLEAN]
  /\ \E act \in BOOLEAN :
       show = [high |-> FALSE, low |-> FALSE, ignition |-> FALSE, activated |-> act,
               testMode |-> FALSE, call |-> FALSE, testing |-> FALSE, recording |-> FALSE,
               touched |-> FALSE, outdated |-> FALSE]
  /\ fex = "unknown"
  /\ setter = [failure |-> [t \in Setters |-> NoSetting], activation |-> FALSE]
  /\ missed = FALSE /\ events = [changes |-> 0, turns |-> 0]

----------------------------------------------------------------------------
(* INDICATION_task: which command becomes the current one.                 *)

\* What a new command is taken for.
TakenFor(c) ==
  LET d == IF c = "CANCEL_FLASHING" /\ ~show.ignition THEN "SHOW_IGN_OFF" ELSE c IN
  IF d \in {"SHOW_FAILURE", "SHOW_NO_FAILURE"} /\ ~show.activated THEN "NO_ACTIVATED" ELSE d

\* A new command that the current one does not give way to; on a Cherry nothing interrupts
\* the display of a test.
Skipped(c) ==
  \/ c \in FailureSigns /\ ind.current \in Undisturbed \cup {"SHOW_IGN_ON", "SHOW_IGN_OFF"}
  \/ car.cherry /\ ind.current = "SHOW_TEST_STARTED"

\* indCherryCan and indCherryCanRev2 up to the first sleep, for the current command.
Shown(c, new) ==
  /\ IF show.testMode
     THEN hand' = "free" /\ ind' = [ind EXCEPT !.current = "NO_TASK"] /\ UNCHANGED lamp
     ELSE IF show.recording /\ car.twoWire
     THEN hand' = "recording" /\ lamp' = "GREEN" /\ ind' = [ind EXCEPT !.current = c]
     ELSE /\ hand' = c
          /\ ind' = [current |-> c, stage |-> IF new THEN 0 ELSE ind.stage]
          /\ lamp' = IF new THEN "GREEN" ELSE lamp

TakeCommand ==
  /\ hand = "free" /\ indBox # <<>> /\ ~Head(indBox).again
  /\ LET c == TakenFor(Head(indBox).sign) IN
     IF Skipped(c) THEN UNCHANGED <<ind, hand, lamp>> ELSE Shown(c, TRUE)
  /\ indBox' = Tail(indBox)
  /\ UNCHANGED <<car, show, fex, setter, missed, events>>

TakeContinuation ==
  /\ hand = "free" /\ indBox # <<>> /\ Head(indBox).again
  /\ LET c == Head(indBox).sign IN
     IF c # ind.current THEN UNCHANGED <<ind, hand, lamp>> ELSE Shown(c, FALSE)
  /\ indBox' = Tail(indBox)
  /\ UNCHANGED <<car, show, fex, setter, missed, events>>

----------------------------------------------------------------------------
(* The rest of a handler.                                                  *)

HandUnchanged == UNCHANGED <<car, show, setter, events>>
Done == hand' = "free" /\ HandUnchanged
GoOn == Send(Again(ind.current))
NoTaskThen(c) == ind' = [ind EXCEPT !.current = "NO_TASK"] /\ Send(New(c))

Toggled == IF lamp = "RED" THEN "GREEN" ELSE "RED"

\* While a phrase is recorded the lamp stays as it is.
Recording == hand = "recording" /\ GoOn /\ Done /\ UNCHANGED <<ind, lamp, fex>>

Activated == hand = "ACTIVATED" /\ NoTaskThen("SHOW_FAILURE") /\ Done /\ UNCHANGED <<lamp, fex>>

NotActivated ==
  /\ hand = "NO_ACTIVATED"
  /\ IF show.activated THEN UNCHANGED <<ind, lamp, indBox, missed>>
     ELSE GoOn /\ lamp' = Toggled /\ UNCHANGED ind
  /\ Done /\ UNCHANGED fex

IgnitionOff ==
  /\ hand = "SHOW_IGN_OFF"
  /\ IF ind.stage < IgnOffSteps
     THEN lamp' = "GREEN" /\ GoOn /\ ind' = [ind EXCEPT !.stage = @ + 1]
     ELSE lamp' = "RED" /\ UNCHANGED <<ind, indBox, missed>>
  /\ Done /\ UNCHANGED fex

IgnitionOn ==
  /\ hand = "SHOW_IGN_ON"
  /\ IF ind.stage <= IgnOnSteps
     THEN /\ lamp' = IF ind.stage = 0 \/ ind.stage = IgnOnSteps THEN "GREEN" ELSE "RED"
          /\ GoOn /\ ind' = [ind EXCEPT !.stage = @ + 1]
     ELSE NoTaskThen("SHOW_FAILURE") /\ UNCHANGED lamp
  /\ Done /\ UNCHANGED fex

\* Failures are shown, and looked at again, as long as there are any.
Failures ==
  /\ hand \in {"CANCEL_FLASHING", "SHOW_FAILURE", "SHOW_NO_FAILURE"}
  /\ \/ ~show.activated /\ Send(New("NO_ACTIVATED")) /\ Done /\ UNCHANGED lamp
     \/ show.activated /\ show.high /\ lamp' = "RED" /\ GoOn /\ Done
     \/ /\ show.activated /\ ~show.high /\ show.low
        /\ lamp' = (IF car.twoWire THEN "GREEN" ELSE "YELLOW") /\ GoOn /\ Done
     \/ /\ show.activated /\ ~show.high /\ ~show.low /\ hand' = "noFailure"
        /\ HandUnchanged /\ UNCHANGED <<lamp, indBox, missed>>
  /\ UNCHANGED <<ind, fex>>

\* No level has any failure: the end, unless one has come up since; then the case of the
\* calls is run into.
NoFailure ==
  /\ hand = "noFailure"
  /\ fex' = Known(show)
  /\ IF Failing(show) THEN GoOn /\ lamp' = "CHANGING"
     ELSE lamp' = "GREEN" /\ UNCHANGED <<indBox, missed>>
  /\ Done /\ UNCHANGED ind

CallSign ==
  /\ hand \in CallCommands
  /\ lamp' = "CHANGING" /\ GoOn
  /\ Done /\ UNCHANGED <<ind, fex>>

\* The ring signal is known to the two-wire block alone.
RingSign ==
  /\ hand \in {"SHOW_RING_SIGNAL", "CANCEL_SHOW_RING_SIGNAL"}
  /\ IF car.twoWire
     THEN lamp' = (IF hand = "SHOW_RING_SIGNAL" THEN "RED" ELSE "GREEN") /\ GoOn /\ UNCHANGED ind
     ELSE NoTaskThen("CANCEL_FLASHING") /\ UNCHANGED lamp
  /\ Done /\ UNCHANGED fex

TestSign ==
  /\ hand = "SHOW_TEST_STARTED"
  /\ IF show.testing THEN lamp' = "CHANGING" /\ GoOn /\ UNCHANGED ind
     ELSE NoTaskThen("CANCEL_FLASHING") /\ UNCHANGED lamp
  /\ Done /\ UNCHANGED fex

\* The special functions of the accelerometer blink for some seconds.
SpecialFunctions ==
  /\ hand \in {"SPEC_FUNC", "NO_TASK"}
  /\ NoTaskThen("CANCEL_FLASHING") /\ lamp' = (IF hand = "NO_TASK" THEN lamp ELSE "RED")
  /\ Done /\ UNCHANGED fex

IndTaskNext ==
  \/ TakeCommand \/ TakeContinuation
  \/ Recording \/ Activated \/ NotActivated \/ IgnitionOff \/ IgnitionOn \/ Failures \/ NoFailure
  \/ CallSign \/ RingSign \/ TestSign \/ SpecialFunctions

----------------------------------------------------------------------------
(* The senders.                                                            *)

ShowUnchanged == UNCHANGED <<ind, hand, lamp, car>>
Change(kind) ==
  /\ kind \in Changes /\ events.changes < MaxEvents
  /\ events' = [events EXCEPT !.changes = @ + 1]
Moves(t, c) == setter' = [setter EXCEPT !.failure[t] = c]

\* set_x_failure: a flag that is already so is left alone.
SetFailure(t, level, on) ==
  /\ Change("failure") /\ setter.failure[t].at = "idle" /\ show[level] # on
  /\ Moves(t, [NoSetting EXCEPT !.at = "asked", !.level = level, !.on = on])
  /\ UNCHANGED <<show, fex, indBox, missed>> /\ ShowUnchanged

\* notify_ind: remembers, writes, and then compares and sends.
Remember(t) ==
  /\ setter.failure[t].at = "asked"
  /\ Moves(t, [setter.failure[t] EXCEPT !.at = "remembered", !.known = fex])
  /\ UNCHANGED <<show, fex, events, indBox, missed>> /\ ShowUnchanged

Write(t) ==
  LET f == setter.failure[t] IN
  /\ f.at = "remembered"
  /\ Moves(t, [f EXCEPT !.at = "written"])
  /\ show' = [show EXCEPT ![f.level] = f.on,
                          !.outdated = @ \/ f.known \notin {"unknown", Known(show)}]
  /\ UNCHANGED <<fex, events, indBox, missed>> /\ ShowUnchanged

\* Mutant of NotifyInd: the outcome is kept, the sending forgotten.
NotifyIndNot(t) ==
  /\ setter.failure[t].at = "written" /\ Moves(t, NoSetting)
  /\ fex' = Known(show)
  /\ UNCHANGED <<show, events, indBox, missed>> /\ ShowUnchanged

NotifyInd(t) ==
  /\ setter.failure[t].at = "written" /\ Moves(t, NoSetting)
  /\ fex' = Known(show)
  /\ IF setter.failure[t].known # Known(show)
     THEN Send(New(IF Failing(show) THEN "SHOW_FAILURE" ELSE "SHOW_NO_FAILURE"))
     ELSE UNCHANGED <<indBox, missed>>
  /\ UNCHANGED <<show, events>> /\ ShowUnchanged

ClearFailures ==
  /\ Change("clear")
  /\ show' = [show EXCEPT !.high = FALSE, !.low = FALSE]
  /\ Send(New("SHOW_NO_FAILURE"))
  /\ UNCHANGED <<fex, setter>> /\ ShowUnchanged

\* set_activation_flag: the message goes out before the flag is written.
SendActivation ==
  /\ Change("activation") /\ ~setter.activation
  /\ setter' = [setter EXCEPT !.activation = TRUE] /\ show' = [show EXCEPT !.touched = TRUE]
  /\ Send(New(IF show.activated THEN "NO_ACTIVATED" ELSE "ACTIVATED"))
  /\ UNCHANGED fex /\ ShowUnchanged
SetActivation ==
  /\ setter.activation /\ setter' = [setter EXCEPT !.activation = FALSE]
  /\ show' = [show EXCEPT !.activated = ~@]
  /\ UNCHANGED <<indBox, missed, fex, events>> /\ ShowUnchanged

Ignition ==
  /\ events.turns < MaxTurns /\ events' = [events EXCEPT !.turns = @ + 1]
  /\ show' = [show EXCEPT !.ignition = ~@]
  /\ Send(New(IF show.ignition THEN "SHOW_IGN_OFF" ELSE "SHOW_IGN_ON"))
  /\ UNCHANGED <<fex, setter>> /\ ShowUnchanged

\* A call shows its progress and in the end takes the lamp back.
CallShows(c) ==
  /\ Change("call") /\ show' = [show EXCEPT !.call = TRUE] /\ Send(New(c))
  /\ UNCHANGED <<fex, setter>> /\ ShowUnchanged
CallEnded ==
  /\ show.call /\ show' = [show EXCEPT !.call = FALSE] /\ Send(New("CANCEL_FLASHING"))
  /\ UNCHANGED <<fex, setter, events>> /\ ShowUnchanged

TestShows ==
  /\ Change("test") /\ ~show.testing /\ show' = [show EXCEPT !.testing = TRUE]
  /\ Send(New("SHOW_TEST_STARTED"))
  /\ UNCHANGED <<fex, setter>> /\ ShowUnchanged
TestEnded ==
  /\ show.testing /\ ~show.recording
  /\ show' = [show EXCEPT !.testing = FALSE] /\ Send(New("CANCEL_FLASHING"))
  /\ UNCHANGED <<fex, setter, events>> /\ ShowUnchanged
RecordAudio ==
  /\ show.testing /\ IF show.recording THEN UNCHANGED events ELSE Change("test")
  /\ show' = [show EXCEPT !.recording = ~@]
  /\ UNCHANGED <<indBox, missed, fex, setter>> /\ ShowUnchanged

\* The test mode shows nothing; who leaves it asks for the failures.
TestMode ==
  /\ Change("mode") /\ show' = [show EXCEPT !.testMode = ~@]
  /\ IF show.testMode THEN Send(New("SHOW_FAILURE")) ELSE UNCHANGED <<indBox, missed>>
  /\ UNCHANGED <<fex, setter>> /\ ShowUnchanged

SpecFunc ==
  /\ Change("special") /\ Send(New("SPEC_FUNC"))
  /\ UNCHANGED <<show, fex, setter>> /\ ShowUnchanged

SettersNext == (\E t \in Setters : Remember(t) \/ Write(t) \/ NotifyInd(t)) \/ SetActivation

IndEvents ==
  \/ \E t \in Setters, level \in {"high", "low"}, on \in BOOLEAN : SetFailure(t, level, on)
  \/ \E c \in CallSigns : CallShows(c)
  \/ CallEnded \/ TestShows \/ TestEnded \/ RecordAudio
  \/ ClearFailures \/ SendActivation \/ Ignition \/ TestMode \/ SpecFunc

IndNext == IndTaskNext \/ SettersNext \/ IndEvents
----------------------------------------------------------------------------
(* Properties.                                                             *)

IndTypeOK ==
  /\ ind \in [current : Signs, stage : 0..(IgnOnSteps + IgnOffSteps + 1)]
  /\ indBox \in Seq([sign : Signs, again : BOOLEAN]) /\ Len(indBox) <= IndMbox
  /\ hand \in Hands /\ lamp \in Lamps
  /\ fex \in Knowledge
  /\ setter \in [failure : [Setters -> [at : {"idle", "asked", "remembered", "written"},
                                        level : {"high", "low"}, on : BOOLEAN,
                                        known : Knowledge]],
                 activation : BOOLEAN]
  /\ missed \in BOOLEAN /\ events \in [changes : 0..MaxEvents, turns : 0..MaxTurns]

\* Nothing but failures and activation is to be shown, and no message was lost.
Calm ==
  /\ show.ignition /\ ~show.testMode /\ ~show.call /\ ~show.testing /\ ~show.touched
  /\ ~missed

\* When all has settled, a serious failure lights the lamp red for good, without any it is
\* green, and a unit that is not activated blinks, whatever calls, tests and changes went
\* before and however they crossed, as long as the activation is left alone and no failure
\* was written on the strength of an outdated failures_ex (failures.c:40-46,
\* indication.c:41-100).
LampTellsTruth ==
  /\ <>[](Calm /\ ~show.outdated /\ show.activated /\ show.high) => <>[](lamp = "RED")
  /\ <>[](Calm /\ show.activated /\ ~show.high /\ ~show.low) => <>[](lamp = "GREEN")
  /\ <>[](Calm /\ ~show.activated) => []<>(lamp = "RED") /\ []<>(lamp # "RED")
=============================================================================
