------------------------------- MODULE Boot -------------------------------
(***************************************************************************)
(* What the unit remembers of a call across a restart: restart_from_reason *)
(* of era/src/era_helper.c counts the restart and notes the event, and     *)
(* M2MB_main (src/M2MB_main.c) decides from the count, the event and the   *)
(* in-band MSD of the storage whether a call is made again.                *)
(*                                                                         *)
(* The tasks take calls as soon as init_tasks has made them, while         *)
(* M2MB_main still starts the modem and decides.  Two threads may want a   *)
(* restart, also at once: the ECALL task with the thread of the player     *)
(* that goes on for it ("ecall"), and the ERA_ACTION task ("era"), which   *)
(* may still have a MAKE_CALL of a call that is over before it.  Each      *)
(* change of a parameter is a saving of Prop.  Of the call only what       *)
(* concerns the boot is kept; why a thread wants a restart (the modem does *)
(* not obey) is left open.  with_can() is TRUE (factory_param.c:84).       *)
(***************************************************************************)
EXTENDS Prop

CONSTANTS
  MAX_RESTART_NUMBER,  \* 3 in the code
  TrLimit,             \* boots with unsent MSDs before they are deleted, 10 in the code
  Crashes,             \* the crash events that are resumed, FRONT to FRONT_OR_SIDE
  Kinds,               \* the events calls begin with
  MaxCalls             \* bound: calls begun by buttons, sensors and commands

ASSUME BootAssumption ==
  /\ {MAX_RESTART_NUMBER, TrLimit, MaxCalls} \subseteq Nat
  /\ Crashes \cap {"MANUAL", "ANOTHER", "AIRBAGS", "TEST", "DEFAULT", "none"} = {}
  /\ Kinds \subseteq {"MANUAL", "ANOTHER", "AIRBAGS", "TEST"} \cup Crashes

VARIABLES
  at,        \* how far M2MB_main is, see MainSteps
  action,    \* the event ECALL works on, or "none"
  posted,    \* the event M2MB_main has sent to ECALL, or "none"
  dialled,   \* ecall_event of era_action.c: the event of the last START, or "none"
  handed,    \* ECALL has sent START for its call
  dials,     \* ERA_ACTION works on a call: not `stopped'
  inband,    \* the in-band MSDs of the storage: of a "manual" or an "auto" call each
  unsent,    \* the storage holds MSDs for SMS
  thread,    \* [pc, event, next, back] of the two threads
  toRestart, \* to_restart of sys_utils.c
  begun,     \* used up of the bound
  unended,   \* history: the unit went down in a call or in a restart, or a call has begun
             \* before M2MB_main has decided; and ECALL has not resumed any since
  due,       \* history: the event the next complete boot has to resume, or "none"
  reasons,   \* history: the events of restart_from_reason since the unit has power
  restarts,  \* history: restarts by restart_from_reason in a row
  putBack,   \* history: in this row the count was put back under a restart
  damaged    \* history: the unit went down with a main file nobody can rely on

bootVars == <<propVars, at, action, posted, handed, dialled, dials, inband, unsent, thread, toRestart,
              begun, unended, due, reasons, restarts, putBack, damaged>>
callVars == <<action, handed, dialled, dials>>
msdVars == <<inband, unsent>>
histVars == <<unended, due, reasons, restarts, putBack, damaged>>

RestartThreads == {"ecall", "era"}
CallEvents == {"MANUAL", "ANOTHER", "AIRBAGS", "TEST"} \cup Crashes
Quiet == [pc |-> "ready", event |-> "none", next |-> 0, back |-> "ready"]
TasksRun == at \notin {"off", "params"}
At(t, pc) == TasksRun /\ thread[t].pc = pc
Goes(t, pc) == thread' = [thread EXCEPT ![t].pc = pc]
KindOf(e) == IF e = "MANUAL" THEN "manual" ELSE "auto"

BootInit ==
  /\ PropInit
  /\ at = "off" /\ action = "none" /\ posted = "none" /\ handed = FALSE
  /\ dialled = "none" /\ dials = FALSE
  /\ inband = <<>> /\ unsent = FALSE
  /\ thread = [t \in RestartThreads |-> Quiet] /\ toRestart = FALSE
  /\ begun = 0
  /\ unended = FALSE /\ due = "none" /\ reasons = {} /\ restarts = 0
  /\ putBack = FALSE /\ damaged = FALSE

----------------------------------------------------------------------------
(* The boot.                                                               *)

\* The unit gets power, init_sys_params reads the parameters.
PowerOn ==
  /\ at = "off" /\ at' = "params"
  /\ InitSysParams
  /\ UNCHANGED <<callVars, posted, msdVars, thread, toRestart, begun, histVars>>

\* init_tasks; from here on the tasks run.
InitTasks ==
  /\ at = "params" /\ ParamsFree /\ at' = "init"
  /\ UNCHANGED <<propVars, callVars, posted, msdVars, thread, toRestart, begun, histVars>>

\* M2MB_main counts the boots that find MSDs; after too many it deletes them ...
CountsBoots ==
  /\ at = "init" /\ ParamsFree
  /\ IF inband = <<>> /\ ~unsent THEN at' = "zero" /\ UNCHANGED msdVars
     ELSE IF tree.tr_cnt <= TrLimit THEN at' = "more" /\ UNCHANGED msdVars
     ELSE at' = "zero" /\ inband' = <<>> /\ unsent' = FALSE
  /\ due' = IF tree.era_restart = 0 /\ inband' = <<>> THEN "none" ELSE due
  /\ UNCHANGED <<propVars, callVars, posted, thread, toRestart, begun, unended, reasons,
                  restarts, putBack, damaged>>

\* ... and saves the count.
SetsTrCnt ==
  /\ at \in {"zero", "more"} /\ at' = "resume"
  /\ SetParam("main", "tr_cnt", IF at = "more" THEN tree.tr_cnt + 1 ELSE 0)
  /\ UNCHANGED <<callVars, posted, msdVars, thread, toRestart, begun, histVars>>

\* M2MB_main goes on, and what it has read decides how.
MainGoes(from, to) ==
  /\ at = from /\ ParamsFree /\ at' = to
  /\ UNCHANGED <<propVars, callVars, posted, msdVars, thread, toRestart, begun, histVars>>

\* get_era_restart(), twice.
ReadsRestarts ==
  MainGoes("resume", IF tree.era_restart = 0 THEN "msd"
                     ELSE IF tree.era_restart < MAX_RESTART_NUMBER THEN "reason" ELSE "clear")

\* switch (get_restart_reason()).
ReadsReason ==
  /\ ~(tree.restart_reason \in {"MANUAL", "ANOTHER"})
  /\ MainGoes("reason", IF tree.restart_reason = "TEST" THEN "clear_test"
                        ELSE IF tree.restart_reason \in Crashes THEN "crash" ELSE "clear")

\* The count goes back to 0 when it is used up or resumes nothing, and before a test.
ClearsCount ==
  /\ \/ at = "clear" /\ at' = "run"
     \/ at = "clear_test" /\ at' = "test"
  /\ SetParam("main", "era_restart", 0)
  /\ due' = "none" /\ putBack' = (putBack \/ reasons # {})
  /\ restarts' = IF at = "clear_test" THEN 0 ELSE restarts
  /\ UNCHANGED <<callVars, posted, msdVars, thread, toRestart, begun, unended, reasons,
                  damaged>>

\* Mutant of Resumed: of a crash the general event is sent.
ResumedUnnamed ==
  IF at = "test" THEN "TEST"
  ELSE IF at = "reason" /\ tree.restart_reason \in {"MANUAL", "ANOTHER"} THEN "MANUAL"
  ELSE IF at = "crash" THEN "ANOTHER"
  ELSE IF at = "msd" /\ inband # <<>> THEN (IF Head(inband) = "manual" THEN "MANUAL" ELSE "ANOTHER")
  ELSE "none"

\* The event that goes to ECALL with MODEM_RESTARTED at the end of M2MB_main, of a crash
\* read for the second time; an in-band MSD alone resumes by automaticActivation of its
\* control bits.
Resumed ==
  IF at = "test" THEN "TEST"
  ELSE IF at = "reason" /\ tree.restart_reason \in {"MANUAL", "ANOTHER"} THEN "MANUAL"
  ELSE IF at = "crash" THEN tree.restart_reason
  ELSE IF at = "msd" /\ inband # <<>> THEN (IF Head(inband) = "manual" THEN "MANUAL" ELSE "ANOTHER")
  ELSE "none"

Resumes ==
  /\ ParamsFree
  /\ Resumed # "none" \/ at = "msd"
  /\ posted' = Resumed
  /\ at' = "run" /\ due' = "none"
  /\ UNCHANGED <<propVars, callVars, msdVars, thread, toRestart, begun, unended, reasons,
                  restarts, putBack, damaged>>

----------------------------------------------------------------------------
(* The call.                                                               *)

\* start() of ecall.c for a button, a sensor or a command.
CallBegins(e) ==
  /\ At("ecall", "ready") /\ action = "none"
  /\ begun < MaxCalls /\ begun' = begun + 1
  /\ action' = e /\ Goes("ecall", "start")
  /\ restarts' = 0 /\ putBack' = (putBack /\ reasons # {}) /\ due' = "none"
  /\ unended' = (unended \/ at # "run")
  /\ UNCHANGED <<propVars, at, posted, handed, dialled, dials, msdVars, toRestart, reasons,
                  damaged>>

\* ECALL takes the event of M2MB_main: while a call is in progress, or the self-test works
\* and it is no test, nothing comes of it; an event that is no call's ends the call.
TakesPosted ==
  /\ At("ecall", "ready") /\ owner # "ecall" /\ posted # "none" /\ posted' = "none"
  /\ \/ /\ action = "none" /\ posted \in CallEvents
        /\ action' = posted /\ Goes("ecall", "again")
        /\ unended' = FALSE
        /\ UNCHANGED handed
     \/ /\ action # "none" /\ posted \notin CallEvents
        /\ action' = "none" /\ handed' = FALSE
        /\ UNCHANGED <<thread, unended>>
     \/ /\ action # "none" \/ posted # "TEST"
        /\ UNCHANGED <<action, handed, thread, unended>>
  /\ UNCHANGED <<propVars, at, dialled, dials, msdVars, toRestart, begun, due, reasons,
                  restarts, putBack, damaged>>

\* starting_continue(): a new MSD, unless the call is resumed and finds an in-band one;
\* the MSD of a test is not saved.
NewMsd ==
  /\ At("ecall", "start") \/ (At("ecall", "again") /\ inband = <<>>)
  /\ inband' = IF action = "TEST" THEN inband ELSE Append(inband, KindOf(action))
  /\ Goes("ecall", "count")
  /\ UNCHANGED <<propVars, at, callVars, posted, unsent, toRestart, begun, histVars>>

FindsMsd ==
  /\ At("ecall", "again") /\ inband # <<>>
  /\ Goes("ecall", "count")
  /\ UNCHANGED <<propVars, at, callVars, posted, msdVars, toRestart, begun, histVars>>

\* ECALL_task after start(): set_manual_cnt and its like save the parameters; of a test
\* nothing is counted.
CountsCall ==
  /\ At("ecall", "count")
  /\ IF action = "TEST" THEN UNCHANGED propVars ELSE Save("ecall", tree)
  /\ Goes("ecall", "ready")
  /\ UNCHANGED <<at, callVars, posted, msdVars, toRestart, begun, histVars>>

\* check_manual_cancel: ERA_A_START, and start() of era_action.c.
StartsDialling ==
  /\ At("ecall", "ready") /\ owner # "ecall" /\ action # "none" /\ ~handed
  /\ At("era", "ready") /\ owner # "era"
  /\ handed' = TRUE /\ dialled' = action /\ dials' = TRUE
  /\ UNCHANGED <<propVars, at, action, posted, msdVars, thread, toRestart, begun, histVars>>

\* ERA_A_URC_CONNECTED.
Connected ==
  /\ At("era", "ready") /\ dials /\ owner # "era"
  /\ IF tree.era_restart > 0 THEN SetParam("era", "era_restart", 0)
     ELSE ParamsFree /\ UNCHANGED propVars
  /\ restarts' = 0 /\ putBack' = (reasons # {})
  /\ UNCHANGED <<at, callVars, posted, msdVars, thread, toRestart, begun, unended, due,
                  reasons, damaged>>

\* The first in-band MSD is deleted, or goes to SMS.
MsdIsDeleted == inband' = (IF inband = <<>> THEN inband ELSE Tail(inband)) /\ UNCHANGED unsent
MsdGoesToSms == inband # <<>> /\ inband' = Tail(inband) /\ unsent' = TRUE

\* The modem gives the in-band transmission up (#ECALLEV 5 to 7).
MsdTimeout ==
  /\ At("era", "ready") /\ owner # "era" /\ dials
  /\ MsdGoesToSms
  /\ UNCHANGED <<propVars, at, callVars, posted, thread, toRestart, begun, histVars>>

\* finish() of era_action.c: the MSD was decoded, or goes to SMS, or is left to ECALL.
DialIsOver ==
  /\ At("era", "ready") /\ owner # "era" /\ dials
  /\ dials' = FALSE
  /\ \/ UNCHANGED msdVars
     \/ dialled # "TEST" /\ (MsdIsDeleted \/ MsdGoesToSms)
  /\ UNCHANGED <<propVars, at, action, handed, dialled, posted, thread, toRestart, begun,
                  histVars>>

\* finish() of ecall.c: cancelled or stopped, whether dialling or not, or with the result
\* of the dialling.
CallIsOver ==
  /\ At("ecall", "ready") /\ owner # "ecall" /\ action # "none"
  /\ \/ MsdIsDeleted
     \/ handed /\ ~dials /\ UNCHANGED msdVars
  /\ action' = "none" /\ handed' = FALSE
  /\ UNCHANGED <<propVars, at, dialled, dials, posted, thread, toRestart, begun, histVars>>

----------------------------------------------------------------------------
(* restart_from_reason.                                                    *)

\* The modem refuses a command: in start() or starting_continue(); in make_call(), which
\* does not look whether the call is over, or in call_failed(), which gives no event.
Refused(t, e) ==
  /\ owner # t
  /\ IF t = "ecall"
       THEN (\E pc \in {"start", "again", "count"} : At(t, pc)) /\ e = action
       ELSE At(t, "ready") /\ dialled # "none" /\ e \in {dialled, "DEFAULT"}
  /\ thread' = [thread EXCEPT ![t] = [pc |-> "check", event |-> e, next |-> 0, back |-> @.pc]]
  /\ reasons' = reasons \cup {e}
  /\ UNCHANGED <<propVars, at, callVars, posted, msdVars, toRestart, begun, unended, due,
                  restarts, putBack, damaged>>

\* get_era_restart() < MAX_RESTART_NUMBER, under the mutex; otherwise the handler goes on.
ChecksCount(t) ==
  /\ At(t, "check") /\ ParamsFree
  /\ Goes(t, IF tree.era_restart < MAX_RESTART_NUMBER THEN "read" ELSE thread[t].back)
  /\ UNCHANGED propVars

\* Mutant of ReadsCount: what was read is written back.
ReadsCountAsIs(t) ==
  /\ At(t, "read") /\ ParamsFree
  /\ thread' = [thread EXCEPT ![t].pc = "write", ![t].next = tree.era_restart]
  /\ UNCHANGED propVars

\* get_era_restart() once more, and set_era_restart with one more.
ReadsCount(t) ==
  /\ At(t, "read") /\ ParamsFree
  /\ thread' = [thread EXCEPT ![t].pc = "write", ![t].next = tree.era_restart + 1]
  /\ UNCHANGED propVars

SetsCount(t) ==
  /\ At(t, "write")
  /\ SetParam(t, "era_restart", thread[t].next)
  /\ Goes(t, "reason")

SetsReason(t) ==
  /\ At(t, "reason")
  /\ SetParam(t, "restart_reason", thread[t].event)
  /\ Goes(t, "restart")

\* restart(): who comes second returns at once.
CallsRestart(t) ==
  /\ At(t, "restart") /\ owner # t
  /\ toRestart' = TRUE
  /\ Goes(t, IF toRestart THEN thread[t].back ELSE "sleep")
  /\ UNCHANGED propVars

RestartSteps(t) ==
  /\ \/ (ChecksCount(t) \/ ReadsCount(t) \/ SetsCount(t) \/ SetsReason(t)) /\ UNCHANGED toRestart
     \/ CallsRestart(t)
  /\ UNCHANGED <<at, callVars, posted, msdVars, begun, histVars>>

----------------------------------------------------------------------------
(* The unit goes down.                                                     *)

\* The in-band MSD tells that the call was going on, and no other comes before it.
ToldByMsd == action \notin {"none", "TEST"} /\ inband = <<KindOf(action)>>
OfMsd == IF action = "MANUAL" THEN "MANUAL" ELSE "ANOTHER"

\* The event a restart for the reason e resumes; "none" of an event without a case.
ResumedAs(e) ==
  IF e \in {"MANUAL", "ANOTHER"} THEN "MANUAL"
  ELSE IF e \in Crashes \cup {"TEST"} THEN e ELSE "none"

\* A saving under way changes nothing that the next boot decides by.
SavesOther ==
  \/ owner = "none"
  \/ owner = "ecall" /\ thread["ecall"].pc = "ready"
  \/ owner = "main" /\ at \in {"params", "resume"}

Down ==
  /\ at' = "off" /\ LosesRam
  /\ action' = "none" /\ posted' = "none" /\ handed' = FALSE /\ dialled' = "none" /\ dials' = FALSE
  /\ thread' = [t \in RestartThreads |-> Quiet] /\ toRestart' = FALSE
  /\ unended' = (unended \/ action # "none" \/ reasons # {})
  /\ reasons' = {}
  /\ damaged' = (damaged \/ ~Readable)
  /\ UNCHANGED <<msdVars, begun>>

\* The second in restart() is over: m2mb_sys_reboot.  When every restart was wanted for
\* ECALL's call and neither the count is used up nor M2MB_main puts it back, that call is due.
Reboot(t) ==
  /\ At(t, "sleep") /\ Down
  /\ due' = IF /\ Readable /\ SavesOther /\ reasons = {action}
               /\ tree.era_restart \in 1..(MAX_RESTART_NUMBER - 1)
              THEN ResumedAs(action) ELSE "none"
  /\ restarts' = restarts + 1
  /\ UNCHANGED <<mishaps, putBack>>

\* A loss of power.  In a call without a restart before it the in-band MSD tells what is
\* due; without a call, in a boot, what was due stays so.
PowerLoss ==
  /\ at # "off" /\ Mishap
  /\ Down
  /\ due' = IF ~Readable THEN "none"
            ELSE IF action = "none" /\ reasons = {} THEN due
            ELSE IF /\ reasons = {} /\ SavesOther /\ tree.era_restart = 0 /\ ToldByMsd
              THEN OfMsd ELSE "none"
  /\ restarts' = 0 /\ putBack' = FALSE

\* ecall_modem_init fails: M2MB_main goes no further and restarts the unit in five seconds.
ModemInitFails ==
  /\ at = "init" /\ Mishap
  /\ at' = IF toRestart THEN "given_up" ELSE "failed"
  /\ toRestart' = TRUE
  /\ UNCHANGED <<tree, files, todo, owner, agreed, callVars, posted, msdVars, thread, begun,
                  histVars>>

RebootsAfterFailure ==
  /\ at = "failed" /\ Down
  /\ due' = IF Readable /\ action = "none" /\ reasons = {} THEN due ELSE "none"
  /\ restarts' = 0 /\ putBack' = FALSE
  /\ UNCHANGED mishaps

MainSteps ==
  PowerOn \/ InitTasks \/ CountsBoots \/ SetsTrCnt \/ ReadsRestarts \/ ReadsReason
    \/ ClearsCount \/ Resumes \/ ModemInitFails \/ RebootsAfterFailure

CallSteps ==
  \/ \E e \in Kinds : CallBegins(e)
  \/ TakesPosted \/ NewMsd \/ FindsMsd \/ CountsCall \/ StartsDialling \/ Connected
  \/ MsdTimeout \/ DialIsOver \/ CallIsOver

BootNext ==
  \/ PropNext /\ UNCHANGED <<at, callVars, posted, msdVars, thread, toRestart, begun, histVars>>
  \/ MainSteps \/ CallSteps
  \/ \E t \in RestartThreads :
       (\E e \in CallEvents \cup {"DEFAULT"} : Refused(t, e)) \/ RestartSteps(t) \/ Reboot(t)
  \/ PowerLoss

----------------------------------------------------------------------------
\* A call that was interrupted is asked for again: after restart_from_reason for the event
\* that was noted (M2MB_main.c:321-343), after a loss of power for the in-band MSD
\* (M2MB_main.c:346-361), whatever losses of power the boots in between meet, unless they
\* leave no main file to read or another call begins before M2MB_main decides.
InterruptedIsResumed ==
  [][at \notin {"off", "params"} /\ due # "none" /\ at' \in {"run", "clear", "clear_test"}
       => (IF at' = "clear_test" THEN "TEST" ELSE posted') = due]_bootVars

\* A call restarts the unit at most MAX_RESTART_NUMBER times in a row (era_helper.c:483,
\* M2MB_main.c:315), whichever threads want the restarts, also both at once, as long as the
\* count is not put back while one of them raises it.  A connection and a test that is made
\* again begin a new row.
RestartsAreBounded == ~damaged /\ ~putBack => restarts <= MAX_RESTART_NUMBER

\* By the count of restarts (sys_param.c:29-30) the boot asks for no call but one that was
\* interrupted, or one that began while it went on.
OnlyInterruptedIsResumed ==
  [][posted' \notin {posted, "none"} /\ tree.era_restart > 0 => unended]_bootVars
===========================================================================
