------------------------- MODULE SecurityAccess -------------------------
(***************************************************************************)
(* Security access of the diagnostic services (securityAccess_27.c,        *)
(* diagnosticSessionControl_10.c and the gate of uds.c in front of them).  *)
(* The reader of the CAN bus serves the tester's requests; the task CAN_SA *)
(* sleeps on behalf of them and then takes the access back or ends the     *)
(* delay after wrong keys.  Both threads work on the same static variables *)
(* without a lock: a handler is split where the other may come in between, *)
(* that is where it has looked at a variable and acts on it, and where it  *)
(* sends a message.  Requests of one frame; how frames become requests is  *)
(* in IsoTp.                                                               *)
(***************************************************************************)
EXTENDS Naturals, Sequences

CONSTANTS SaMbox,      \* places in the mailbox of CAN_SA, MBOX_S
          MaxRequests  \* bound: requests of the tester

ASSUME SaAssumption == SaMbox \in Nat \ {0} /\ MaxRequests \in Nat

VARIABLES
  sa,          \* static variables of securityAccess_27.c
  hasMessage,  \* uds.c: a frame came since CAN_SA looked last
  awaitKey,    \* uds.c: nextFrameKey
  reader,      \* where the handler of a request is, the request, and history: whether the
               \* access was open when it looked at the stage
  saBox,       \* mailbox of CAN_SA
  saTask,      \* what CAN_SA is doing
  tmZero,      \* getTM() = 0: the unit is one of the production line
  previous,    \* history: the request before this one
  requests     \* used up of the bound

saVars == <<sa, hasMessage, awaitKey, reader, saBox, saTask, tmZero, previous, requests>>

Keys == {"right", "test", "wrong"}
Sessions == {"default", "programming", "extended"}
Requests == {"seed", "other"} \cup Keys \cup Sessions
ReaderAt == {"idle", "received", "handle", "judged", "opened", "entering", "counting",
             "postReset", "postDelay"}
TaskAt == {"ready", "delay", "reset", "keep", "drop", "entering"}

\* resetProcedureSA() with disableTestMode().
Locked(s) == [s EXCEPT !.stage = 1, !.isAccess = FALSE, !.testMode = FALSE]

\* The mailbox of CAN_SA takes a message when there is a place.
SaPosted(m) == IF Len(saBox) < SaMbox THEN Append(saBox, m) ELSE saBox

SaInit ==
  /\ sa = [stage |-> 1, isAccess |-> FALSE, testMode |-> FALSE, invalid |-> 0, delay |-> FALSE]
  /\ hasMessage = FALSE /\ awaitKey = FALSE
  /\ reader = [at |-> "idle", req |-> "other", open |-> FALSE]
  /\ saBox = <<>> /\ saTask = "ready"
  /\ tmZero \in BOOLEAN
  /\ previous = "other" /\ requests = 0

----------------------------------------------------------------------------
(* The reader of the bus: handle_uds_request.                              *)

Receive(r) ==
  /\ reader.at = "idle" /\ requests < MaxRequests
  /\ hasMessage' = TRUE
  /\ reader' = [at |-> "received", req |-> r, open |-> FALSE]
  /\ requests' = requests + 1
  /\ UNCHANGED <<sa, awaitKey, saBox, saTask, tmZero, previous>>

Answered == reader' = [reader EXCEPT !.at = "idle"] /\ previous' = reader.req

\* Every request is refused while the delay runs.
Refuse ==
  /\ reader.at = "received" /\ sa.delay
  /\ Answered
  /\ UNCHANGED <<sa, hasMessage, awaitKey, saBox, saTask, tmZero, requests>>

\* Mutants of Accept: another request between seed and key is let pass; the delay is
\* not looked at.
AcceptAny ==
  /\ reader.at = "received" /\ ~sa.delay
  /\ awaitKey' = FALSE
  /\ reader' = [reader EXCEPT !.at = "handle"]
  /\ UNCHANGED <<sa, hasMessage, saBox, saTask, tmZero, previous, requests>>
AcceptInDelay ==
  /\ reader.at = "received"
  /\ sa' = IF awaitKey /\ reader.req \notin Keys THEN Locked(sa) ELSE sa
  /\ awaitKey' = FALSE
  /\ reader' = [reader EXCEPT !.at = "handle"]
  /\ UNCHANGED <<hasMessage, saBox, saTask, tmZero, previous, requests>>

\* Anything but a key right after a seed starts the procedure anew.
Accept ==
  /\ reader.at = "received" /\ ~sa.delay
  /\ sa' = IF awaitKey /\ reader.req \notin Keys THEN Locked(sa) ELSE sa
  /\ awaitKey' = FALSE
  /\ reader' = [reader EXCEPT !.at = "handle"]
  /\ UNCHANGED <<hasMessage, saBox, saTask, tmZero, previous, requests>>

\* requestForSeed: the seed, or zero when the access is open.
RequestSeed ==
  /\ reader.at = "handle" /\ reader.req = "seed"
  /\ IF sa.isAccess THEN UNCHANGED <<sa, awaitKey>>
     ELSE sa' = [sa EXCEPT !.stage = 2] /\ awaitKey' = TRUE
  /\ Answered
  /\ UNCHANGED <<hasMessage, saBox, saTask, tmZero, requests>>

\* requestForSendKey: a key nobody asked for.
KeyOutOfTurn ==
  /\ reader.at = "handle" /\ reader.req \in Keys /\ sa.stage # 2
  /\ Answered
  /\ UNCHANGED <<sa, hasMessage, awaitKey, saBox, saTask, tmZero, requests>>

\* In its turn; CAN_SA may lock everything before the key has its effect.
KeyInTurn ==
  /\ reader.at = "handle" /\ reader.req \in Keys /\ sa.stage = 2
  /\ reader' = [reader EXCEPT !.at = "judged", !.open = sa.isAccess]
  /\ UNCHANGED <<sa, hasMessage, awaitKey, saBox, saTask, tmZero, previous, requests>>

\* The handler goes on at `at' with the variables as in `s'.
Goes(at, s) ==
  /\ sa' = s /\ reader' = [reader EXCEPT !.at = at]
  /\ UNCHANGED <<hasMessage, awaitKey, saBox, saTask, tmZero, previous, requests>>

\* The key of the terminal, and disableTestMode(); the stage stays as it is.
KeyRight ==
  /\ reader.at = "judged" /\ reader.req = "right"
  /\ Goes("opened", [sa EXCEPT !.isAccess = TRUE])
TestModeOff ==
  /\ reader.at = "opened"
  /\ Goes("postReset", [sa EXCEPT !.testMode = FALSE])

\* The key of the test mode: enableTestMode() locks first.
KeyTest ==
  /\ reader.at = "judged" /\ reader.req = "test"
  /\ Goes("entering", Locked(sa))
TestModeOn ==
  /\ reader.at = "entering"
  /\ Goes("postReset", [sa EXCEPT !.testMode = TRUE])

\* A wrong key; the third one starts the delay.
KeyWrong ==
  /\ reader.at = "judged" /\ reader.req = "wrong"
  /\ Goes("counting", Locked(sa))
CountWrong ==
  /\ reader.at = "counting"
  /\ LET n == sa.invalid + 1 IN
     /\ sa' = [sa EXCEPT !.invalid = n, !.delay = (n = 3) \/ @]
     /\ IF n = 3 THEN reader' = [reader EXCEPT !.at = "postDelay"] /\ UNCHANGED previous
        ELSE Answered
  /\ UNCHANGED <<hasMessage, awaitKey, saBox, saTask, tmZero, requests>>

\* Mutant of PostReset: the message is forgotten.
PostResetNot ==
  /\ reader.at = "postReset" /\ Answered
  /\ UNCHANGED <<sa, hasMessage, awaitKey, saBox, saTask, tmZero, requests>>

PostReset ==
  /\ reader.at = "postReset"
  /\ saBox' = SaPosted("RESET_SA") /\ Answered
  /\ UNCHANGED <<sa, hasMessage, awaitKey, saTask, tmZero, requests>>

PostDelay ==
  /\ reader.at = "postDelay"
  /\ saBox' = SaPosted("INVALID_KEY") /\ Answered
  /\ UNCHANGED <<sa, hasMessage, awaitKey, saTask, tmZero, requests>>

\* handler_service10: the default session is answered at once; the others are left to
\* follow currentSession, which nobody assigns, and always lock.
Session ==
  /\ reader.at = "handle" /\ reader.req \in Sessions
  /\ sa' = IF reader.req = "extended" \/ (reader.req = "programming" /\ sa.isAccess)
           THEN Locked(sa) ELSE sa
  /\ Answered
  /\ UNCHANGED <<hasMessage, awaitKey, saBox, saTask, tmZero, requests>>

Other ==
  /\ reader.at = "handle" /\ reader.req = "other"
  /\ Answered
  /\ UNCHANGED <<sa, hasMessage, awaitKey, saBox, saTask, tmZero, requests>>

ReaderNext == \/ Refuse \/ Accept \/ RequestSeed \/ KeyOutOfTurn \/ KeyInTurn
              \/ KeyRight \/ TestModeOff \/ KeyTest \/ TestModeOn \/ KeyWrong \/ CountWrong
              \/ PostReset \/ PostDelay \/ Session \/ Other

----------------------------------------------------------------------------
(* CAN_SA_task.                                                            *)

\* The task takes a message and sleeps.
TakeMessage ==
  /\ saTask = "ready" /\ saBox # <<>>
  /\ saTask' = IF Head(saBox) = "INVALID_KEY" THEN "delay" ELSE "reset"
  /\ saBox' = Tail(saBox)
  /\ UNCHANGED <<sa, hasMessage, awaitKey, reader, tmZero, previous, requests>>

\* resetSecurityTimer: cntInvalidKeys is a UINT16.
DelayOver ==
  /\ saTask = "delay" /\ saTask' = "ready"
  /\ sa' = [sa EXCEPT !.delay = FALSE, !.invalid = (@ + 65535) % 65536]
  /\ UNCHANGED <<hasMessage, awaitKey, reader, saBox, tmZero, previous, requests>>

\* Awake again it looks whether the tester said something meanwhile.
Look ==
  /\ saTask = "reset"
  /\ saTask' = IF tmZero /\ ~sa.isAccess THEN "ready"
               ELSE IF hasMessage THEN "keep" ELSE "drop"
  /\ UNCHANGED <<sa, hasMessage, awaitKey, reader, saBox, tmZero, previous, requests>>

\* Mutant of Keep: what the tester said once counts for ever.
KeepRemembers ==
  /\ saTask = "keep" /\ saTask' = "ready"
  /\ saBox' = SaPosted("RESET_SA")
  /\ UNCHANGED <<sa, hasMessage, awaitKey, reader, tmZero, previous, requests>>

Keep ==
  /\ saTask = "keep" /\ saTask' = "ready"
  /\ hasMessage' = FALSE
  /\ saBox' = SaPosted("RESET_SA")
  /\ UNCHANGED <<sa, awaitKey, reader, tmZero, previous, requests>>

\* enableTestMode: locked, and then a unit of the production line is back in test mode.
Drop ==
  /\ saTask = "drop" /\ saTask' = "entering"
  /\ sa' = Locked(sa)
  /\ UNCHANGED <<hasMessage, awaitKey, reader, saBox, tmZero, previous, requests>>
Dropped ==
  /\ saTask = "entering" /\ saTask' = "ready"
  /\ sa' = [sa EXCEPT !.testMode = @ \/ tmZero]
  /\ UNCHANGED <<hasMessage, awaitKey, reader, saBox, tmZero, previous, requests>>

SaTaskNext == TakeMessage \/ DelayOver \/ Look \/ Keep \/ Drop \/ Dropped

Tester == \E r \in Requests : Receive(r)
SaNext == Tester \/ ReaderNext \/ SaTaskNext
SaSpec == SaInit /\ [][SaNext]_saVars

----------------------------------------------------------------------------
(* Properties.                                                             *)

SaStates == [stage : 1..2, isAccess : BOOLEAN, testMode : BOOLEAN, invalid : Nat,
             delay : BOOLEAN]

SaTypeOK ==
  /\ sa \in SaStates
  /\ hasMessage \in BOOLEAN /\ awaitKey \in BOOLEAN /\ tmZero \in BOOLEAN
  /\ reader \in [at : ReaderAt, req : Requests, open : BOOLEAN]
  /\ saBox \in Seq({"RESET_SA", "INVALID_KEY"}) /\ Len(saBox) <= SaMbox
  /\ saTask \in TaskAt
  /\ previous \in Requests /\ requests \in 0..MaxRequests

Queued(m) == \E i \in 1..Len(saBox) : saBox[i] = m

\* Whoever opened the access or the test mode is watched: until the reader or CAN_SA has
\* taken it back, a RESET_SA is under way, whatever the mailbox had no place for
\* (securityAccess_27.c:46, 230).  A unit of the production line stays in test mode.
AccessIsWatched ==
  sa.isAccess \/ (sa.testMode /\ ~tmZero) =>
    \/ Queued("RESET_SA") \/ saTask \in {"reset", "keep", "drop"}
    \/ reader.at \in {"opened", "postReset"}

\* The delay runs exactly as long as three wrong keys are on account; further requests
\* cannot take the counter past it, nor the delay's end below zero
\* (securityAccess_27.c:85, 218).
DelayAtThree == sa.invalid <= 3 /\ (sa.delay <=> sa.invalid = 3)

\* The access is opened by the right key alone, and never by one that nobody asked for,
\* though the stage is left at 2 afterwards: the request just before was the seed.  The
\* one other way is that the access was open already when the key's handler looked at the
\* stage, and CAN_SA took it back before the handler came to open it, so that it is open
\* once more after the reset (securityAccess_27.c:49, 190-211).
OpenedByKey ==
  [][~sa.isAccess /\ sa'.isAccess =>
       reader.req = "right" /\ (previous = "seed" \/ reader.open)]_saVars

\* A tester that falls silent, at whatever request, leaves neither the access nor the test
\* mode open, though CAN_SA takes a message that came long ago for a sign of life, posts
\* itself anew through a mailbox that may be full and looks at flags the reader writes
\* (securityAccess_27.c:30-76).  A unit of the production line stays in test mode.
AccessEnds == <>[](~sa.isAccess /\ (tmZero \/ ~sa.testMode))
=============================================================================
