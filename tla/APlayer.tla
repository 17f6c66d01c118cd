------------------------------ MODULE APlayer ------------------------------
(***************************************************************************)
(* The player of audio files (a_player.c) with the threads that meet in    *)
(* it.  Who wants a tone takes the mutex, waits until the player is free,  *)
(* leaves a callback and lets the modem play; a report of the modem or the *)
(* timer ends the tone and runs the callback.  finished() does not take    *)
(* the mutex: a step ends where it calls the system or touches a variable  *)
(* that others touch.                                                      *)
(*                                                                         *)
(* Two results, or a result and the next request, can cross in finished(); *)
(* one callback is then run twice and the other never.  The module marks   *)
(* the place and follows the execution no further.  Up to there the player *)
(* keeps the promise of TonePlayer.                                        *)
(***************************************************************************)
EXTENDS Naturals

CONSTANTS Callers,   \* threads that ask for tones
          Prompts,   \* the tones
          MaxTones   \* bound: tones asked for

ASSUME ApAssumption == MaxTones \in Nat /\ "none" \notin Prompts /\ "nobody" \notin Callers

ReportThread == "urc"
TimerThread == "timer"
PlayerThreads == Callers \cup {ReportThread, TimerThread}

VARIABLES
  ap,       \* process, context, timer_id, owner of the mutex
  modem,    \* it plays, and reports of the end under way
  pc,       \* where each thread is, and the tone it is about
  crossed,  \* results have crossed
  asked     \* used up of the bound

apVars == <<ap, modem, pc, crossed, asked>>

Nothing == "none"
Nobody == "nobody"
PlayerSteps == {"idle", "wants", "holds", "plays", "enters", "stopped", "passed", "result",
                "calls"}
Passing == {"passed", "result"}

ApInit ==
  /\ ap = [process |-> FALSE, context |-> Nothing, timer |-> FALSE, owner |-> Nobody]
  /\ modem = [sounding |-> FALSE, urcs |-> 0]
  /\ pc = [t \in PlayerThreads |-> [step |-> "idle", tone |-> Nothing]]
  /\ crossed = FALSE /\ asked = 0

GoTo(t, step, c) == pc' = [pc EXCEPT ![t] = [step |-> step, tone |-> c]]
Stands(t, step) == pc[t].step = step

\* Another thread has found the tone to be on, or has ended it, and its callback is not read.
ResultUnderWay(t) == \E u \in PlayerThreads \ {t} : pc[u].step \in Passing

----------------------------------------------------------------------------
(* play_audio_file.                                                        *)

Play(t, c) ==
  /\ (Stands(t, "idle") /\ t \in Callers) \/ Stands(t, "calls")
  /\ asked < MaxTones /\ asked' = asked + 1
  /\ GoTo(t, "wants", c)
  /\ UNCHANGED <<ap, modem, crossed>>
Return(t) ==
  /\ Stands(t, "calls") /\ GoTo(t, "idle", Nothing)
  /\ UNCHANGED <<ap, modem, crossed, asked>>

GetMutex(t) ==
  /\ Stands(t, "wants") /\ ap.owner = Nobody
  /\ ap' = [ap EXCEPT !.owner = t] /\ GoTo(t, "holds", pc[t].tone)
  /\ UNCHANGED <<modem, crossed, asked>>

\* Busy three times over six seconds, or the modem gives no answer: called back at once.
StaysBusy(t) ==
  /\ Stands(t, "holds")
  /\ ap' = [ap EXCEPT !.owner = Nobody] /\ GoTo(t, "calls", pc[t].tone)
  /\ UNCHANGED <<modem, crossed, asked>>

Free == ~ap.process /\ ~modem.sounding

PlayerFree(t) ==
  /\ Stands(t, "holds") /\ Free /\ ~ResultUnderWay(t)
  /\ ap' = [ap EXCEPT !.process = TRUE, !.context = pc[t].tone] /\ GoTo(t, "plays", pc[t].tone)
  /\ UNCHANGED <<modem, crossed, asked>>

\* Mutant of PlayStarts: no timer.
PlayStartsUntimed(t) ==
  /\ Stands(t, "plays")
  /\ ap' = [ap EXCEPT !.owner = Nobody] /\ GoTo(t, "idle", Nothing)
  /\ modem' = [modem EXCEPT !.sounding = TRUE]
  /\ UNCHANGED <<crossed, asked>>

\* The modem takes the file, or does not and the callback is run at once.
PlayStarts(t) ==
  /\ Stands(t, "plays")
  /\ ap' = [ap EXCEPT !.timer = TRUE, !.owner = Nobody] /\ GoTo(t, "idle", Nothing)
  /\ modem' = [modem EXCEPT !.sounding = TRUE]
  /\ UNCHANGED <<crossed, asked>>

PlayFails(t) ==
  /\ Stands(t, "plays") /\ ap.process /\ ~ResultUnderWay(t)
  /\ ap' = [ap EXCEPT !.process = FALSE, !.owner = Nobody] /\ GoTo(t, "result", Nothing)
  /\ UNCHANGED <<modem, crossed, asked>>

----------------------------------------------------------------------------
(* The end of a tone: the modem, the timer, finished().                    *)

\* The end of the file; its report may come later than "#APLAY: 0", or not at all.
SoundEnds ==
  /\ modem.sounding
  /\ \E n \in {modem.urcs, 1} : modem' = [sounding |-> FALSE, urcs |-> n]
  /\ UNCHANGED <<ap, pc, crossed, asked>>
UrcArrives ==
  /\ modem.urcs > 0 /\ Stands(ReportThread, "idle")
  /\ modem' = [modem EXCEPT !.urcs = @ - 1] /\ GoTo(ReportThread, "enters", Nothing)
  /\ UNCHANGED <<ap, crossed, asked>>
TimerFires ==
  /\ ap.timer /\ Stands(TimerThread, "idle")
  /\ ap' = [ap EXCEPT !.timer = FALSE] /\ GoTo(TimerThread, "enters", Nothing)
  /\ UNCHANGED <<modem, crossed, asked>>

DeinitTimer(t) ==
  /\ Stands(t, "enters")
  /\ ap' = [ap EXCEPT !.timer = FALSE] /\ GoTo(t, "stopped", Nothing)
  /\ UNCHANGED <<modem, crossed, asked>>

\* Mutant of Finished: a tone that is over is reported once more.
FinishedAlways(t) ==
  /\ Stands(t, "stopped") /\ ~ResultUnderWay(t)
  /\ GoTo(t, "passed", Nothing)
  /\ UNCHANGED <<ap, modem, crossed, asked>>

Finished(t) ==
  /\ Stands(t, "stopped") /\ (ap.process => ~ResultUnderWay(t))
  /\ GoTo(t, IF ap.process THEN "passed" ELSE "idle", Nothing)
  /\ UNCHANGED <<ap, modem, crossed, asked>>
ClearProcess(t) ==
  /\ Stands(t, "passed")
  /\ ap' = [ap EXCEPT !.process = FALSE] /\ GoTo(t, "result", Nothing)
  /\ UNCHANGED <<modem, crossed, asked>>

\* send_result: whatever callback is there.
SendResult(t) ==
  /\ Stands(t, "result") /\ GoTo(t, "calls", ap.context)
  /\ UNCHANGED <<ap, modem, crossed, asked>>

\* The steps left out above, with which results cross.
Cross(t) ==
  /\ \/ Stands(t, "holds") /\ Free /\ ResultUnderWay(t)
     \/ Stands(t, "plays") /\ (~ap.process \/ ResultUnderWay(t))
     \/ Stands(t, "stopped") /\ ap.process /\ ResultUnderWay(t)
  /\ crossed' = TRUE
  /\ UNCHANGED <<ap, modem, pc, asked>>

ApStep(t) ==
  \/ Return(t) \/ GetMutex(t) \/ (~Free /\ StaysBusy(t)) \/ PlayerFree(t)
  \/ PlayStarts(t) \/ PlayFails(t)
  \/ DeinitTimer(t) \/ Finished(t) \/ ClearProcess(t) \/ SendResult(t) \/ Cross(t)
ApNext ==
  /\ ~crossed
  /\ \/ \E t \in PlayerThreads : ApStep(t) \/ StaysBusy(t) \/ \E c \in Prompts : Play(t, c)
     \/ SoundEnds \/ UrcArrives \/ TimerFires
ApSpec == ApInit /\ [][ApNext]_apVars

----------------------------------------------------------------------------
(* Properties.                                                             *)

\* Types; and the mutex is held by the thread that is in its region, whichever way that
\* leaves it (a_player.c:112-147).
ApTypeOK ==
  /\ ap \in [process : BOOLEAN, context : Prompts \cup {Nothing}, timer : BOOLEAN,
             owner : PlayerThreads \cup {Nobody}]
  /\ modem \in [sounding : BOOLEAN, urcs : 0..1]
  /\ pc \in [PlayerThreads -> [step : PlayerSteps, tone : Prompts \cup {Nothing}]]
  /\ crossed \in BOOLEAN /\ asked \in 0..MaxTones
  /\ \A t \in PlayerThreads : ap.owner = t <=> pc[t].step \in {"holds", "plays"}

\* What the callers see: the tone that is on, and where each thread is.
Sounds == IF ap.process THEN ap.context ELSE Nothing
Place(t) ==
  CASE pc[t].step \in {"wants", "holds"} -> [step |-> "wants", tone |-> pc[t].tone]
    [] pc[t].step = "plays" -> [step |-> "starts", tone |-> pc[t].tone]
    [] pc[t].step = "result" -> [step |-> "calls", tone |-> ap.context]
    [] pc[t].step = "calls" -> [step |-> "calls", tone |-> pc[t].tone]
    [] OTHER -> [step |-> "idle", tone |-> Nothing]
Places == [t \in PlayerThreads |-> Place(t)]

Service == INSTANCE TonePlayer WITH
  Requesters <- Callers, Tones <- Prompts, tone <- Sounds, at <- Places

\* Every tone asked for is called back once, with its own context, when it is over or at
\* once (a_player.h), up to where results cross.
KeepsTonePromise == Service!ToneSpec

\* Every tone comes to its callback, whether the modem reports or not (a_player.c:144-145).
ToneIsOver == []<>(~ap.process \/ crossed)
=============================================================================
