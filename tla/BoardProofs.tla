---------------------------- MODULE BoardProofs ----------------------------
(***************************************************************************)
(* Proofs about the parts of the board.                                    *)
(*                                                                         *)
(* The player of audio files keeps the promise of TonePlayer, for any      *)
(* threads, tones and number of tones asked for: every step of APlayer is  *)
(* a step of TonePlayer, or none, under the mapping of APlayer.            *)
(*                                                                         *)
(* The backup battery is charged only while it is fit for it, for every    *)
(* length of the intervals and of the charging.  ChargesWhatIsFit is       *)
(* inductive with the types: what acbCharger forbids before anything else  *)
(* bounds the time, too, which the counter of the intervals relies on.     *)
(*                                                                         *)
(* The self-test starts after as many short presses as it should, for any  *)
(* of the times.  The invariant says how the counters of gpio_ev.c follow  *)
(* what the button really did.                                             *)
(*                                                                         *)
(* The failure of that button tells the truth: a row of events leaves of   *)
(* it what the last of them makes of it, and what a cycle finds fits what  *)
(* the cycles before have found.                                           *)
(*                                                                         *)
(* A self-test owes at most one result, which is given once.  A thread     *)
(* that ends the test is followed from the last tone it asks for to its    *)
(* callback.                                                               *)
(*                                                                         *)
(* Last, the types of all five parts together.                             *)
(***************************************************************************)
EXTENDS MCBoard, TLAPS

----------------------------------------------------------------------------
(* The player.                                                             *)

\* One thread at a time is between the look at process and the reading of the callback.
OneResult ==
  \A t, u \in PlayerThreads : pc[t].step \in Passing /\ pc[u].step \in Passing => t = u

\* The tone is on until the thread that found it so has cleared process, and no other
\* begins until that thread has read the callback.
ProcessTells ==
  \A t \in PlayerThreads : /\ pc[t].step = "passed" => ap.process
                           /\ pc[t].step = "result" => ~ap.process

\* Only the report and the timer end a tone.
EndersOnly ==
  \A t \in PlayerThreads :
    pc[t].step \in {"enters", "stopped", "passed"} => t \in {ReportThread, TimerThread}

\* Who asks for a tone has one in hand, and the one that is on is that of its player.
TonesInHand ==
  /\ ap.process => ap.context \in Prompts
  /\ \A t \in PlayerThreads :
       /\ pc[t].step \in {"wants", "holds", "plays"} => pc[t].tone \in Prompts
       /\ pc[t].step = "plays" => ap.context = pc[t].tone

ApInv == ApTypeOK /\ OneResult /\ ProcessTells /\ EndersOnly /\ TonesInHand

USE DEF PlayerThreads, ReportThread, TimerThread, Nothing, Nobody

\* What GoTo does to the threads.
LEMMA Moved ==
  ASSUME ApTypeOK, NEW t \in PlayerThreads, NEW s \in PlayerSteps, NEW c \in Prompts \cup {Nothing},
         GoTo(t, s, c)
  PROVE  /\ pc' \in [PlayerThreads -> [step : PlayerSteps, tone : Prompts \cup {Nothing}]]
         /\ pc'[t] = [step |-> s, tone |-> c]
         /\ pc'[t].step = s /\ pc'[t].tone = c
         /\ \A u \in PlayerThreads \ {t} : pc'[u] = pc[u]
  BY DEF ApTypeOK, GoTo

\* The types hold after a step of t, if they hold of what it changes.
LEMMA TypesFollow ==
  ASSUME ApTypeOK, NEW t \in PlayerThreads,
         pc' \in [PlayerThreads -> [step : PlayerSteps, tone : Prompts \cup {Nothing}]],
         \A u \in PlayerThreads \ {t} : pc'[u] = pc[u],
         ap' \in [process : BOOLEAN, context : Prompts \cup {Nothing}, timer : BOOLEAN,
                  owner : PlayerThreads \cup {Nobody}],
         modem' \in [sounding : BOOLEAN, urcs : 0..1],
         crossed' \in BOOLEAN, asked' \in 0..MaxTones,
         ap'.owner = t <=> pc'[t].step \in {"holds", "plays"},
         \A u \in PlayerThreads \ {t} : ap'.owner = u <=> ap.owner = u
  PROVE  ApTypeOK'
<1>1. \A u \in PlayerThreads : ap'.owner = u <=> pc'[u].step \in {"holds", "plays"}
  <2>. TAKE u \in PlayerThreads
  <2>1. CASE u = t
    BY <2>1
  <2>2. CASE u # t
    BY <2>2 DEF ApTypeOK
  <2>. QED BY <2>1, <2>2
<1>. QED BY <1>1 DEF ApTypeOK

LEMMA ApInvInit == ApInit => ApInv
<1>. SUFFICES ASSUME ApInit PROVE ApInv
  OBVIOUS
<1>1. \A t \in PlayerThreads : pc[t] = [step |-> "idle", tone |-> Nothing]
  BY DEF ApInit
<1>2. ap.process = FALSE /\ ap.owner = Nobody
  BY DEF ApInit
<1>3. ApTypeOK
  <2>1. pc \in [PlayerThreads -> [step : PlayerSteps, tone : Prompts \cup {Nothing}]]
    BY DEF ApInit, PlayerSteps
  <2>2. \A t \in PlayerThreads : ap.owner # t
    BY ApAssumption, <1>2
  <2>3. ap \in [process : BOOLEAN, context : Prompts \cup {Nothing}, timer : BOOLEAN,
               owner : PlayerThreads \cup {Nobody}]
    BY DEF ApInit
  <2>4. modem \in [sounding : BOOLEAN, urcs : 0..1]
    BY DEF ApInit
  <2>6. asked \in 0..MaxTones
    BY ApAssumption DEF ApInit
  <2>7. crossed \in BOOLEAN
    BY Zenon DEF ApInit
  <2>5. \A t \in PlayerThreads : ap.owner = t <=> pc[t].step \in {"holds", "plays"}
    BY <1>1, <2>2
  <2>. QED BY <2>1, <2>3, <2>4, <2>5, <2>6, <2>7 DEF ApTypeOK
<1>. QED BY <1>1, <1>2, <1>3 DEF ApInv, OneResult, ProcessTells, EndersOnly, TonesInHand, Passing

\* Each step keeps the invariant.
LEMMA ApInvStep == ApInv /\ [ApNext]_apVars => ApInv'
<1>. SUFFICES ASSUME ApInv, ApNext PROVE ApInv'
  <2>1. ASSUME ApInv, UNCHANGED apVars PROVE ApInv'
    BY <2>1 DEF ApInv, ApTypeOK, OneResult, ProcessTells, EndersOnly, TonesInHand, apVars
  <2>. QED BY <2>1
<1>. USE DEF ApInv
<1>1. ASSUME NEW t \in PlayerThreads, NEW c \in Prompts, Play(t, c) PROVE ApInv'
  <2>1. c \in Prompts \cup {Nothing} /\ GoTo(t, "wants", c)
    BY <1>1 DEF Play, ApTypeOK
  <2>2. /\ pc' \in [PlayerThreads -> [step : PlayerSteps, tone : Prompts \cup {Nothing}]]
        /\ pc'[t].step = ("wants") /\ pc'[t].tone = c
        /\ \A u \in PlayerThreads \ {t} : pc'[u] = pc[u]
    BY <2>1, Moved DEF PlayerSteps
  <2>3. ApTypeOK'
    BY <1>1, <2>2, ApAssumption DEF Play, ApTypeOK, Stands, Free
  <2>4. OneResult' /\ EndersOnly'
    BY <1>1, <2>2 DEF Play, OneResult, EndersOnly, Passing, Stands, ResultUnderWay
  <2>5. ProcessTells'
    BY <1>1, <2>2 DEF Play, ApTypeOK, OneResult, ProcessTells, Passing, Stands, ResultUnderWay
  <2>6. TonesInHand'
    BY <1>1, <2>2 DEF Play, ApTypeOK, TonesInHand, Passing, Stands
  <2>. QED BY <2>3, <2>4, <2>5, <2>6
<1>2. ASSUME NEW t \in PlayerThreads, Return(t) PROVE ApInv'
  <2>1. Nothing \in Prompts \cup {Nothing} /\ GoTo(t, "idle", Nothing)
    BY <1>2 DEF Return, ApTypeOK
  <2>2. /\ pc' \in [PlayerThreads -> [step : PlayerSteps, tone : Prompts \cup {Nothing}]]
        /\ pc'[t].step = ("idle") /\ pc'[t].tone = Nothing
        /\ \A u \in PlayerThreads \ {t} : pc'[u] = pc[u]
    BY <2>1, Moved DEF PlayerSteps
  <2>3. ApTypeOK'
    BY <1>2, <2>2, ApAssumption DEF Return, ApTypeOK, Stands, Free
  <2>4. OneResult' /\ EndersOnly'
    BY <1>2, <2>2 DEF Return, OneResult, EndersOnly, Passing, Stands, ResultUnderWay
  <2>5. ProcessTells'
    BY <1>2, <2>2 DEF Return, ApTypeOK, OneResult, ProcessTells, Passing, Stands, ResultUnderWay
  <2>6. TonesInHand'
    BY <1>2, <2>2 DEF Return, ApTypeOK, TonesInHand, Passing, Stands
  <2>. QED BY <2>3, <2>4, <2>5, <2>6
<1>3. ASSUME NEW t \in PlayerThreads, GetMutex(t) PROVE ApInv'
  <2>1. pc[t].tone \in Prompts \cup {Nothing} /\ GoTo(t, "holds", pc[t].tone)
    BY <1>3 DEF GetMutex, ApTypeOK
  <2>2. /\ pc' \in [PlayerThreads -> [step : PlayerSteps, tone : Prompts \cup {Nothing}]]
        /\ pc'[t].step = ("holds") /\ pc'[t].tone = pc[t].tone
        /\ \A u \in PlayerThreads \ {t} : pc'[u] = pc[u]
    <3>1. "holds" \in PlayerSteps
      BY DEF PlayerSteps
    <3>. QED BY <2>1, <3>1, Moved
  <2>3. ApTypeOK'
    BY <1>3, <2>2, ApAssumption DEF GetMutex, ApTypeOK, Stands, Free
  <2>4. OneResult' /\ EndersOnly'
    BY <1>3, <2>2 DEF GetMutex, OneResult, EndersOnly, Passing, Stands, ResultUnderWay
  <2>5. ProcessTells'
    BY <1>3, <2>2 DEF GetMutex, ApTypeOK, OneResult, ProcessTells, Passing, Stands, ResultUnderWay
  <2>6. TonesInHand'
    BY <1>3, <2>2 DEF GetMutex, ApTypeOK, TonesInHand, Passing, Stands
  <2>. QED BY <2>3, <2>4, <2>5, <2>6
<1>4. ASSUME NEW t \in PlayerThreads, StaysBusy(t) PROVE ApInv'
  <2>1. pc[t].tone \in Prompts \cup {Nothing} /\ GoTo(t, "calls", pc[t].tone)
    BY <1>4 DEF StaysBusy, ApTypeOK
  <2>2. /\ pc' \in [PlayerThreads -> [step : PlayerSteps, tone : Prompts \cup {Nothing}]]
        /\ pc'[t].step = ("calls") /\ pc'[t].tone = pc[t].tone
        /\ \A u \in PlayerThreads \ {t} : pc'[u] = pc[u]
    <3>1. "calls" \in PlayerSteps
      BY DEF PlayerSteps
    <3>. QED BY <2>1, <3>1, Moved
  <2>3. ApTypeOK'
    BY <1>4, <2>2, ApAssumption DEF StaysBusy, ApTypeOK, Stands, Free
  <2>4. OneResult' /\ EndersOnly'
    BY <1>4, <2>2 DEF StaysBusy, OneResult, EndersOnly, Passing, Stands, ResultUnderWay
  <2>5. ProcessTells'
    BY <1>4, <2>2 DEF StaysBusy, ApTypeOK, OneResult, ProcessTells, Passing, Stands,
         ResultUnderWay
  <2>6. TonesInHand'
    BY <1>4, <2>2 DEF StaysBusy, ApTypeOK, TonesInHand, Passing, Stands
  <2>. QED BY <2>3, <2>4, <2>5, <2>6
<1>5. ASSUME NEW t \in PlayerThreads, PlayerFree(t) PROVE ApInv'
  <2>1. pc[t].tone \in Prompts \cup {Nothing} /\ GoTo(t, "plays", pc[t].tone)
    BY <1>5 DEF PlayerFree, ApTypeOK
  <2>2. /\ pc' \in [PlayerThreads -> [step : PlayerSteps, tone : Prompts \cup {Nothing}]]
        /\ pc'[t].step = ("plays") /\ pc'[t].tone = pc[t].tone
        /\ \A u \in PlayerThreads \ {t} : pc'[u] = pc[u]
    <3>1. "plays" \in PlayerSteps
      BY DEF PlayerSteps
    <3>. QED BY <2>1, <3>1, Moved
  <2>3. ApTypeOK'
    <3>1. /\ ap' \in [process : BOOLEAN, context : Prompts \cup {Nothing}, timer : BOOLEAN,
                      owner : PlayerThreads \cup {Nobody}]
          /\ ap'.owner = ap.owner
      BY <1>5, <2>1 DEF PlayerFree, ApTypeOK
    <3>2. /\ modem' \in [sounding : BOOLEAN, urcs : 0..1]
          /\ crossed' \in BOOLEAN /\ asked' \in 0..MaxTones
      BY <1>5 DEF PlayerFree, ApTypeOK
    <3>3. ap.owner = t
      BY <1>5 DEF PlayerFree, ApTypeOK, Stands
    <3>4. Nobody \notin PlayerThreads
      BY ApAssumption
    <3>. QED BY <2>2, <3>1, <3>2, <3>3, <3>4, TypesFollow
  <2>4. OneResult' /\ EndersOnly'
    BY <1>5, <2>2 DEF PlayerFree, OneResult, EndersOnly, Passing, Stands, ResultUnderWay
  <2>5. ProcessTells'
    BY <1>5, <2>2 DEF PlayerFree, ApTypeOK, OneResult, ProcessTells, Passing, Stands,
         ResultUnderWay
  <2>6. TonesInHand'
    BY <1>5, <2>2 DEF PlayerFree, ApTypeOK, TonesInHand, Passing, Stands
  <2>. QED BY <2>3, <2>4, <2>5, <2>6
<1>6. ASSUME NEW t \in PlayerThreads, PlayStarts(t) PROVE ApInv'
  <2>1. Nothing \in Prompts \cup {Nothing} /\ GoTo(t, "idle", Nothing)
    BY <1>6 DEF PlayStarts, ApTypeOK
  <2>2. /\ pc' \in [PlayerThreads -> [step : PlayerSteps, tone : Prompts \cup {Nothing}]]
        /\ pc'[t].step = ("idle") /\ pc'[t].tone = Nothing
        /\ \A u \in PlayerThreads \ {t} : pc'[u] = pc[u]
    BY <2>1, Moved DEF PlayerSteps
  <2>3. ApTypeOK'
    <3>1. /\ ap' \in [process : BOOLEAN, context : Prompts \cup {Nothing}, timer : BOOLEAN,
                      owner : PlayerThreads \cup {Nobody}]
          /\ ap'.owner = Nobody
      BY <1>6, <2>1 DEF PlayStarts, ApTypeOK
    <3>2. /\ modem' \in [sounding : BOOLEAN, urcs : 0..1]
          /\ crossed' \in BOOLEAN /\ asked' \in 0..MaxTones
      BY <1>6 DEF PlayStarts, ApTypeOK
    <3>3. ap.owner = t
      BY <1>6 DEF PlayStarts, ApTypeOK, Stands
    <3>4. Nobody \notin PlayerThreads
      BY ApAssumption
    <3>. QED BY <2>2, <3>1, <3>2, <3>3, <3>4, TypesFollow
  <2>4. OneResult' /\ EndersOnly'
    BY <1>6, <2>2 DEF PlayStarts, OneResult, EndersOnly, Passing, Stands, ResultUnderWay
  <2>5. ProcessTells'
    BY <1>6, <2>2 DEF PlayStarts, ApTypeOK, OneResult, ProcessTells, Passing, Stands,
         ResultUnderWay
  <2>6. TonesInHand'
    BY <1>6, <2>2 DEF PlayStarts, ApTypeOK, TonesInHand, Passing, Stands
  <2>. QED BY <2>3, <2>4, <2>5, <2>6
<1>7. ASSUME NEW t \in PlayerThreads, PlayFails(t) PROVE ApInv'
  <2>1. Nothing \in Prompts \cup {Nothing} /\ GoTo(t, "result", Nothing)
    BY <1>7 DEF PlayFails, ApTypeOK
  <2>2. /\ pc' \in [PlayerThreads -> [step : PlayerSteps, tone : Prompts \cup {Nothing}]]
        /\ pc'[t].step = ("result") /\ pc'[t].tone = Nothing
        /\ \A u \in PlayerThreads \ {t} : pc'[u] = pc[u]
    BY <2>1, Moved DEF PlayerSteps
  <2>3. ApTypeOK'
    <3>1. /\ ap' \in [process : BOOLEAN, context : Prompts \cup {Nothing}, timer : BOOLEAN,
                      owner : PlayerThreads \cup {Nobody}]
          /\ ap'.owner = Nobody
      BY <1>7, <2>1 DEF PlayFails, ApTypeOK
    <3>2. /\ modem' \in [sounding : BOOLEAN, urcs : 0..1]
          /\ crossed' \in BOOLEAN /\ asked' \in 0..MaxTones
      BY <1>7 DEF PlayFails, ApTypeOK
    <3>3. ap.owner = t
      BY <1>7 DEF PlayFails, ApTypeOK, Stands
    <3>4. Nobody \notin PlayerThreads
      BY ApAssumption
    <3>. QED BY <2>2, <3>1, <3>2, <3>3, <3>4, TypesFollow
  <2>4. OneResult' /\ EndersOnly'
    BY <1>7, <2>2 DEF PlayFails, OneResult, EndersOnly, Passing, Stands, ResultUnderWay
  <2>5. ProcessTells'
    BY <1>7, <2>2 DEF PlayFails, ApTypeOK, OneResult, ProcessTells, Passing, Stands,
         ResultUnderWay
  <2>6. TonesInHand'
    BY <1>7, <2>2 DEF PlayFails, ApTypeOK, TonesInHand, Passing, Stands
  <2>. QED BY <2>3, <2>4, <2>5, <2>6
<1>8. ASSUME NEW t \in PlayerThreads, DeinitTimer(t) PROVE ApInv'
  <2>1. Nothing \in Prompts \cup {Nothing} /\ GoTo(t, "stopped", Nothing)
    BY <1>8 DEF DeinitTimer, ApTypeOK
  <2>2. /\ pc' \in [PlayerThreads -> [step : PlayerSteps, tone : Prompts \cup {Nothing}]]
        /\ pc'[t].step = ("stopped") /\ pc'[t].tone = Nothing
        /\ \A u \in PlayerThreads \ {t} : pc'[u] = pc[u]
    BY <2>1, Moved DEF PlayerSteps
  <2>3. ApTypeOK'
    BY <1>8, <2>2, ApAssumption DEF DeinitTimer, ApTypeOK, Stands, Free
  <2>4. OneResult' /\ EndersOnly'
    BY <1>8, <2>2 DEF DeinitTimer, OneResult, EndersOnly, Passing, Stands, ResultUnderWay
  <2>5. ProcessTells'
    BY <1>8, <2>2 DEF DeinitTimer, ApTypeOK, OneResult, ProcessTells, Passing, Stands,
         ResultUnderWay
  <2>6. TonesInHand'
    BY <1>8, <2>2 DEF DeinitTimer, ApTypeOK, TonesInHand, Passing, Stands
  <2>. QED BY <2>3, <2>4, <2>5, <2>6
<1>9. ASSUME NEW t \in PlayerThreads, Finished(t) PROVE ApInv'
  <2>1. /\ Nothing \in Prompts \cup {Nothing}
        /\ GoTo(t, IF ap.process THEN "passed" ELSE "idle", Nothing)
    BY <1>9 DEF Finished, ApTypeOK
  <2>2. /\ pc' \in [PlayerThreads -> [step : PlayerSteps, tone : Prompts \cup {Nothing}]]
        /\ pc'[t].step = (IF ap.process THEN "passed" ELSE "idle") /\ pc'[t].tone = Nothing
        /\ \A u \in PlayerThreads \ {t} : pc'[u] = pc[u]
    BY <2>1, Moved DEF PlayerSteps
  <2>3. ApTypeOK'
    BY <1>9, <2>2, ApAssumption DEF Finished, ApTypeOK, Stands, Free
  <2>4. OneResult' /\ EndersOnly'
    BY <1>9, <2>2 DEF Finished, OneResult, EndersOnly, Passing, Stands, ResultUnderWay
  <2>5. ProcessTells'
    BY <1>9, <2>2 DEF Finished, ApTypeOK, OneResult, ProcessTells, Passing, Stands, ResultUnderWay
  <2>6. TonesInHand'
    BY <1>9, <2>2 DEF Finished, ApTypeOK, TonesInHand, Passing, Stands
  <2>. QED BY <2>3, <2>4, <2>5, <2>6
<1>10. ASSUME NEW t \in PlayerThreads, ClearProcess(t) PROVE ApInv'
  <2>1. Nothing \in Prompts \cup {Nothing} /\ GoTo(t, "result", Nothing)
    BY <1>10 DEF ClearProcess, ApTypeOK
  <2>2. /\ pc' \in [PlayerThreads -> [step : PlayerSteps, tone : Prompts \cup {Nothing}]]
        /\ pc'[t].step = ("result") /\ pc'[t].tone = Nothing
        /\ \A u \in PlayerThreads \ {t} : pc'[u] = pc[u]
    BY <2>1, Moved DEF PlayerSteps
  <2>3. ApTypeOK'
    BY <1>10, <2>2, ApAssumption DEF ClearProcess, ApTypeOK, Stands, Free
  <2>4. OneResult' /\ EndersOnly'
    BY <1>10, <2>2 DEF ClearProcess, OneResult, EndersOnly, Passing, Stands, ResultUnderWay
  <2>5. ProcessTells'
    BY <1>10, <2>2 DEF ClearProcess, ApTypeOK, OneResult, ProcessTells, Passing, Stands,
         ResultUnderWay
  <2>6. TonesInHand'
    BY <1>10, <2>2 DEF ClearProcess, ApTypeOK, TonesInHand, Passing, Stands
  <2>. QED BY <2>3, <2>4, <2>5, <2>6
<1>11. ASSUME NEW t \in PlayerThreads, SendResult(t) PROVE ApInv'
  <2>1. ap.context \in Prompts \cup {Nothing} /\ GoTo(t, "calls", ap.context)
    BY <1>11 DEF SendResult, ApTypeOK
  <2>2. /\ pc' \in [PlayerThreads -> [step : PlayerSteps, tone : Prompts \cup {Nothing}]]
        /\ pc'[t].step = ("calls") /\ pc'[t].tone = ap.context
        /\ \A u \in PlayerThreads \ {t} : pc'[u] = pc[u]
    BY <2>1, Moved DEF PlayerSteps
  <2>3. ApTypeOK'
    BY <1>11, <2>2, ApAssumption DEF SendResult, ApTypeOK, Stands, Free
  <2>4. OneResult' /\ EndersOnly'
    BY <1>11, <2>2 DEF SendResult, OneResult, EndersOnly, Passing, Stands, ResultUnderWay
  <2>5. ProcessTells'
    BY <1>11, <2>2 DEF SendResult, ApTypeOK, OneResult, ProcessTells, Passing, Stands,
         ResultUnderWay
  <2>6. TonesInHand'
    BY <1>11, <2>2 DEF SendResult, ApTypeOK, TonesInHand, Passing, Stands
  <2>. QED BY <2>3, <2>4, <2>5, <2>6
<1>12. CASE SoundEnds
  <2>1. ap' = ap /\ pc' = pc
    BY <1>12 DEF SoundEnds
  <2>. QED BY <1>12, <2>1 DEF SoundEnds, ApTypeOK, OneResult, ProcessTells, EndersOnly,
       TonesInHand
<1>13. CASE UrcArrives
  <2>1. /\ GoTo(ReportThread, "enters", Nothing)
        /\ ap'.process = ap.process /\ ap'.context = ap.context
    BY <1>13 DEF UrcArrives, ApTypeOK
  <2>2. /\ pc' \in [PlayerThreads -> [step : PlayerSteps, tone : Prompts \cup {Nothing}]]
        /\ pc'[ReportThread].step = "enters"
        /\ \A u \in PlayerThreads \ {ReportThread} : pc'[u] = pc[u]
    BY <2>1, Moved DEF PlayerSteps
  <2>3. ApTypeOK'
    BY <1>13, <2>2 DEF UrcArrives, ApTypeOK, Stands
  <2>4. OneResult' /\ EndersOnly' /\ ProcessTells' /\ TonesInHand'
    BY <2>1, <2>2 DEF OneResult, EndersOnly, ProcessTells, TonesInHand, Passing
  <2>. QED BY <2>3, <2>4
<1>14. CASE TimerFires
  <2>1. GoTo(TimerThread, "enters", Nothing) /\ ap'.process = ap.process /\ ap'.context = ap.context
    BY <1>14 DEF TimerFires, ApTypeOK
  <2>2. /\ pc' \in [PlayerThreads -> [step : PlayerSteps, tone : Prompts \cup {Nothing}]]
        /\ pc'[TimerThread].step = "enters"
        /\ \A u \in PlayerThreads \ {TimerThread} : pc'[u] = pc[u]
    BY <2>1, Moved DEF PlayerSteps
  <2>3. ApTypeOK'
    <3>1. /\ ap' \in [process : BOOLEAN, context : Prompts \cup {Nothing}, timer : BOOLEAN,
                      owner : PlayerThreads \cup {Nobody}]
          /\ ap'.owner = ap.owner
      BY <1>14, <2>1 DEF TimerFires, ApTypeOK
    <3>2. /\ modem' \in [sounding : BOOLEAN, urcs : 0..1]
          /\ crossed' \in BOOLEAN /\ asked' \in 0..MaxTones
      BY <1>14 DEF TimerFires, ApTypeOK
    <3>3. ap.owner # TimerThread
      BY <1>14 DEF TimerFires, ApTypeOK, Stands
    <3>4. Nobody \notin PlayerThreads
      BY ApAssumption
    <3>. QED BY <2>2, <3>1, <3>2, <3>3, <3>4, TypesFollow
  <2>4. OneResult' /\ EndersOnly' /\ ProcessTells' /\ TonesInHand'
    BY <2>1, <2>2 DEF OneResult, EndersOnly, ProcessTells, TonesInHand, Passing
  <2>. QED BY <2>3, <2>4
<1>15. ASSUME NEW t \in PlayerThreads, Cross(t) PROVE ApInv'
  <2>1. ap' = ap /\ pc' = pc /\ modem' = modem /\ asked' = asked /\ crossed' = TRUE
    BY <1>15 DEF Cross
  <2>. QED BY <2>1 DEF ApTypeOK, OneResult, ProcessTells, EndersOnly, TonesInHand
<1>. QED BY <1>1, <1>2, <1>3, <1>4, <1>5, <1>6, <1>7, <1>8, <1>9, <1>10, <1>11, <1>12, <1>13,
     <1>14, <1>15 DEF ApNext, ApStep

----------------------------------------------------------------------------
(* The mapping to TonePlayer.                                              *)

LEMMA SameThreads == Service!Threads = PlayerThreads
  BY DEF Service!Threads, Service!URC, Service!TIMER

LEMMA InitMaps == ApInit => Service!TpInitTones
<1>. SUFFICES ASSUME ApInit PROVE Service!TpInitTones
  OBVIOUS
<1>1. \A t \in PlayerThreads : pc[t].step = "idle" /\ pc[t].tone = Nothing
  BY DEF ApInit
<1>2. ap.process = FALSE
  BY DEF ApInit
<1>3. \A t \in PlayerThreads : Place(t) = [step |-> "idle", tone |-> Nothing]
  BY <1>1 DEF Place
<1>. QED BY <1>2, <1>3, SameThreads DEF Service!TpInitTones, Service!Quiet, Service!NoTone, Places,
     Sounds

\* A step that moves one thread, and the context only while nobody else is about to read it,
\* is seen as a step of that thread.
LEMMA OneIsSeen ==
  ASSUME ApInv, ApInv', NEW t \in PlayerThreads,
         \A u \in PlayerThreads \ {t} : pc'[u] = pc[u],
         ap'.context = ap.context \/ \A u \in PlayerThreads \ {t} : pc[u].step # "result"
  PROVE  Places' = [Places EXCEPT ![t] = Place(t)']
<1>1. \A u \in PlayerThreads \ {t} : Place(u)' = Place(u)
  BY DEF Place
<1>2. Places' = [u \in PlayerThreads |-> Place(u)']
  BY DEF Places
<1>3. Places' = [u \in PlayerThreads |-> IF u = t THEN Place(t)' ELSE Place(u)]
  BY <1>1, <1>2, Zenon
<1>4. [Places EXCEPT ![t] = Place(t)']
        = [u \in PlayerThreads |-> IF u = t THEN Place(t)' ELSE Place(u)]
  <2>. DEFINE x == Place(t)'
  <2>. HIDE DEF x
  <2>1. [Places EXCEPT ![t] = x] = [u \in PlayerThreads |-> IF u = t THEN x ELSE Place(u)]
    BY DEF Places
  <2>. QED BY <2>1 DEF x
<1>. QED BY <1>3, <1>4

\* Every step is one of TonePlayer, or none.
LEMMA StepMaps == ApInv /\ ApInv' /\ [ApNext]_apVars => [Service!ToneNext]_(Service!toneVars)
<1>. DEFINE Maps == Service!ToneNext \/ UNCHANGED Service!toneVars
<1>. SUFFICES ASSUME ApInv, ApInv', ApNext PROVE Maps
  <2>1. ASSUME UNCHANGED apVars PROVE UNCHANGED Service!toneVars
    BY <2>1 DEF apVars, Service!toneVars, Places, Place, Sounds
  <2>. QED BY <2>1
<1>. USE DEF ApInv
<1>1. ASSUME NEW t \in PlayerThreads, NEW c \in Prompts, Play(t, c) PROVE Maps
  <2>1. \A u \in PlayerThreads \ {t} : pc'[u] = pc[u]
    BY <1>1 DEF Play, GoTo, ApTypeOK
  <2>2. Places' = [Places EXCEPT ![t] = Place(t)']
    BY <1>1, <2>1, OneIsSeen DEF Play, ApTypeOK, OneResult, ResultUnderWay, Passing
  <2>3. Place(t)' = [step |-> "wants", tone |-> c]
    BY <1>1 DEF Play, Place, GoTo, Stands, ApTypeOK
  <2>4. (Places[t].step = "idle" /\ t \in Callers) \/ Places[t].step = "calls"
    BY <1>1 DEF Play, Places, Place, Stands
  <2>5. Sounds' = Sounds
    BY <1>1 DEF Play, Sounds
  <2>6. Service!Client(t)
    BY <2>2, <2>3, <2>4, <2>5 DEF Service!Client, Service!Is, Service!Wants, Service!Goes,
         Service!NoTone
  <2>. QED BY <2>6, SameThreads DEF Service!ToneNext
<1>2. ASSUME NEW t \in PlayerThreads, Return(t) PROVE Maps
  <2>1. \A u \in PlayerThreads \ {t} : pc'[u] = pc[u]
    BY <1>2 DEF Return, GoTo, ApTypeOK
  <2>2. Places' = [Places EXCEPT ![t] = Place(t)']
    BY <1>2, <2>1, OneIsSeen DEF Return, ApTypeOK, OneResult, ResultUnderWay, Passing
  <2>3. Place(t)' = [step |-> "idle", tone |-> Nothing]
    BY <1>2 DEF Return, Place, GoTo, Stands, ApTypeOK
  <2>4. Places[t].step = "calls"
    BY <1>2 DEF Return, Places, Place, Stands
  <2>5. Sounds' = Sounds
    BY <1>2 DEF Return, Sounds
  <2>6. Service!Client(t)
    BY <2>2, <2>3, <2>4, <2>5 DEF Service!Client, Service!Is, Service!Idle, Service!Goes,
         Service!NoTone
  <2>. QED BY <2>6, SameThreads DEF Service!ToneNext
<1>3. ASSUME NEW t \in PlayerThreads, GetMutex(t) PROVE Maps
  <2>1. \A u \in PlayerThreads \ {t} : pc'[u] = pc[u]
    BY <1>3 DEF GetMutex, GoTo, ApTypeOK
  <2>2. Places' = [Places EXCEPT ![t] = Place(t)']
    BY <1>3, <2>1, OneIsSeen DEF GetMutex, ApTypeOK, OneResult, ResultUnderWay, Passing
  <2>3. Place(t)' = Place(t) /\ Sounds' = Sounds
    BY <1>3 DEF GetMutex, Place, Sounds, GoTo, Stands, ApTypeOK, ProcessTells
  <2>4. Places' = Places
    BY <2>2, <2>3 DEF Places
  <2>. QED BY <2>3, <2>4 DEF Service!toneVars
<1>4. ASSUME NEW t \in PlayerThreads, StaysBusy(t) PROVE Maps
  <2>1. \A u \in PlayerThreads \ {t} : pc'[u] = pc[u]
    BY <1>4 DEF StaysBusy, GoTo, ApTypeOK
  <2>2. Places' = [Places EXCEPT ![t] = Place(t)']
    BY <1>4, <2>1, OneIsSeen DEF StaysBusy, ApTypeOK, OneResult, ResultUnderWay, Passing
  <2>3. Place(t)' = [step |-> "calls", tone |-> pc[t].tone]
    BY <1>4 DEF StaysBusy, Place, GoTo, Stands, ApTypeOK, TonesInHand
  <2>4. Places[t] = [step |-> "wants", tone |-> pc[t].tone]
    BY <1>4 DEF StaysBusy, Places, Place, Stands
  <2>5. Sounds' = Sounds
    BY <1>4, ApAssumption DEF StaysBusy, Sounds, Stands, Free, ApTypeOK, ProcessTells, TonesInHand
  <2>7. Service!ToneRefused(t)
    BY <2>2, <2>3, <2>4, <2>5, SameThreads DEF Service!ToneRefused, Service!Is, Service!Goes,
         Service!Idle, Service!NoTone
  <2>. QED BY <2>7, SameThreads DEF Service!ToneNext, Service!ToneStep
<1>5. ASSUME NEW t \in PlayerThreads, PlayerFree(t) PROVE Maps
  <2>1. \A u \in PlayerThreads \ {t} : pc'[u] = pc[u]
    BY <1>5 DEF PlayerFree, GoTo, ApTypeOK
  <2>2. Places' = [Places EXCEPT ![t] = Place(t)']
    BY <1>5, <2>1, OneIsSeen DEF PlayerFree, ApTypeOK, OneResult, ResultUnderWay, Passing
  <2>3. Place(t)' = [step |-> "starts", tone |-> pc[t].tone]
    BY <1>5 DEF PlayerFree, Place, GoTo, Stands, ApTypeOK, TonesInHand
  <2>4. Places[t] = [step |-> "wants", tone |-> pc[t].tone]
    BY <1>5 DEF PlayerFree, Places, Place, Stands
  <2>5. Sounds = Nothing /\ Sounds' = pc[t].tone
    BY <1>5, ApAssumption DEF PlayerFree, Sounds, Stands, Free, ApTypeOK, ProcessTells,
         TonesInHand
  <2>6. \A u \in PlayerThreads : Places[u].step # "starts"
    BY <1>5 DEF PlayerFree, Places, Place, Stands, ApTypeOK
  <2>7. Service!ToneOn(t)
    BY <2>2, <2>3, <2>4, <2>5, <2>6, SameThreads DEF Service!ToneOn, Service!Is, Service!Goes,
         Service!Idle, Service!NoTone
  <2>. QED BY <2>7, SameThreads DEF Service!ToneNext, Service!ToneStep
<1>6. ASSUME NEW t \in PlayerThreads, PlayStarts(t) PROVE Maps
  <2>1. \A u \in PlayerThreads \ {t} : pc'[u] = pc[u]
    BY <1>6 DEF PlayStarts, GoTo, ApTypeOK
  <2>2. Places' = [Places EXCEPT ![t] = Place(t)']
    BY <1>6, <2>1, OneIsSeen DEF PlayStarts, ApTypeOK, OneResult, ResultUnderWay, Passing
  <2>3. Place(t)' = [step |-> "idle", tone |-> Nothing]
    BY <1>6 DEF PlayStarts, Place, GoTo, Stands, ApTypeOK, TonesInHand
  <2>4. Places[t] = [step |-> "starts", tone |-> pc[t].tone]
    BY <1>6 DEF PlayStarts, Places, Place, Stands
  <2>5. Sounds' = Sounds
    BY <1>6, ApAssumption DEF PlayStarts, Sounds, Stands, Free, ApTypeOK, ProcessTells,
         TonesInHand
  <2>7. Service!ToneStarts(t)
    BY <2>2, <2>3, <2>4, <2>5, SameThreads DEF Service!ToneStarts, Service!Is, Service!Goes,
         Service!Idle, Service!NoTone
  <2>. QED BY <2>7, SameThreads DEF Service!ToneNext, Service!ToneStep
<1>7. ASSUME NEW t \in PlayerThreads, PlayFails(t) PROVE Maps
  <2>1. \A u \in PlayerThreads \ {t} : pc'[u] = pc[u]
    BY <1>7 DEF PlayFails, GoTo, ApTypeOK
  <2>2. Places' = [Places EXCEPT ![t] = Place(t)']
    BY <1>7, <2>1, OneIsSeen DEF PlayFails, ApTypeOK, OneResult, ResultUnderWay, Passing
  <2>3. Place(t)' = [step |-> "calls", tone |-> pc[t].tone]
    BY <1>7 DEF PlayFails, Place, GoTo, Stands, ApTypeOK, TonesInHand
  <2>4. Places[t] = [step |-> "starts", tone |-> pc[t].tone]
    BY <1>7 DEF PlayFails, Places, Place, Stands
  <2>5. Sounds = pc[t].tone /\ Sounds' = Nothing
    BY <1>7, ApAssumption DEF PlayFails, Sounds, Stands, Free, ApTypeOK, ProcessTells, TonesInHand
  <2>7. Service!ToneFails(t)
    BY <2>2, <2>3, <2>4, <2>5, SameThreads DEF Service!ToneFails, Service!Is, Service!Goes,
         Service!Idle, Service!NoTone
  <2>. QED BY <2>7, SameThreads DEF Service!ToneNext, Service!ToneStep
<1>8. ASSUME NEW t \in PlayerThreads, DeinitTimer(t) PROVE Maps
  <2>1. \A u \in PlayerThreads \ {t} : pc'[u] = pc[u]
    BY <1>8 DEF DeinitTimer, GoTo, ApTypeOK
  <2>2. Places' = [Places EXCEPT ![t] = Place(t)']
    BY <1>8, <2>1, OneIsSeen DEF DeinitTimer, ApTypeOK, OneResult, ResultUnderWay, Passing
  <2>3. Place(t)' = Place(t) /\ Sounds' = Sounds
    BY <1>8 DEF DeinitTimer, Place, Sounds, GoTo, Stands, ApTypeOK, ProcessTells
  <2>4. Places' = Places
    BY <2>2, <2>3 DEF Places
  <2>. QED BY <2>3, <2>4 DEF Service!toneVars
<1>9. ASSUME NEW t \in PlayerThreads, Finished(t) PROVE Maps
  <2>1. \A u \in PlayerThreads \ {t} : pc'[u] = pc[u]
    BY <1>9 DEF Finished, GoTo, ApTypeOK
  <2>2. Places' = [Places EXCEPT ![t] = Place(t)']
    BY <1>9, <2>1, OneIsSeen DEF Finished, ApTypeOK, OneResult, ResultUnderWay, Passing
  <2>3. Place(t)' = Place(t) /\ Sounds' = Sounds
    BY <1>9 DEF Finished, Place, Sounds, GoTo, Stands, ApTypeOK, ProcessTells
  <2>4. Places' = Places
    BY <2>2, <2>3 DEF Places
  <2>. QED BY <2>3, <2>4 DEF Service!toneVars
<1>10. ASSUME NEW t \in PlayerThreads, ClearProcess(t) PROVE Maps
  <2>1. \A u \in PlayerThreads \ {t} : pc'[u] = pc[u]
    BY <1>10 DEF ClearProcess, GoTo, ApTypeOK
  <2>2. Places' = [Places EXCEPT ![t] = Place(t)']
    BY <1>10, <2>1, OneIsSeen DEF ClearProcess, ApTypeOK, OneResult, ResultUnderWay, Passing
  <2>3. Place(t)' = [step |-> "calls", tone |-> ap.context]
    BY <1>10 DEF ClearProcess, Place, GoTo, Stands, ApTypeOK, TonesInHand
  <2>4. Places[t] = [step |-> "idle", tone |-> Nothing]
    BY <1>10 DEF ClearProcess, Places, Place, Stands
  <2>5. Sounds = ap.context /\ Sounds # Nothing /\ Sounds' = Nothing
    BY <1>10, ApAssumption DEF ClearProcess, Sounds, Stands, Free, ApTypeOK, ProcessTells,
         TonesInHand
  <2>6. t \in {Service!URC, Service!TIMER}
    BY <1>10 DEF ClearProcess, EndersOnly, Stands, Service!URC, Service!TIMER
  <2>7. Service!ToneEnds(t)
    BY <2>2, <2>3, <2>4, <2>5, <2>6, SameThreads DEF Service!ToneEnds, Service!Is, Service!Goes,
         Service!Idle, Service!NoTone
  <2>. QED BY <2>7, SameThreads DEF Service!ToneNext, Service!ToneStep
<1>11. ASSUME NEW t \in PlayerThreads, SendResult(t) PROVE Maps
  <2>1. \A u \in PlayerThreads \ {t} : pc'[u] = pc[u]
    BY <1>11 DEF SendResult, GoTo, ApTypeOK
  <2>2. Places' = [Places EXCEPT ![t] = Place(t)']
    BY <1>11, <2>1, OneIsSeen DEF SendResult, ApTypeOK, OneResult, ResultUnderWay, Passing
  <2>3. Place(t)' = Place(t) /\ Sounds' = Sounds
    BY <1>11 DEF SendResult, Place, Sounds, GoTo, Stands, ApTypeOK, ProcessTells
  <2>4. Places' = Places
    BY <2>2, <2>3 DEF Places
  <2>. QED BY <2>3, <2>4 DEF Service!toneVars
<1>12. CASE SoundEnds
  BY <1>12 DEF SoundEnds, Service!toneVars, Places, Place, Sounds
<1>13. CASE UrcArrives
  <2>1. /\ \A u \in PlayerThreads \ {ReportThread} : pc'[u] = pc[u]
        /\ ap'.context = ap.context /\ ap'.process = ap.process
    BY <1>13 DEF UrcArrives, GoTo, ApTypeOK
  <2>2. Places' = [Places EXCEPT ![ReportThread] = Place(ReportThread)']
    BY <2>1, OneIsSeen
  <2>3. Place(ReportThread)' = Place(ReportThread)
    BY <1>13 DEF UrcArrives, Place, GoTo, Stands, ApTypeOK
  <2>4. Places' = Places /\ Sounds' = Sounds
    BY <2>1, <2>2, <2>3 DEF Places, Sounds
  <2>. QED BY <2>4 DEF Service!toneVars
<1>14. CASE TimerFires
  <2>1. /\ \A u \in PlayerThreads \ {TimerThread} : pc'[u] = pc[u]
        /\ ap'.context = ap.context /\ ap'.process = ap.process
    BY <1>14 DEF TimerFires, GoTo, ApTypeOK
  <2>2. Places' = [Places EXCEPT ![TimerThread] = Place(TimerThread)']
    BY <2>1, OneIsSeen
  <2>3. Place(TimerThread)' = Place(TimerThread)
    BY <1>14 DEF TimerFires, Place, GoTo, Stands, ApTypeOK
  <2>4. Places' = Places /\ Sounds' = Sounds
    BY <2>1, <2>2, <2>3 DEF Places, Sounds
  <2>. QED BY <2>4 DEF Service!toneVars
<1>15. ASSUME NEW t \in PlayerThreads, Cross(t) PROVE Maps
  BY <1>15 DEF Cross, Service!toneVars, Places, Place, Sounds
<1>. QED BY <1>1, <1>2, <1>3, <1>4, <1>5, <1>6, <1>7, <1>8, <1>9, <1>10, <1>11, <1>12, <1>13,
     <1>14, <1>15 DEF ApNext, ApStep

\* The variables of the player keep their types, and the mutex is held by the thread that is
\* in its region.
THEOREM PlayerTypeCorrect == ApSpec => []ApTypeOK
<1>1. ApInv => ApTypeOK
  BY DEF ApInv
<1>. QED BY <1>1, ApInvInit, ApInvStep, PTL DEF ApSpec

\* Every tone asked for is called back once, with its own context, as long as no results
\* cross: a_player.c implements TonePlayer.
THEOREM PlayerKeepsPromise == ApSpec => KeepsTonePromise
<1>1. ApInv /\ ApInv' /\ [ApNext]_apVars => [Service!ToneNext]_(Service!toneVars)
  BY StepMaps
<1>. QED BY <1>1, InitMaps, ApInvInit, ApInvStep, PTL DEF ApSpec, KeepsTonePromise,
     Service!ToneSpec

----------------------------------------------------------------------------
(* The charger.                                                            *)

Charges == {"undefined", "doNot", "charging", "charged"}
Connections == {"undefined", "has", "hasNot"}
Judgements == {"undefined", "normal", "abnormal"}
Batteries == [charge : Charges, connection : Connections, thermal : Judgements,
              resistance : Judgements, cnt : 0..ChargeInterval, time : 0..MaxIntervals]

LEMMA Positive ==
  ChargeInterval \in Nat /\ ChargeInterval > 0 /\ MaxIntervals \in Nat /\ MaxIntervals > 0
    /\ 0 \in 0..MaxIntervals
  BY ChargerAssumption

\* One field changes.
LEMMA OneField ==
  ASSUME NEW b \in Batteries
  PROVE  /\ \A c \in Charges : /\ [b EXCEPT !.charge = c] \in Batteries
                               /\ [b EXCEPT !.charge = c].charge = c
                               /\ [b EXCEPT !.charge = c].connection = b.connection
                               /\ [b EXCEPT !.charge = c].thermal = b.thermal
                               /\ [b EXCEPT !.charge = c].time = b.time
         /\ \A t \in 0..MaxIntervals : /\ [b EXCEPT !.time = t] \in Batteries
                                       /\ [b EXCEPT !.time = t].charge = b.charge
                                       /\ [b EXCEPT !.time = t].connection = b.connection
                                       /\ [b EXCEPT !.time = t].thermal = b.thermal
         /\ \A j \in Judgements : /\ [b EXCEPT !.resistance = j] \in Batteries
                                  /\ [b EXCEPT !.resistance = j].charge = b.charge
                                  /\ [b EXCEPT !.resistance = j].connection = b.connection
                                  /\ [b EXCEPT !.resistance = j].thermal = b.thermal
                                  /\ [b EXCEPT !.resistance = j].time = b.time
         /\ \A n \in 0..ChargeInterval : /\ [b EXCEPT !.cnt = n] \in Batteries
                                         /\ [b EXCEPT !.cnt = n].charge = b.charge
                                         /\ [b EXCEPT !.cnt = n].connection = b.connection
                                         /\ [b EXCEPT !.cnt = n].thermal = b.thermal
  BY DEF Batteries

\* What acbHasConnected, acbResistanceCheck and acbTempCheck leave alone.
LEMMA CheckedKeeps ==
  ASSUME ChargerTypeOK, NEW r \in Readings
  PROVE  LET b == Checked(r) IN
         /\ b \in Batteries
         /\ b.charge = bat.charge /\ b.cnt = bat.cnt /\ b.time = bat.time
<1>1. Connection(r) \in {"undefined", "has", "hasNot"}
  BY DEF Connection
<1>. QED BY <1>1 DEF Checked, ChargerTypeOK, Batteries, Charges, Connections, Judgements

\* What is decided of a battery that was checked: nothing charges what is forbidden.
LEMMA DecidedIsFit ==
  ASSUME ChargerTypeOK, NEW r \in Readings
  PROVE  LET b == Checked(r)
             d == Decided(b, r) IN
         /\ d.charge \in Charges /\ d.line \in BOOLEAN
         /\ d.charge = "charging" => ~Forbidden(b)
<1>. DEFINE b == Checked(r)
<1>1. b.charge = bat.charge
  BY CheckedKeeps
<1>2. bat.charge \in Charges /\ line \in BOOLEAN
  BY DEF ChargerTypeOK, Charges
<1>. HIDE DEF b
<1>. QED BY <1>1, <1>2 DEF Decided, b, Charges

\* The decision is carried out.
Fit(s) ==
  /\ s \in [b : Batteries, line : BOOLEAN]
  /\ s.line => s.b.charge = "charging"
  /\ s.b.charge = "charging" => s.b.connection = "has" /\ s.b.thermal = "normal"

LEMMA SettledIsFit ==
  ASSUME ChargerTypeOK, NEW r \in Readings
  PROVE  LET b == Checked(r)
             s == Settled(b, Decided(b, r)) IN
         Fit(s) /\ (s.b.charge = "charging" => s.b.time < MaxIntervals)
<1>. DEFINE b == Checked(r)
            d == Decided(b, r)
<1>1. b \in Batteries
  BY CheckedKeeps
<1>2. /\ d.charge \in {"undefined", "doNot", "charging", "charged"} /\ d.line \in BOOLEAN
      /\ d.charge = "charging" => ~Forbidden(b)
  BY DecidedIsFit DEF Charges
<1>. HIDE DEF b, d
<1>3. Fit(Settled(b, d)) /\ (Settled(b, d).b.charge = "charging"
                               => Settled(b, d).b.time < MaxIntervals)
  <2>1. CASE d.charge = "charging"
    <3>. DEFINE c == [b EXCEPT !.charge = "charging"]
    <3>1. /\ c \in Batteries /\ c.charge = "charging"
          /\ c.connection = b.connection /\ c.thermal = b.thermal /\ c.time = b.time
      BY <1>1, OneField DEF Charges
    <3>2. b.connection = "has" /\ b.thermal = "normal" /\ b.time < MaxIntervals
      <4>1. b.time \in 0..MaxIntervals
        BY <1>1 DEF Batteries
      <4>. QED BY <4>1, <2>1, <1>2, Positive DEF Forbidden
    <3>3. Settled(b, d) = [b |-> c, line |-> d.line]
      BY <2>1 DEF Settled
    <3>. HIDE DEF c
    <3>4. Settled(b, d) \in [b : Batteries, line : BOOLEAN] /\ Settled(b, d).b = c
      BY <3>1, <3>3, <1>2
    <3>. QED BY <3>1, <3>2, <3>4 DEF Fit
  <2>2. CASE d.charge # "charging"
    <3>. DEFINE c == [b EXCEPT !.charge = d.charge, !.time = 0]
    <3>1. /\ [b EXCEPT !.charge = d.charge] \in Batteries
          /\ [b EXCEPT !.charge = d.charge].charge = d.charge
      BY <1>1, <1>2, OneField DEF Charges
    <3>2. c \in Batteries /\ c.charge = d.charge
      BY <3>1, OneField, Positive
    <3>3. Settled(b, d) = [b |-> c, line |-> FALSE]
      BY <2>2 DEF Settled
    <3>. HIDE DEF c
    <3>4. Settled(b, d) \in [b : Batteries, line : BOOLEAN] /\ Settled(b, d).line = FALSE
            /\ Settled(b, d).b = c
      BY <3>2, <3>3
    <3>. QED BY <3>2, <3>4, <2>2 DEF Fit
  <2>. QED BY <2>1, <2>2
<1>. QED BY <1>3 DEF b, d

\* The rest of the handler charges nothing that was not charging.
LEMMA RestIsFit ==
  ASSUME NEW s, Fit(s), s.b.charge = "charging" => s.b.time < MaxIntervals, NEW r \in Readings
  PROVE  Fit(Awake(s, r)) /\ Fit(Asleep(s))
<1>1. Fit(Asleep(s))
  BY Positive DEF Batteries, Fit, Asleep
<1>2. CASE s.b.cnt < ChargeInterval
  BY <1>1, <1>2, Positive DEF Batteries, Fit, Awake
<1>3. CASE s.b.cnt >= ChargeInterval
  <2>1. Fit(Progress(s, r))
    <3>1. CASE s.b.charge # "charging"
      BY <3>1 DEF Progress
    <3>2. CASE s.b.charge = "charging" /\ r.peak
      <4>. DEFINE c == [s.b EXCEPT !.resistance = IF r.highLater THEN "abnormal" ELSE @]
                   e == [c EXCEPT !.charge = "charged", !.time = 0]
      <4>1. Progress(s, r) = [b |-> e, line |-> FALSE]
        BY <3>2 DEF Progress
      <4>2. c \in Batteries
        <5>1. s.b \in Batteries /\ s.b.resistance \in Judgements
          BY DEF Fit, Batteries
        <5>. QED BY <5>1, OneField DEF Judgements
      <4>. HIDE DEF c
      <4>3. e \in Batteries /\ e.charge = "charged"
        <5>1. [c EXCEPT !.charge = "charged"] \in Batteries
                /\ [c EXCEPT !.charge = "charged"].charge = "charged"
          BY <4>2, OneField DEF Charges
        <5>. QED BY <5>1, OneField, Positive
      <4>. HIDE DEF e
      <4>4. Progress(s, r) \in [b : Batteries, line : BOOLEAN] /\ Progress(s, r).line = FALSE
              /\ Progress(s, r).b = e
        BY <4>1, <4>3
      <4>. QED BY <4>3, <4>4 DEF Fit
    <3>3. CASE s.b.charge = "charging" /\ ~r.peak
      <4>. DEFINE c == [s.b EXCEPT !.resistance = IF r.highLater THEN "abnormal" ELSE @]
                   e == [c EXCEPT !.time = @ + 1]
      <4>2. e \in Batteries /\ e.charge = s.b.charge /\ e.connection = s.b.connection
              /\ e.thermal = s.b.thermal
        <5>1. s.b \in Batteries /\ s.b.resistance \in Judgements
          BY DEF Fit, Batteries
        <5>2. /\ c \in Batteries /\ c.charge = s.b.charge /\ c.connection = s.b.connection
              /\ c.thermal = s.b.thermal /\ c.time = s.b.time
          <6>. DEFINE j == IF r.highLater THEN "abnormal" ELSE s.b.resistance
          <6>1. j \in Judgements
            BY <5>1 DEF Judgements
          <6>2. c = [s.b EXCEPT !.resistance = j]
            OBVIOUS
          <6>. HIDE DEF j, c
          <6>. QED BY <6>1, <6>2, <5>1, OneField
        <5>3. c.time \in 0..MaxIntervals /\ s.b.time < MaxIntervals
          BY <5>2, <3>3 DEF Batteries
        <5>4. c.time + 1 \in 0..MaxIntervals
          BY <5>3, Positive
        <5>. HIDE DEF c
        <5>. QED BY <5>2, <5>4, OneField
      <4>3. Progress(s, r) = [s EXCEPT !.b = e]
        BY <3>3 DEF Progress
      <4>4. s \in [b : Batteries, line : BOOLEAN]
        BY DEF Fit
      <4>. HIDE DEF e
      <4>5. Progress(s, r) \in [b : Batteries, line : BOOLEAN] /\ Progress(s, r).line = s.line
              /\ Progress(s, r).b = e
        BY <4>2, <4>3, <4>4
      <4>. QED BY <4>2, <4>5 DEF Fit
    <3>. QED BY <3>1, <3>2, <3>3
  <2>. DEFINE p == Progress(s, r)
  <2>. HIDE DEF p
  <2>2. Awake(s, r) = [p EXCEPT !.b = [p.b EXCEPT !.cnt = 1]]
    BY <1>3 DEF Awake, p
  <2>3. DOMAIN p.b = DOMAIN p.b /\ Fit(p)
    BY <2>1 DEF p
  <2>4. Fit([p EXCEPT !.b = [p.b EXCEPT !.cnt = 1]])
    BY <2>3, Positive DEF Batteries, Fit
  <2>. QED BY <1>1, <2>2, <2>4
<1>. QED BY <1>1, <1>2, <1>3, Positive DEF Fit, Batteries

ChargerInv == ChargerTypeOK /\ ChargesWhatIsFit
                /\ (bat.charge = "charging" => bat.connection = "has" /\ bat.thermal = "normal")

LEMMA ChargerInvInit == ChargerInit => ChargerInv
<1>. SUFFICES ASSUME ChargerInit PROVE ChargerInv
  OBVIOUS
<1>1. ChargerTypeOK
  <2>1. bat \in Batteries
    BY Positive DEF ChargerInit, Batteries, Charges, Connections, Judgements
  <2>2. line \in BOOLEAN /\ mode \in [test : BOOLEAN, onOff : BOOLEAN, tm : BOOLEAN]
    BY DEF ChargerInit
  <2>3. under \in [check : BOOLEAN, request : BOOLEAN, byHand : BOOLEAN]
    BY DEF ChargerInit
  <2>. QED BY <2>1, <2>2, <2>3 DEF ChargerTypeOK, Batteries, Charges, Connections, Judgements
<1>2. ~line /\ bat.charge # "charging"
  BY DEF ChargerInit
<1>. QED BY <1>1, <1>2 DEF ChargerInv, ChargesWhatIsFit

\* The steps that leave the battery as it was found: only the tester's hand switches it on.
LEMMA BatteryAlone ==
  ASSUME ChargerInv, UNCHANGED bat, line' \in BOOLEAN,
         mode' \in [test : BOOLEAN, onOff : BOOLEAN, tm : BOOLEAN],
         under' \in [check : BOOLEAN, request : BOOLEAN, byHand : BOOLEAN],
         line' /\ ~under'.byHand => line /\ ~under.byHand
  PROVE  ChargerInv'
<1>1. ChargerTypeOK'
  <2>1. bat \in Batteries
    BY DEF ChargerInv, ChargerTypeOK, Batteries, Charges, Connections, Judgements
  <2>2. bat' \in Batteries
    BY <2>1
  <2>. QED BY <2>2 DEF ChargerTypeOK, Batteries, Charges, Connections, Judgements
<1>. QED BY <1>1 DEF ChargerInv, ChargesWhatIsFit

LEMMA ChargerInvStep == ChargerInv /\ [ChargerNext]_chargerVars => ChargerInv'
<1>. SUFFICES ASSUME ChargerInv, [ChargerNext]_chargerVars PROVE ChargerInv'
  OBVIOUS
<1>1. CASE ChargeTimer
  <2>1. PICK r \in Readings :
          LET b == Checked(r)
              s == Settled(b, Decided(b, r))
              h == IF r.ignition THEN Awake(s, r) ELSE Asleep(s) IN
          bat' = h.b /\ line' = h.line
    BY <1>1 DEF ChargeTimer
  <2>. DEFINE s == Settled(Checked(r), Decided(Checked(r), r))
              h == IF r.ignition THEN Awake(s, r) ELSE Asleep(s)
  <2>2. Fit(s) /\ (s.b.charge = "charging" => s.b.time < MaxIntervals)
    BY SettledIsFit DEF ChargerInv
  <2>3. bat' = h.b /\ line' = h.line
    BY <2>1
  <2>. HIDE DEF s
  <2>4. Fit(h)
    BY <2>2, RestIsFit
  <2>5. /\ mode' \in [test : BOOLEAN, onOff : BOOLEAN, tm : BOOLEAN]
        /\ under' \in [check : BOOLEAN, request : BOOLEAN, byHand : BOOLEAN]
    BY <1>1 DEF ChargeTimer, ChargerInv, ChargerTypeOK
  <2>. HIDE DEF h
  <2>. QED BY <2>3, <2>4, <2>5 DEF Fit, Batteries, Charges, Connections, Judgements, ChargerInv,
       ChargerTypeOK, ChargesWhatIsFit
<1>. /\ line \in BOOLEAN /\ mode \in [test : BOOLEAN, onOff : BOOLEAN, tm : BOOLEAN]
     /\ under \in [check : BOOLEAN, request : BOOLEAN, byHand : BOOLEAN]
  BY DEF ChargerInv, ChargerTypeOK
<1>2. CASE CheckBegins \/ RequestBegins
  BY <1>2, BatteryAlone DEF CheckBegins, RequestBegins
<1>3. CASE TestEntered \/ TestLeft \/ OnOffMode
  <2>1. bat' = bat /\ under' = under /\ (line' = line \/ line' = FALSE)
    BY <1>3 DEF TestEntered, TestLeft, OnOffMode
  <2>2. mode' \in [test : BOOLEAN, onOff : BOOLEAN, tm : BOOLEAN]
    BY <1>3 DEF TestEntered, TestLeft, OnOffMode
  <2>3. CASE line' = line
    BY <2>1, <2>2, <2>3, BatteryAlone
  <2>4. CASE line' = FALSE
    BY <2>1, <2>2, <2>4, BatteryAlone
  <2>. QED BY <2>1, <2>3, <2>4
<1>4. CASE SetDOStates
  <2>1. bat' = bat /\ line' \in BOOLEAN
    BY <1>4 DEF SetDOStates
  <2>2. /\ mode' \in [test : BOOLEAN, onOff : BOOLEAN, tm : BOOLEAN]
        /\ under' \in [check : BOOLEAN, request : BOOLEAN, byHand : BOOLEAN]
    BY <1>4 DEF SetDOStates
  <2>3. under'.byHand = TRUE
    BY <1>4 DEF SetDOStates
  <2>. QED BY <2>1, <2>2, <2>3, BatteryAlone
<1>5. CASE UNCHANGED chargerVars
  BY <1>5 DEF chargerVars, ChargerInv, ChargerTypeOK, ChargesWhatIsFit
<1>. QED BY <1>1, <1>2, <1>3, <1>4, <1>5 DEF ChargerNext

\* The battery that is charged, but for a tester's hand since the last check, is there and was
\* neither too cold nor too hot when it was looked at last, for any length of the intervals
\* and of the charging and wherever the test mode comes and goes (charger.c:130-155, 336-449;
\* writeDataByIdentifier_2E.c:487-499).
THEOREM AlwaysChargesWhatIsFit == ChargerSpec => []ChargesWhatIsFit
<1>1. ChargerInv => ChargesWhatIsFit
  BY DEF ChargerInv
<1>. QED BY <1>1, ChargerInvInit, ChargerInvStep, PTL DEF ChargerSpec

----------------------------------------------------------------------------
(* The start of the self-test.                                             *)

Switches ==
  [isInit : BOOLEAN, sos : BOOLEAN, diag : BOOLEAN, service : BOOLEAN,
   stuckCnt : Nat, stuck : BOOLEAN, ignition : BOOLEAN, ignCnt : Nat, ignRead : 0..1,
   hasEraCall : BOOLEAN, manual : Nat, iter : Nat, test : Nat, pause : Nat]

Histories == [held : Nat, idle : Nat, series : Nat, cleared : BOOLEAN, straight : BOOLEAN]

GpioTypes == gpio \in Switches /\ unit \in Beeps /\ seen \in Histories

\* The count is at most one ahead of the short presses, until there are enough of them.
CountFits == gpio.test <= seen.series + 1 \/ seen.series = Presses

\* Of a press the code counts the cycles, or has given the series up.
PressIsTimed ==
  gpio.sos => /\ seen.idle = 0 /\ gpio.pause = 0
              /\ gpio.test = 0 \/ (gpio.iter = seen.held /\ seen.held > 0)

\* Of a pause, too; a series given up begins again with the pause that goes on.
PauseIsTimed ==
  ~gpio.sos => /\ seen.held = 0 /\ gpio.iter = 0
               /\ gpio.pause = 0 => gpio.test = 0
               /\ gpio.test <= 1 \/ gpio.pause = seen.idle

PressesInv ==
  /\ GpioTypes
  /\ gpio.iter <= FastTicks + 1 /\ gpio.pause <= PauseTicks + 1
  /\ CountFits /\ PressIsTimed /\ PauseIsTimed

\* What two switches have in common that count for the test.
Alike(g, h) == g.iter = h.iter /\ g.test = h.test /\ g.pause = h.pause

LEMMA TicksAreNat ==
  /\ FastTicks \in Nat /\ PauseTicks \in Nat /\ Presses \in Nat
  /\ ManualTicks + 1 \in Nat /\ StuckTicks + 1 \in Nat
  /\ FastTicks + 2 \in Nat /\ PauseTicks + 3 \in Nat /\ Presses + 2 \in Nat
BY GpioAssumption

LEMMA SwitchesBefore ==
  ASSUME GpioTypes, NEW in \in Lines
  PROVE  LET g1 == SosState(in)
             g2 == StuckSos(g1)
             g3 == KL15State(g2, in)
             g4 == ServiceState(g3, in) IN
         /\ g1 \in Switches /\ g2 \in Switches /\ g3 \in Switches
         /\ g4 \in Switches /\ Alike(g4, gpio)
<1>. DEFINE g1 == SosState(in)
            g2 == StuckSos(g1)
            g3 == KL15State(g2, in)
            g4 == ServiceState(g3, in)
<1>0. gpio \in Switches /\ in.ign \in 0..1
  BY DEF GpioTypes, Lines
<1>1. g1 \in Switches /\ Alike(g1, gpio)
  <2>1. SosNow(in) \in BOOLEAN
    BY <1>0 DEF SosNow, Switches
  <2>2. DiagNow(in) \in BOOLEAN
    BY <1>0 DEF DiagNow, Switches
  <2>. QED BY <1>0, <2>1, <2>2 DEF SosState, Switches, Alike
<1>. HIDE DEF g1
<1>2. g2 \in Switches /\ Alike(g2, g1)
  <2>. DEFINE n == UpTo(g1.stuckCnt + 1, StuckTicks + 1)
              st == g1.stuck \/ g1.stuckCnt + 1 = StuckTicks
  <2>1. n \in Nat
    <3>1. g1.stuckCnt + 1 \in Nat
      BY <1>1 DEF Switches
    <3>. QED BY <3>1, TicksAreNat DEF UpTo
  <2>2. st \in BOOLEAN
    BY <1>1 DEF Switches
  <2>3. \/ g2 = [g1 EXCEPT !.stuckCnt = n, !.stuck = st]
        \/ g2 = [g1 EXCEPT !.stuckCnt = 0, !.stuck = FALSE]
    BY DEF StuckSos
  <2>. HIDE DEF g2, n, st
  <2>4. CASE g2 = [g1 EXCEPT !.stuckCnt = n, !.stuck = st]
    BY <1>1, <2>1, <2>2, <2>4 DEF Switches, Alike
  <2>5. CASE g2 = [g1 EXCEPT !.stuckCnt = 0, !.stuck = FALSE]
    BY <1>1, <2>5 DEF Switches, Alike
  <2>. QED BY <2>3, <2>4, <2>5
<1>. HIDE DEF g2
<1>3. g3 \in Switches /\ Alike(g3, g2)
  <2>. DEFINE cnt == IF in.ign # g2.ignRead THEN 0 ELSE g2.ignCnt
              on == in.ign = 0
  <2>1. cnt \in Nat /\ cnt + 1 \in Nat /\ on \in BOOLEAN
    BY <1>2 DEF Switches
  <2>2. \/ g3 = [g2 EXCEPT !.ignition = on, !.ignCnt = 0, !.ignRead = in.ign]
        \/ g3 = [g2 EXCEPT !.ignCnt = cnt + 1, !.ignRead = in.ign]
    BY DEF KL15State
  <2>. HIDE DEF g3, cnt, on
  <2>3. CASE g3 = [g2 EXCEPT !.ignition = on, !.ignCnt = 0, !.ignRead = in.ign]
    BY <1>0, <1>2, <2>1, <2>3 DEF Switches, Alike
  <2>4. CASE g3 = [g2 EXCEPT !.ignCnt = cnt + 1, !.ignRead = in.ign]
    <3>. DEFINE c == cnt + 1
    <3>1. c \in Nat
      BY <2>1
    <3>2. g3 = [g2 EXCEPT !.ignCnt = c, !.ignRead = in.ign]
      BY <2>4
    <3>. HIDE DEF c
    <3>. QED BY <1>0, <1>2, <3>1, <3>2 DEF Switches, Alike
  <2>. QED BY <2>2, <2>3, <2>4
<1>. HIDE DEF g3
<1>4. g4 \in Switches /\ Alike(g4, g3)
  <2>1. (in.service = 1) \in BOOLEAN
    OBVIOUS
  <2>. QED BY <1>3, <2>1 DEF ServiceState, Switches, Alike
<1>. HIDE DEF g4
<1>5. g4 \in Switches /\ Alike(g4, gpio)
  BY <1>1, <1>2, <1>3, <1>4 DEF Alike
<1>. QED BY <1>1, <1>2, <1>3, <1>4, <1>5 DEF g1, g2, g3, g4

\* A manual call gives the series up.
LEMMA ManualSosDoes ==
  ASSUME NEW g \in Switches
  PROVE  /\ ManualSos(g) \in Switches /\ ManualSos(g).sos = g.sos
         /\ \/ Alike(ManualSos(g), g)
            \/ g.sos /\ ManualSos(g).iter = 0 /\ ManualSos(g).test = 0 /\ ManualSos(g).pause = 0
<1>. DEFINE n == UpTo(g.manual + 1, ManualTicks + 1)
<1>1. n \in Nat
  <2>1. g.manual + 1 \in Nat
    BY DEF Switches
  <2>. QED BY <2>1, TicksAreNat DEF UpTo
<1>2. CASE Calls(g)
  BY <1>2 DEF ManualSos, ResetTest, Calls, Switches
<1>3. CASE ~Calls(g)
  <2>1. \/ ManualSos(g) = [g EXCEPT !.manual = n]
        \/ ManualSos(g) = [g EXCEPT !.hasEraCall = FALSE, !.manual = 0]
    BY <1>3 DEF ManualSos
  <2>. HIDE DEF n
  <2>. DEFINE h == ManualSos(g)
  <2>. HIDE DEF h
  <2>2. CASE h = [g EXCEPT !.manual = n]
    <3>1. h \in Switches /\ h.sos = g.sos /\ Alike(h, g)
      BY <1>1, <2>2 DEF Switches, Alike
    <3>. QED BY <3>1 DEF h
  <2>3. CASE h = [g EXCEPT !.hasEraCall = FALSE, !.manual = 0]
    <3>1. h \in Switches /\ h.sos = g.sos /\ Alike(h, g)
      BY <2>3 DEF Switches, Alike
    <3>. QED BY <3>1 DEF h
  <2>. QED BY <2>1, <2>2, <2>3 DEF h
<1>. QED BY <1>2, <1>3

\* What a cycle does to the counters of the test.
LEMMA EraTestCallDoes ==
  ASSUME NEW g \in Switches
  PROVE  LET h == EraTestCall(g) IN
         /\ h \in Switches /\ h.sos = g.sos
         /\ \/ h.iter = 0 /\ h.test = 0 /\ h.pause = 0
            \/ /\ g.sos /\ g.iter <= FastTicks
               /\ h.iter = g.iter + 1 /\ h.test = g.test /\ h.pause = 0
            \/ /\ ~g.sos /\ g.pause <= PauseTicks /\ h.iter = 0 /\ h.pause = g.pause + 1
               /\ h.test = IF g.pause = 0 THEN UpTo(g.test + 1, Presses + 2) ELSE g.test
<1>. DEFINE h == EraTestCall(g)
            n == IF g.pause = 0 THEN UpTo(g.test + 1, Presses + 2) ELSE g.test
<1>0. n \in Nat /\ g.iter + 1 \in Nat /\ g.pause + 1 \in Nat
  <2>1. g.test \in Nat /\ g.test + 1 \in Nat /\ g.iter + 1 \in Nat /\ g.pause + 1 \in Nat
    BY DEF Switches
  <2>2. UpTo(g.test + 1, Presses + 2) \in Nat
    BY <2>1, TicksAreNat DEF UpTo
  <2>. QED BY <2>1, <2>2
<1>1. ResetTest(g) \in Switches /\ ResetTest(g).sos = g.sos
      /\ ResetTest(g).iter = 0 /\ ResetTest(g).test = 0 /\ ResetTest(g).pause = 0
  BY DEF ResetTest, Switches
<1>2. CASE h = ResetTest(g)
  BY <1>1, <1>2
<1>3. CASE h = [ResetTest(g) EXCEPT !.hasEraCall = TRUE, !.manual = 0]
  <2>. DEFINE r == ResetTest(g)
  <2>1. h = [r EXCEPT !.hasEraCall = TRUE, !.manual = 0]
    BY <1>3
  <2>2. r \in Switches /\ r.sos = g.sos /\ r.iter = 0 /\ r.test = 0 /\ r.pause = 0
    BY <1>1
  <2>. HIDE DEF r, h
  <2>3. h \in Switches /\ h.sos = g.sos /\ h.iter = 0 /\ h.test = 0 /\ h.pause = 0
    BY <2>1, <2>2 DEF Switches
  <2>. QED BY <2>3 DEF h
<1>4. CASE g.sos /\ g.iter <= FastTicks /\ h = [g EXCEPT !.pause = 0, !.iter = g.iter + 1]
  <2>. DEFINE k == g.iter + 1
  <2>1. h = [g EXCEPT !.pause = 0, !.iter = k] /\ k \in Nat
    BY <1>0, <1>4
  <2>. HIDE DEF h, k
  <2>2. h \in Switches /\ h.sos = g.sos /\ h.iter = k /\ h.test = g.test /\ h.pause = 0
    BY <2>1 DEF Switches
  <2>. QED BY <1>4, <2>2 DEF h, k
<1>5. CASE ~g.sos /\ g.pause <= PauseTicks
        /\ h = [g EXCEPT !.iter = 0, !.pause = g.pause + 1, !.test = n]
  <2>. HIDE DEF h
  <2>1. h.test = n
    <3>. HIDE DEF n
    <3>. QED BY <1>5 DEF Switches
  <2>2. h \in Switches /\ h.sos = g.sos /\ h.iter = 0 /\ h.pause = g.pause + 1
    <3>. HIDE DEF n
    <3>. QED BY <1>0, <1>5 DEF Switches
  <2>. QED BY <1>5, <2>1, <2>2 DEF h
<1>6. \/ h = ResetTest(g) \/ h = [ResetTest(g) EXCEPT !.hasEraCall = TRUE, !.manual = 0]
      \/ g.sos /\ g.iter <= FastTicks /\ h = [g EXCEPT !.pause = 0, !.iter = g.iter + 1]
      \/ ~g.sos /\ g.pause <= PauseTicks
        /\ h = [g EXCEPT !.iter = 0, !.pause = g.pause + 1, !.test = n]
  <2>1. g.iter \in Nat /\ g.pause \in Nat /\ FastTicks \in Nat /\ PauseTicks \in Nat
    BY TicksAreNat DEF Switches
  <2>. QED BY <2>1 DEF EraTestCall
<1>. QED BY <1>2, <1>3, <1>4, <1>5, <1>6

\* The history of a cycle.
LEMMA SeenTypes ==
  ASSUME GpioTypes, NEW g \in Switches
  PROVE  LET s == Seen(g) IN
         /\ s \in Histories
         /\ s.held = IF g.sos THEN UpTo(seen.held + 1, FastTicks + 2) ELSE 0
         /\ s.idle = IF g.sos THEN 0 ELSE UpTo(seen.idle + 1, PauseTicks + 3)
         /\ s.series = IF seen.idle > PauseTicks + 1 THEN 0
                       ELSE IF ~g.sos /\ seen.held \in 1..(FastTicks + 1)
                              THEN UpTo(seen.series + 1, Presses)
                       ELSE IF ~g.sos /\ seen.held > 0 THEN 0 ELSE seen.series
         /\ s.cleared = (seen.cleared /\ ((gpio.stuck /\ g.stuck) \/ (Torn(gpio) /\ ~g.diag)))
         /\ s.straight = (~g.diag /\ (seen.straight \/ gpio.stuck))
<1>. DEFINE s == Seen(g)
            cleared == seen.cleared /\ ((gpio.stuck /\ g.stuck) \/ (Torn(gpio) /\ ~g.diag))
            straight == ~g.diag /\ (seen.straight \/ gpio.stuck)
            held == IF g.sos THEN UpTo(seen.held + 1, FastTicks + 2) ELSE 0
            idle == IF g.sos THEN 0 ELSE UpTo(seen.idle + 1, PauseTicks + 3)
            series == IF seen.idle > PauseTicks + 1 THEN 0
                      ELSE IF ~g.sos /\ seen.held \in 1..(FastTicks + 1)
                             THEN UpTo(seen.series + 1, Presses)
                      ELSE IF ~g.sos /\ seen.held > 0 THEN 0 ELSE seen.series
<1>0. /\ seen.cleared \in BOOLEAN /\ seen.straight \in BOOLEAN
      /\ g.stuck \in BOOLEAN /\ g.diag \in BOOLEAN /\ gpio.stuck \in BOOLEAN
      /\ seen.held \in Nat /\ seen.idle \in Nat /\ seen.series \in Nat
  BY DEF GpioTypes, Switches, Histories
<1>1. held \in Nat /\ idle \in Nat /\ series \in Nat
  <2>1. seen.held + 1 \in Nat /\ seen.idle + 1 \in Nat /\ seen.series + 1 \in Nat
    BY <1>0
  <2>2. /\ UpTo(seen.held + 1, FastTicks + 2) \in Nat /\ UpTo(seen.idle + 1, PauseTicks + 3) \in Nat
        /\ UpTo(seen.series + 1, Presses) \in Nat
    BY <2>1, TicksAreNat DEF UpTo
  <2>. QED BY <1>0, <2>2
<1>2. cleared \in BOOLEAN /\ straight \in BOOLEAN
  BY <1>0
<1>3. s = [held |-> held, idle |-> idle, series |-> series, cleared |-> cleared,
           straight |-> straight]
  BY DEF Seen
<1>. HIDE DEF cleared, straight, s, held, idle, series
<1>4. /\ s \in Histories /\ s.held = held /\ s.idle = idle /\ s.series = series
      /\ s.cleared = cleared /\ s.straight = straight
  BY <1>1, <1>2, <1>3 DEF Histories
<1>. QED BY <1>4 DEF held, idle, series, cleared, straight, s

LEMMA PressesInvInit == GpioInit => PressesInv
<1>. SUFFICES ASSUME GpioInit PROVE PressesInv
  OBVIOUS
<1>1. GpioTypes
  BY DEF GpioInit, GpioTypes, Switches, Histories
<1>2. CountFits /\ PressIsTimed /\ PauseIsTimed
  BY DEF GpioInit, CountFits, PressIsTimed, PauseIsTimed
<1>3. gpio.iter <= FastTicks + 1 /\ gpio.pause <= PauseTicks + 1
  BY TicksAreNat DEF GpioInit
<1>. QED BY <1>1, <1>2, <1>3 DEF PressesInv

\* What a cycle leaves, where the test is counted: all zero, or one cycle more of a press or
\* of a pause.
LEMMA CycleCounts ==
  ASSUME PressesInv, NEW in \in Lines, WatchProcess(in)
  PROVE  /\ gpio' \in Switches /\ seen' \in Histories
         /\ \/ gpio'.iter = 0 /\ gpio'.test = 0 /\ gpio'.pause = 0
            \/ /\ gpio'.sos /\ gpio'.pause = 0
               /\ \/ gpio'.iter = 1 /\ gpio'.test = 0
                  \/ gpio.iter <= FastTicks /\ gpio'.iter = gpio.iter + 1 /\ gpio'.test = gpio.test
            \/ /\ ~gpio'.sos /\ gpio.pause <= PauseTicks
               /\ gpio'.iter = 0 /\ gpio'.pause = gpio.pause + 1
               /\ gpio'.test = IF gpio.pause = 0 THEN UpTo(gpio.test + 1, Presses + 2)
                               ELSE gpio.test
         /\ seen'.held = IF gpio'.sos THEN UpTo(seen.held + 1, FastTicks + 2) ELSE 0
         /\ seen'.idle = IF gpio'.sos THEN 0 ELSE UpTo(seen.idle + 1, PauseTicks + 3)
         /\ seen'.series = IF seen.idle > PauseTicks + 1 THEN 0
                           ELSE IF ~gpio'.sos /\ seen.held \in 1..(FastTicks + 1)
                                  THEN UpTo(seen.series + 1, Presses)
                           ELSE IF ~gpio'.sos /\ seen.held > 0 THEN 0 ELSE seen.series
<1>. DEFINE g4 == ServiceState(KL15State(StuckSos(SosState(in)), in), in)
            g5 == ManualSos(g4)
            g6 == EraTestCall(g5)
<1>0. GpioTypes
  BY DEF PressesInv
<1>1. g4 \in Switches /\ Alike(g4, gpio)
  BY <1>0, SwitchesBefore
<1>2. gpio' = [g6 EXCEPT !.isInit = TRUE] /\ seen' = Seen(g6)
  BY DEF WatchProcess
<1>. HIDE DEF g4
<1>3. /\ g5 \in Switches /\ g5.sos = g4.sos
      /\ \/ Alike(g5, g4)
         \/ g4.sos /\ g5.iter = 0 /\ g5.test = 0 /\ g5.pause = 0
  BY <1>1, ManualSosDoes
<1>. HIDE DEF g5
<1>4. /\ g6 \in Switches /\ g6.sos = g5.sos
      /\ \/ g6.iter = 0 /\ g6.test = 0 /\ g6.pause = 0
         \/ /\ g5.sos /\ g5.iter <= FastTicks
            /\ g6.iter = g5.iter + 1 /\ g6.test = g5.test /\ g6.pause = 0
         \/ /\ ~g5.sos /\ g5.pause <= PauseTicks /\ g6.iter = 0 /\ g6.pause = g5.pause + 1
            /\ g6.test = IF g5.pause = 0 THEN UpTo(g5.test + 1, Presses + 2) ELSE g5.test
  BY <1>3, EraTestCallDoes
<1>. HIDE DEF g6
<1>5. /\ gpio' \in Switches /\ gpio'.sos = g6.sos
      /\ gpio'.iter = g6.iter /\ gpio'.test = g6.test /\ gpio'.pause = g6.pause
  BY <1>2, <1>4 DEF Switches
<1>6. \/ gpio'.iter = 0 /\ gpio'.test = 0 /\ gpio'.pause = 0
      \/ /\ gpio'.sos /\ gpio'.pause = 0
         /\ \/ gpio'.iter = 1 /\ gpio'.test = 0
            \/ gpio.iter <= FastTicks /\ gpio'.iter = gpio.iter + 1 /\ gpio'.test = gpio.test
      \/ /\ ~gpio'.sos /\ gpio.pause <= PauseTicks
         /\ gpio'.iter = 0 /\ gpio'.pause = gpio.pause + 1
         /\ gpio'.test = IF gpio.pause = 0 THEN UpTo(gpio.test + 1, Presses + 2) ELSE gpio.test
  <2>1. CASE Alike(g5, g4)
    <3>1. g5.iter = gpio.iter /\ g5.test = gpio.test /\ g5.pause = gpio.pause
      BY <1>1, <2>1 DEF Alike
    <3>. QED BY <1>3, <1>4, <1>5, <3>1
  <2>2. CASE g4.sos /\ g5.iter = 0 /\ g5.test = 0 /\ g5.pause = 0
    BY <1>3, <1>4, <1>5, <2>2
  <2>. QED BY <1>3, <2>1, <2>2
<1>7. /\ seen' \in Histories
      /\ seen'.held = IF gpio'.sos THEN UpTo(seen.held + 1, FastTicks + 2) ELSE 0
      /\ seen'.idle = IF gpio'.sos THEN 0 ELSE UpTo(seen.idle + 1, PauseTicks + 3)
      /\ seen'.series = IF seen.idle > PauseTicks + 1 THEN 0
                        ELSE IF ~gpio'.sos /\ seen.held \in 1..(FastTicks + 1)
                               THEN UpTo(seen.series + 1, Presses)
                        ELSE IF ~gpio'.sos /\ seen.held > 0 THEN 0 ELSE seen.series
  BY <1>0, <1>2, <1>4, <1>5, SeenTypes
<1>. QED BY <1>5, <1>6, <1>7

LEMMA CycleKeepsTypes ==
  ASSUME PressesInv, NEW in \in Lines, WatchProcess(in)
  PROVE  GpioTypes'
<1>0. GpioTypes
  BY DEF PressesInv
<1>1. unit' = unit /\ unit \in Beeps
  BY <1>0 DEF WatchProcess, GpioTypes
<1>2. gpio' \in Switches /\ seen' \in Histories
  BY CycleCounts
<1>. QED BY <1>1, <1>2 DEF GpioTypes

LEMMA PressesInvStep == PressesInv /\ [GpioNext]_gpioVars => PressesInv'
<1>. SUFFICES ASSUME PressesInv, [GpioNext]_gpioVars PROVE PressesInv'
  OBVIOUS
<1>0. GpioTypes
  BY DEF PressesInv
<1>1. ASSUME NEW in \in Lines, WatchProcess(in) PROVE PressesInv'
  <2>1. GpioTypes' /\ unit' = unit
    BY <1>1, CycleKeepsTypes DEF WatchProcess
  <2>3. PressesInv'
    <3>. DEFINE S == gpio'.sos
    <3>1. /\ gpio.iter \in Nat /\ gpio.test \in Nat /\ gpio.pause \in Nat
          /\ seen.held \in Nat /\ seen.idle \in Nat /\ seen.series \in Nat
          /\ gpio.sos \in BOOLEAN /\ S \in BOOLEAN
      BY <1>0, <2>1 DEF GpioTypes, Switches, Histories
    <3>2. /\ gpio.iter <= FastTicks + 1 /\ gpio.pause <= PauseTicks + 1
          /\ CountFits /\ PressIsTimed /\ PauseIsTimed
      BY DEF PressesInv
    <3>3. FastTicks \in Nat /\ PauseTicks \in Nat /\ Presses \in Nat \ {0}
      BY GpioAssumption
    <3>4. CASE gpio'.iter = 0 /\ gpio'.test = 0 /\ gpio'.pause = 0
      <4>1. CountFits'
        BY <2>1, <3>4 DEF CountFits, GpioTypes, Histories
      <4>2. PressIsTimed'
        BY <1>1, <3>4, CycleCounts DEF PressIsTimed
      <4>3. PauseIsTimed'
        BY <1>1, <3>4, CycleCounts DEF PauseIsTimed
      <4>. QED BY <2>1, <3>3, <3>4, <4>1, <4>2, <4>3 DEF PressesInv
    <3>5. CASE /\ S /\ gpio'.pause = 0
               /\ \/ gpio'.iter = 1 /\ gpio'.test = 0
                  \/ gpio.iter <= FastTicks /\ gpio'.iter = gpio.iter + 1 /\ gpio'.test = gpio.test
      <4>1. /\ seen'.held = UpTo(seen.held + 1, FastTicks + 2) /\ seen'.idle = 0
            /\ seen'.series = IF seen.idle > PauseTicks + 1 THEN 0 ELSE seen.series
        BY <1>1, <3>5, CycleCounts
      <4>2. CountFits'
        BY <3>1, <3>2, <3>3, <3>5, <4>1 DEF CountFits, PressIsTimed, PauseIsTimed
      <4>3. PressIsTimed'
        BY <3>1, <3>2, <3>3, <3>5, <4>1 DEF PressIsTimed, PauseIsTimed, UpTo
      <4>4. PauseIsTimed'
        BY <3>5 DEF PauseIsTimed
      <4>. QED BY <2>1, <3>1, <3>3, <3>5, <4>2, <4>3, <4>4 DEF PressesInv
    <3>6. CASE /\ ~S /\ gpio.pause <= PauseTicks
               /\ gpio'.iter = 0 /\ gpio'.pause = gpio.pause + 1
               /\ gpio'.test = IF gpio.pause = 0 THEN UpTo(gpio.test + 1, Presses + 2)
                               ELSE gpio.test
      <4>1. /\ seen'.held = 0 /\ seen'.idle = UpTo(seen.idle + 1, PauseTicks + 3)
            /\ seen'.series = IF seen.idle > PauseTicks + 1 THEN 0
                              ELSE IF seen.held \in 1..(FastTicks + 1)
                                     THEN UpTo(seen.series + 1, Presses)
                              ELSE IF seen.held > 0 THEN 0 ELSE seen.series
        BY <1>1, <3>6, CycleCounts
      <4>2. gpio'.test <= gpio.test + 1
        BY <3>1, <3>3, <3>6 DEF UpTo
      <4>3. ASSUME gpio.sos PROVE CountFits' /\ PauseIsTimed'
        <5>1. CountFits'
          BY <2>1, <3>1, <3>2, <3>3, <3>6, <4>1, <4>2, <4>3
             DEF CountFits, PressIsTimed, UpTo, GpioTypes, Switches, Histories
        <5>2. PauseIsTimed'
          BY <2>1, <3>1, <3>2, <3>3, <3>6, <4>1, <4>2, <4>3
             DEF PressIsTimed, PauseIsTimed, UpTo, GpioTypes, Switches, Histories
        <5>. QED BY <5>1, <5>2
      <4>4. ASSUME ~gpio.sos PROVE CountFits' /\ PauseIsTimed'
        <5>1. CountFits'
          BY <2>1, <3>1, <3>2, <3>3, <3>6, <4>1, <4>2, <4>4
             DEF CountFits, PauseIsTimed, UpTo, GpioTypes, Switches, Histories
        <5>2. PauseIsTimed'
          BY <2>1, <3>1, <3>2, <3>3, <3>6, <4>1, <4>2, <4>4
             DEF PauseIsTimed, UpTo, GpioTypes, Switches, Histories
        <5>. QED BY <5>1, <5>2
      <4>5. PressIsTimed'
        BY <3>6 DEF PressIsTimed
      <4>6. gpio'.iter <= FastTicks + 1 /\ gpio'.pause <= PauseTicks + 1
        BY <3>1, <3>3, <3>6
      <4>. QED BY <2>1, <4>3, <4>4, <4>5, <4>6 DEF PressesInv
    <3>. QED BY <1>1, <3>4, <3>5, <3>6, CycleCounts
  <2>. QED BY <2>3
<1>2. CASE UNCHANGED gpioVars
  BY <1>2 DEF gpioVars, PressesInv, GpioTypes, CountFits, PressIsTimed, PauseIsTimed
<1>3. CASE ButtonFailureCleared
  <2>. DEFINE c == gpio.stuck \/ Torn(gpio)
  <2>1. c \in BOOLEAN
    BY <1>0 DEF GpioTypes, Switches, Torn
  <2>2. gpio' = gpio /\ unit' = unit /\ seen' = [seen EXCEPT !.cleared = c]
    BY <1>3 DEF ButtonFailureCleared
  <2>. HIDE DEF c
  <2>3. /\ seen' \in Histories
        /\ seen'.held = seen.held /\ seen'.idle = seen.idle /\ seen'.series = seen.series
    BY <1>0, <2>1, <2>2 DEF GpioTypes, Histories
  <2>. QED BY <2>2, <2>3 DEF PressesInv, GpioTypes, CountFits, PressIsTimed, PauseIsTimed
<1>. QED BY <1>1, <1>2, <1>3 DEF GpioNext

\* An event of two rows of events is one of the first or of the second.
LEMMA SentInOne ==
  ASSUME NEW a \in Seq(GpioEvents), NEW b \in Seq(GpioEvents), NEW e, SentIn(a \o b, e)
  PROVE  SentIn(a, e) \/ SentIn(b, e)
<1>. DEFINE ab == a \o b
<1>1. PICK i \in 1..Len(ab) : ab[i] = e
  BY DEF SentIn, Contains
<1>2. CASE i \in 1..Len(a)
  <2>1. ab[i] = a[i]
    BY <1>2
  <2>. QED BY <1>1, <1>2, <2>1 DEF SentIn, Contains
<1>3. CASE i \notin 1..Len(a)
  <2>1. i - Len(a) \in 1..Len(b) /\ ab[i] = b[i - Len(a)]
    BY <1>3
  <2>. QED BY <1>1, <2>1 DEF SentIn, Contains
<1>. QED BY <1>2, <1>3

LEMMA NotSentInTwo ==
  ASSUME NEW a \in Seq(GpioEvents), NEW b \in Seq(GpioEvents), NEW e, ~SentIn(a, e), ~SentIn(b, e)
  PROVE  a \o b \in Seq(GpioEvents) /\ ~SentIn(a \o b, e)
<1>1. a \o b \in Seq(GpioEvents)
  OBVIOUS
<1>. QED BY <1>1, SentInOne

LEMMA OneEvent ==
  ASSUME NEW x \in GpioEvents
  PROVE  /\ <<x>> \in Seq(GpioEvents) /\ <<>> \in Seq(GpioEvents)
         /\ \A e : SentIn(<<x>>, e) => e = x
         /\ \A e : ~SentIn(<<>>, e)
<1>1. <<x>> \in Seq(GpioEvents)
  OBVIOUS
<1>4. <<>> \in Seq(GpioEvents)
  OBVIOUS
<1>2. ASSUME NEW e, SentIn(<<x>>, e) PROVE e = x
  <2>1. Len(<<x>>) = 1
    OBVIOUS
  <2>4. <<x>>[1] = x
    OBVIOUS
  <2>2. PICK i \in 1..Len(<<x>>) : <<x>>[i] = e
    BY <1>2 DEF SentIn, Contains
  <2>3. i = 1
    BY <2>1, <2>2
  <2>. QED BY <2>4, <2>2, <2>3
<1>3. ASSUME NEW e, SentIn(<<>>, e) PROVE FALSE
  BY <1>3 DEF SentIn, Contains
<1>. QED BY <1>1, <1>2, <1>3, <1>4

LEMMA OtherEvent ==
  ASSUME NEW c, NEW x \in GpioEvents, NEW e, x # e
  PROVE  When(c, x) \in Seq(GpioEvents) /\ ~SentIn(When(c, x), e)
<1>1. CASE c
  <2>1. When(c, x) = <<x>>
    BY <1>1 DEF When
  <2>. QED BY <2>1, OneEvent
<1>2. CASE ~c
  <2>1. When(c, x) = <<>>
    BY <1>2 DEF When
  <2>. QED BY <2>1, OneEvent
<1>. QED BY <1>1, <1>2

LEMMA TestIsOrdered ==
  ASSUME NEW in \in Lines, WatchProcess(in), SentIn(sent', "EV_ECALL_TEST_ERA_STARTED")
  PROVE  TestOrdered(ManualSos(ServiceState(KL15State(StuckSos(SosState(in)), in), in)))
<1>. DEFINE T == "EV_ECALL_TEST_ERA_STARTED"
            g1 == SosState(in)
            g2 == StuckSos(g1)
            g3 == KL15State(g2, in)
            g4 == ServiceState(g3, in)
            sos == SosEvents(in)
            stuck == StuckEvents(g1)
            kl15 == KL15Events(g2, g3)
            service == ServiceEvents(g3, in)
            manual == When(Calls(g4), "EV_ECALL_MANUAL_SOS")
            order == When(TestOrdered(ManualSos(g4)), T)
<1>0. /\ {"EV_DIAG_SOS_ON", "EV_DIAG_SOS_OFF", "EV_SOS_BTN_PRESSED", "EV_SOS_STUCK",
           "EV_SOS_UNSTUCK", "EV_T15_ON", "EV_T15_OFF", "EV_SERVICE_BTN_ON",
           "EV_ECALL_MANUAL_SOS"} = GpioEvents \ {T}
      /\ T \in GpioEvents
  BY DEF GpioEvents
<1>1. sent' = sos \o stuck \o kl15 \o service \o manual \o order
  BY DEF WatchProcess
<1>2. sos \in Seq(GpioEvents) /\ ~SentIn(sos, T)
  <2>. DEFINE x == IF DiagNow(in) THEN "EV_DIAG_SOS_ON" ELSE "EV_DIAG_SOS_OFF"
              wire == When(DiagNow(in) # gpio.diag \/ ~gpio.isInit, x)
              button == When(SosNow(in) /\ (~gpio.sos \/ ~gpio.isInit), "EV_SOS_BTN_PRESSED")
  <2>1. sos = IF unit = "standard" THEN button \o wire ELSE wire \o button
    BY DEF SosEvents
  <2>2. wire \in Seq(GpioEvents) /\ ~SentIn(wire, T)
    <3>1. x \in GpioEvents /\ x # T
      BY <1>0
    <3>. HIDE DEF x
    <3>. QED BY <3>1, OtherEvent, Zenon
  <2>3. button \in Seq(GpioEvents) /\ ~SentIn(button, T)
    BY <1>0, OtherEvent, Zenon
  <2>. HIDE DEF wire, button, sos, T
  <2>4. button \o wire \in Seq(GpioEvents) /\ ~SentIn(button \o wire, T)
    BY <2>2, <2>3, NotSentInTwo
  <2>5. wire \o button \in Seq(GpioEvents) /\ ~SentIn(wire \o button, T)
    BY <2>2, <2>3, NotSentInTwo
  <2>. QED BY <2>1, <2>4, <2>5
<1>3. stuck \in Seq(GpioEvents) /\ ~SentIn(stuck, T)
  <2>. DEFINE a == When(g1.sos /\ g1.stuckCnt + 1 = StuckTicks, "EV_SOS_STUCK")
              b == When(~g1.sos /\ g1.stuck, "EV_SOS_UNSTUCK")
  <2>1. stuck = a \o b
    BY DEF StuckEvents
  <2>. HIDE DEF g1
  <2>2. a \in Seq(GpioEvents) /\ ~SentIn(a, T)
    BY <1>0, OtherEvent, Zenon
  <2>3. b \in Seq(GpioEvents) /\ ~SentIn(b, T)
    BY <1>0, OtherEvent, Zenon
  <2>. HIDE DEF a, b, stuck, T
  <2>. QED BY <2>1, <2>2, <2>3, NotSentInTwo
<1>4. kl15 \in Seq(GpioEvents) /\ ~SentIn(kl15, T)
  <2>. DEFINE a == When(~g2.ignition /\ g3.ignition, "EV_T15_ON")
              b == When(g2.ignition /\ ~g3.ignition, "EV_T15_OFF")
  <2>1. kl15 = a \o b
    BY DEF KL15Events
  <2>. HIDE DEF g2, g3
  <2>2. a \in Seq(GpioEvents) /\ ~SentIn(a, T)
    BY <1>0, OtherEvent, Zenon
  <2>3. b \in Seq(GpioEvents) /\ ~SentIn(b, T)
    BY <1>0, OtherEvent, Zenon
  <2>. HIDE DEF a, b, kl15, T
  <2>. QED BY <2>1, <2>2, <2>3, NotSentInTwo
<1>5. service \in Seq(GpioEvents) /\ ~SentIn(service, T)
  BY <1>0, OtherEvent, Zenon DEF ServiceEvents
<1>6. manual \in Seq(GpioEvents) /\ ~SentIn(manual, T)
  BY <1>0, OtherEvent, Zenon
<1>7. order \in Seq(GpioEvents) /\ (SentIn(order, T) => TestOrdered(ManualSos(g4)))
  BY <1>0, OneEvent, Zenon DEF When
<1>8. SentIn(sent', T)
  OBVIOUS
<1>. HIDE DEF sos, stuck, kl15, service, manual, order, T
<1>9. sos \o stuck \in Seq(GpioEvents) /\ ~SentIn(sos \o stuck, T)
  BY <1>2, <1>3, NotSentInTwo
<1>10. sos \o stuck \o kl15 \in Seq(GpioEvents) /\ ~SentIn(sos \o stuck \o kl15, T)
  BY <1>4, <1>9, NotSentInTwo
<1>11. /\ sos \o stuck \o kl15 \o service \in Seq(GpioEvents)
       /\ ~SentIn(sos \o stuck \o kl15 \o service, T)
  BY <1>5, <1>10, NotSentInTwo
<1>12. /\ sos \o stuck \o kl15 \o service \o manual \in Seq(GpioEvents)
       /\ ~SentIn(sos \o stuck \o kl15 \o service \o manual, T)
  BY <1>6, <1>11, NotSentInTwo
<1>13. SentIn(order, T)
  BY <1>1, <1>7, <1>8, <1>12, SentInOne
<1>. QED BY <1>7, <1>13

LEMMA PressesCounted ==
  PressesInv /\ [GpioNext]_gpioVars
    => [SentIn(sent', "EV_ECALL_TEST_ERA_STARTED") => seen.series >= Presses]_gpioVars
<1>1. ASSUME ButtonFailureCleared PROVE ~SentIn(sent', "EV_ECALL_TEST_ERA_STARTED")
  <2>1. sent' = <<>> /\ "EV_SOS_STUCK" \in GpioEvents
    BY <1>1 DEF ButtonFailureCleared, GpioEvents
  <2>. QED BY <2>1, OneEvent
<1>. SUFFICES ASSUME PressesInv, NEW in \in Lines, WatchProcess(in),
                     SentIn(sent', "EV_ECALL_TEST_ERA_STARTED")
              PROVE  seen.series >= Presses
  BY <1>1 DEF GpioNext
<1>. DEFINE g4 == ServiceState(KL15State(StuckSos(SosState(in)), in), in)
            g5 == ManualSos(g4)
<1>0. GpioTypes /\ CountFits
  BY DEF PressesInv
<1>6. g4 \in Switches /\ Alike(g4, gpio)
  BY <1>0, SwitchesBefore
<1>2. TestOrdered(g5)
  BY TestIsOrdered
<1>. HIDE DEF g4
<1>3. g5.sos = g4.sos /\ (Alike(g5, g4) \/ g4.sos)
  BY <1>6, ManualSosDoes
<1>. HIDE DEF g5
<1>4. gpio.test = Presses + 1
  BY <1>6, <1>2, <1>3 DEF TestOrdered, Alike
<1>5. Presses \in Nat /\ seen.series \in Nat
  BY <1>0, TicksAreNat DEF GpioTypes, Histories
<1>. QED BY <1>0, <1>4, <1>5 DEF CountFits

\* The self-test starts after as many short presses in a row as it should, for any number of presses and any lengths of presses and pauses.
THEOREM TestNeverTooEarly == GpioSpec => TestAfterPresses
<1>1. GpioInit => PressesInv
  BY PressesInvInit
<1>2. PressesInv /\ [GpioNext]_gpioVars => PressesInv'
  BY PressesInvStep
<1>3. PressesInv /\ [GpioNext]_gpioVars
        => [SentIn(sent', "EV_ECALL_TEST_ERA_STARTED") => seen.series >= Presses]_gpioVars
  BY PressesCounted
<1>. QED BY <1>1, <1>2, <1>3, PTL DEF GpioSpec, TestAfterPresses

----------------------------------------------------------------------------
(* The failure of the button.                                              *)

\* Leaves(w, s, v): of a failure that was w, the events s make v.  The last of those that
\* set or clear it decides, and without any it stays.
Decides(s, i) ==
  /\ i \in 1..Len(s) /\ s[i] \in Sets \cup Clears
  /\ \A j \in 1..Len(s) : s[j] \in Sets \cup Clears => j <= i

Leaves(w, s, v) ==
  \/ v = w /\ \A i \in 1..Len(s) : s[i] \notin Sets \cup Clears
  \/ \E i \in 1..Len(s) : Decides(s, i) /\ v = (s[i] \in Sets)

\* That is what gpio_cb leaves.
LEMMA LeftByEvents ==
  ASSUME NEW s \in Seq(GpioEvents), NEW w \in BOOLEAN, NEW v \in BOOLEAN, Leaves(w, s, v)
  PROVE  BreakAfter(w, s) = v
<1>. DEFINE calls == {i \in 1..Len(s) : s[i] \in Sets \cup Clears}
            k == CHOOSE i \in calls : \A j \in calls : j <= i
<1>1. CASE v = w /\ \A i \in 1..Len(s) : s[i] \notin Sets \cup Clears
  <2>1. calls = {}
    BY <1>1
  <2>. QED BY <1>1, <2>1 DEF BreakAfter
<1>2. ASSUME NEW i \in 1..Len(s), Decides(s, i), v = (s[i] \in Sets) PROVE BreakAfter(w, s) = v
  <2>1. i \in calls /\ \A j \in calls : j <= i
    BY <1>2 DEF Decides
  <2>2. k \in calls /\ \A j \in calls : j <= k
    BY <2>1
  <2>3. i <= k /\ k <= i
    BY <2>1, <2>2
  <2>4. i \in Nat /\ k \in Nat
    BY <2>2
  <2>5. k = i
    BY <2>3, <2>4
  <2>6. BreakAfter(w, s) = (s[k] \in Sets)
    BY <2>1 DEF BreakAfter
  <2>. QED BY <1>2, <2>5, <2>6
<1>. QED BY <1>1, <1>2 DEF Leaves

\* Of two rows of events, one after the other.
LEMMA LeftByTwo ==
  ASSUME NEW a \in Seq(GpioEvents), NEW b \in Seq(GpioEvents), NEW w, NEW v, NEW u,
         Leaves(w, a, v), Leaves(v, b, u)
  PROVE  a \o b \in Seq(GpioEvents) /\ Leaves(w, a \o b, u)
<1>. DEFINE ab == a \o b
<1>0. /\ ab \in Seq(GpioEvents) /\ Len(ab) = Len(a) + Len(b)
      /\ Len(a) \in Nat /\ Len(b) \in Nat
      /\ \A i \in 1..Len(a) : ab[i] = a[i]
      /\ \A i \in 1..Len(b) : ab[Len(a) + i] = b[i]
  <2>1. Len(a) \in Nat /\ Len(b) \in Nat
    OBVIOUS
  <2>2. a \o b \in Seq(GpioEvents) /\ Len(a \o b) = Len(a) + Len(b)
    OBVIOUS
  <2>3. ASSUME NEW i \in 1..Len(a) PROVE (a \o b)[i] = a[i]
    BY <2>1
  <2>4. ASSUME NEW i \in 1..Len(b) PROVE (a \o b)[Len(a) + i] = b[i]
    BY <2>1
  <2>. QED BY <2>1, <2>2, <2>3, <2>4
<1>1. \A i \in 1..Len(ab) : \/ i \in 1..Len(a) /\ ab[i] = a[i]
                            \/ i - Len(a) \in 1..Len(b) /\ ab[i] = b[i - Len(a)]
  <2>. SUFFICES ASSUME NEW i \in 1..Len(ab), i \notin 1..Len(a)
                PROVE  i - Len(a) \in 1..Len(b) /\ ab[i] = b[i - Len(a)]
    BY <1>0
  <2>1. i - Len(a) \in 1..Len(b) /\ i = Len(a) + (i - Len(a))
    BY <1>0
  <2>. QED BY <1>0, <2>1
<1>. HIDE DEF ab
<1>2. CASE u = v /\ \A i \in 1..Len(b) : b[i] \notin Sets \cup Clears
  <2>1. CASE v = w /\ \A i \in 1..Len(a) : a[i] \notin Sets \cup Clears
    <3>1. u = w
      BY <1>2, <2>1
    <3>2. \A i \in 1..Len(ab) : ab[i] \notin Sets \cup Clears
      BY <1>1, <1>2, <2>1
    <3>3. Leaves(w, ab, u)
      BY <3>1, <3>2 DEF Leaves
    <3>. QED BY <1>0, <3>3 DEF ab
  <2>2. ASSUME NEW i \in 1..Len(a), Decides(a, i), v = (a[i] \in Sets) PROVE Leaves(w, ab, u)
    <3>1. i \in 1..Len(ab) /\ ab[i] = a[i]
      BY <1>0
    <3>2. \A j \in 1..Len(ab) : ab[j] \in Sets \cup Clears => j \in 1..Len(a) /\ ab[j] = a[j]
      BY <1>1, <1>2
    <3>3. Decides(ab, i)
      BY <2>2, <3>1, <3>2 DEF Decides
    <3>. QED BY <1>2, <2>2, <3>1, <3>3 DEF Leaves
  <2>. QED BY <1>0, <2>1, <2>2 DEF Leaves, ab
<1>3. ASSUME NEW i \in 1..Len(b), Decides(b, i), u = (b[i] \in Sets) PROVE Leaves(w, ab, u)
  <2>. DEFINE k == Len(a) + i
  <2>1. k \in 1..Len(ab) /\ ab[k] = b[i]
    BY <1>0
  <2>2. ASSUME NEW j \in 1..Len(ab), ab[j] \in Sets \cup Clears PROVE j <= k
    <3>1. CASE j \in 1..Len(a)
      BY <1>0, <3>1
    <3>2. CASE j - Len(a) \in 1..Len(b) /\ ab[j] = b[j - Len(a)]
      <4>1. j - Len(a) <= i
        BY <1>3, <2>2, <3>2 DEF Decides
      <4>. QED BY <1>0, <4>1
    <3>. QED BY <1>1, <3>1, <3>2
  <2>3. Decides(ab, k)
    BY <1>3, <2>1, <2>2 DEF Decides
  <2>. QED BY <1>3, <2>1, <2>3 DEF Leaves
<1>. QED BY <1>0, <1>2, <1>3 DEF Leaves, ab

\* Of one event that may be sent.
LEMMA LeftByOne ==
  ASSUME NEW c, NEW x \in GpioEvents, NEW w
  PROVE  /\ When(c, x) \in Seq(GpioEvents)
         /\ x \in Sets => Leaves(w, When(c, x), IF c THEN TRUE ELSE w)
         /\ x \in Clears => Leaves(w, When(c, x), IF c THEN FALSE ELSE w)
         /\ x \notin Sets \cup Clears => Leaves(w, When(c, x), w)
<1>0. Sets \cap Clears = {}
  BY DEF Sets, Clears
<1>1. CASE c
  <2>1. When(c, x) = <<x>>
    BY <1>1 DEF When
  <2>2. <<x>> \in Seq(GpioEvents) /\ Len(<<x>>) = 1 /\ <<x>>[1] = x
    OBVIOUS
  <2>. DEFINE s == <<x>>
  <2>. HIDE DEF s
  <2>3. s \in Seq(GpioEvents) /\ Len(s) = 1 /\ s[1] = x
    BY <2>2 DEF s
  <2>4. ASSUME x \in Sets \cup Clears PROVE Leaves(w, s, x \in Sets)
    <3>1. Decides(s, 1)
      BY <2>3, <2>4 DEF Decides
    <3>2. 1 \in 1..Len(s) /\ (x \in Sets) = (s[1] \in Sets)
      BY <2>3
    <3>. QED BY <3>1, <3>2 DEF Leaves
  <2>5. x \in Sets => (x \in Sets) = TRUE
    OBVIOUS
  <2>6. x \in Clears => (x \in Sets) = FALSE
    BY <1>0
  <2>7. x \notin Sets \cup Clears => Leaves(w, s, w)
    BY <2>3 DEF Leaves
  <2>. QED BY <1>1, <2>1, <2>3, <2>4, <2>5, <2>6, <2>7 DEF s
<1>2. CASE ~c
  <2>1. When(c, x) = <<>>
    BY <1>2 DEF When
  <2>2. <<>> \in Seq(GpioEvents) /\ Len(<<>>) = 0
    OBVIOUS
  <2>3. Leaves(w, <<>>, w)
    BY <2>2 DEF Leaves
  <2>. QED BY <1>2, <2>1, <2>2, <2>3
<1>. QED BY <1>1, <1>2

\* Of an event that has nothing to do with the failure.
LEMMA LeftByOther ==
  ASSUME NEW c, NEW x \in GpioEvents, x \notin Sets \cup Clears, NEW w
  PROVE  When(c, x) \in Seq(GpioEvents) /\ Leaves(w, When(c, x), w)
BY LeftByOne

\* The failure and what is known of the button.
TruthTypes == PressesInv /\ sosBreak \in BOOLEAN

\* A button that sticks is down, so it is not torn off, and has been so for long.  What is
\* remembered of a failure is forgotten with it.
TruthInv ==
  /\ gpio.stuck => gpio.sos /\ gpio.diag /\ gpio.isInit /\ gpio.stuckCnt >= StuckTicks
  /\ seen.cleared => gpio.stuck \/ Torn(gpio)
  /\ seen.straight => Torn(gpio)

\* What the later parts of a cycle leave as it is.
SameButton(g, h) ==
  g.sos = h.sos /\ g.diag = h.diag /\ g.stuck = h.stuck /\ g.stuckCnt = h.stuckCnt

LEMMA ButtonIsKept ==
  ASSUME NEW g \in Switches, NEW in \in Lines
  PROVE  /\ SameButton(KL15State(g, in), g) /\ SameButton(ServiceState(g, in), g)
         /\ SameButton(ManualSos(g), g) /\ SameButton(EraTestCall(g), g)
<1>1. SameButton(KL15State(g, in), g)
  BY DEF KL15State, SameButton, Switches
<1>2. SameButton(ServiceState(g, in), g)
  BY DEF ServiceState, SameButton, Switches
<1>3. SameButton(ResetTest(g), g) /\ ResetTest(g) \in Switches
  BY DEF ResetTest, SameButton, Switches
<1>4. SameButton(ManualSos(g), g)
  BY <1>3 DEF ManualSos, SameButton, Switches
<1>5. SameButton(EraTestCall(g), g)
  BY <1>3 DEF EraTestCall, SameButton, Switches
<1>. QED BY <1>1, <1>2, <1>4, <1>5

\* What a cycle tells of the button.
FoundOn(in) == DiagNow(in) /\ (~gpio.diag \/ ~gpio.isInit)
FoundOff(in) == ~DiagNow(in) /\ (gpio.diag \/ ~gpio.isInit)
FoundStuck(in) == SosNow(in) /\ gpio.stuckCnt + 1 = StuckTicks
FoundFree(in) == ~SosNow(in) /\ gpio.stuck

LEMMA ButtonOfCycle ==
  ASSUME GpioTypes, NEW in \in Lines, WatchProcess(in)
  PROVE  /\ gpio'.sos = SosNow(in) /\ gpio'.diag = DiagNow(in) /\ gpio'.isInit
         /\ gpio'.stuck = IF SosNow(in) THEN gpio.stuck \/ gpio.stuckCnt + 1 = StuckTicks ELSE FALSE
         /\ gpio'.stuckCnt = IF SosNow(in) THEN UpTo(gpio.stuckCnt + 1, StuckTicks + 1) ELSE 0
         /\ seen'.cleared = (seen.cleared /\ ((gpio.stuck /\ gpio'.stuck)
                                              \/ (Torn(gpio) /\ ~gpio'.diag)))
         /\ seen'.straight = (~gpio'.diag /\ (seen.straight \/ gpio.stuck))
<1>. DEFINE g1 == SosState(in)
            g2 == StuckSos(g1)
            g3 == KL15State(g2, in)
            g4 == ServiceState(g3, in)
            g5 == ManualSos(g4)
            g6 == EraTestCall(g5)
            n == UpTo(g1.stuckCnt + 1, StuckTicks + 1)
            st == g1.stuck \/ g1.stuckCnt + 1 = StuckTicks
<1>1. g1 \in Switches /\ g2 \in Switches /\ g3 \in Switches /\ g4 \in Switches
  BY SwitchesBefore
<1>2. /\ g1.sos = SosNow(in) /\ g1.diag = DiagNow(in)
      /\ g1.stuck = gpio.stuck /\ g1.stuckCnt = gpio.stuckCnt
  BY DEF SosState, GpioTypes, Switches
<1>3. /\ gpio' = [g6 EXCEPT !.isInit = TRUE] /\ seen' = Seen(g6)
  BY DEF WatchProcess
<1>4. g2 = IF g1.sos THEN [g1 EXCEPT !.stuckCnt = n, !.stuck = st]
           ELSE [g1 EXCEPT !.stuckCnt = 0, !.stuck = FALSE]
  BY DEF StuckSos
<1>. HIDE DEF g1, n
<1>6. /\ g2.sos = g1.sos /\ g2.diag = g1.diag /\ g2.stuck = IF g1.sos THEN st ELSE FALSE
      /\ g2.stuckCnt = IF g1.sos THEN n ELSE 0
  BY <1>1, <1>4 DEF Switches
<1>. HIDE DEF g2
<1>7. SameButton(g3, g2)
  BY <1>1, ButtonIsKept
<1>. HIDE DEF g3
<1>8. SameButton(g4, g3)
  BY <1>1, ButtonIsKept
<1>. HIDE DEF g4
<1>9. g5 \in Switches /\ SameButton(g5, g4)
  BY <1>1, ManualSosDoes, ButtonIsKept
<1>. HIDE DEF g5
<1>10. g6 \in Switches /\ SameButton(g6, g5)
  BY <1>9, EraTestCallDoes, ButtonIsKept
<1>. HIDE DEF g6
<1>11. SameButton(gpio', g6) /\ gpio'.isInit
  BY <1>3, <1>10 DEF SameButton, Switches
<1>12. /\ seen'.cleared = (seen.cleared /\ ((gpio.stuck /\ g6.stuck)
                                            \/ (Torn(gpio) /\ ~g6.diag)))
       /\ seen'.straight = (~g6.diag /\ (seen.straight \/ gpio.stuck))
  BY <1>3, <1>10, SeenTypes
<1>. QED BY <1>2, <1>6, <1>7, <1>8, <1>9, <1>10, <1>11, <1>12 DEF SameButton, n

\* The events of a cycle: what it finds about the button is sent, and the last of it stays.
LEMMA EventsOfCycle ==
  ASSUME GpioTypes, sosBreak \in BOOLEAN, NEW in \in Lines, WatchProcess(in)
  PROVE  /\ sosBreak' = IF FoundFree(in) THEN FALSE ELSE IF FoundStuck(in) THEN TRUE
                        ELSE IF FoundOff(in) THEN TRUE ELSE IF FoundOn(in) THEN FALSE
                        ELSE sosBreak
         /\ sent' \in Seq(GpioEvents) /\ sosBreak' \in BOOLEAN
<1>. DEFINE Off == "EV_DIAG_SOS_OFF"
            On == "EV_DIAG_SOS_ON"
            g1 == SosState(in)
            g2 == StuckSos(g1)
            g3 == KL15State(g2, in)
            g4 == ServiceState(g3, in)
            g5 == ManualSos(g4)
            x == IF DiagNow(in) THEN On ELSE Off
            e1 == When(DiagNow(in) # gpio.diag \/ ~gpio.isInit, x)
            e3 == When(SosNow(in) /\ (~gpio.sos \/ ~gpio.isInit), "EV_SOS_BTN_PRESSED")
            e4 == When(FoundStuck(in), "EV_SOS_STUCK")
            e5 == When(FoundFree(in), "EV_SOS_UNSTUCK")
            e6 == When(~g2.ignition /\ g3.ignition, "EV_T15_ON")
            e7 == When(g2.ignition /\ ~g3.ignition, "EV_T15_OFF")
            e8 == ServiceEvents(g3, in)
            e9 == When(Calls(g4), "EV_ECALL_MANUAL_SOS")
            e10 == When(TestOrdered(g5), "EV_ECALL_TEST_ERA_STARTED")
            w2 == IF FoundOff(in) THEN TRUE ELSE IF FoundOn(in) THEN FALSE ELSE sosBreak
            w4 == IF FoundStuck(in) THEN TRUE ELSE w2
            w5 == IF FoundFree(in) THEN FALSE ELSE w4
            first == IF unit = "standard" THEN e3 \o e1 ELSE e1 \o e3
            button == first \o (e4 \o e5)
            all == (((button \o (e6 \o e7)) \o e8) \o e9) \o e10
<1>1. sent' = all /\ sosBreak' = BreakAfter(sosBreak, all)
  <2>1. SosEvents(in) = first
    BY DEF SosEvents
  <2>2. StuckEvents(g1) = e4 \o e5
    <3>1. g1.sos = SosNow(in) /\ g1.stuck = gpio.stuck /\ g1.stuckCnt = gpio.stuckCnt
      BY DEF SosState, GpioTypes, Switches
    <3>. HIDE DEF g1
    <3>. QED BY <3>1 DEF StuckEvents, FoundStuck, FoundFree
  <2>3. KL15Events(g2, g3) = e6 \o e7
    BY DEF KL15Events
  <2>. QED BY <2>1, <2>2, <2>3 DEF WatchProcess
<1>2. /\ Off \in Sets /\ On \in Clears /\ "EV_SOS_STUCK" \in Sets /\ "EV_SOS_UNSTUCK" \in Clears
      /\ {"EV_SOS_BTN_PRESSED", "EV_T15_ON", "EV_T15_OFF", "EV_SERVICE_BTN_ON",
          "EV_ECALL_MANUAL_SOS", "EV_ECALL_TEST_ERA_STARTED"} \subseteq GpioEvents \ (Sets \cup Clears)
      /\ Sets \cup Clears \subseteq GpioEvents
  BY DEF Sets, Clears, GpioEvents
<1>3. e1 \in Seq(GpioEvents) /\ Leaves(sosBreak, e1, w2)
  <2>1. /\ Off \in GpioEvents /\ On \in GpioEvents /\ Off \in Sets /\ On \in Clears
        /\ gpio.diag \in BOOLEAN /\ DiagNow(in) \in BOOLEAN
    BY <1>2 DEF GpioTypes, Switches, DiagNow
  <2>2. CASE DiagNow(in)
    <3>1. e1 = When(FoundOn(in), On) /\ w2 = IF FoundOn(in) THEN FALSE ELSE sosBreak
      BY <2>1, <2>2 DEF FoundOn, FoundOff
    <3>. HIDE DEF e1, w2, On
    <3>. QED BY <2>1, <3>1, LeftByOne
  <2>3. CASE ~DiagNow(in)
    <3>1. e1 = When(FoundOff(in), Off) /\ w2 = IF FoundOff(in) THEN TRUE ELSE sosBreak
      BY <2>1, <2>3 DEF FoundOn, FoundOff
    <3>. HIDE DEF e1, w2, Off
    <3>. QED BY <2>1, <3>1, LeftByOne
  <2>. QED BY <2>2, <2>3
<1>5. e3 \in Seq(GpioEvents) /\ Leaves(w2, e3, w2) /\ Leaves(sosBreak, e3, sosBreak)
  BY <1>2, LeftByOther, Zenon
<1>6. e4 \in Seq(GpioEvents) /\ Leaves(w2, e4, w4)
  BY <1>2, LeftByOne, Zenon
<1>7. e5 \in Seq(GpioEvents) /\ Leaves(w4, e5, w5)
  BY <1>2, LeftByOne, Zenon
<1>8. e6 \in Seq(GpioEvents) /\ Leaves(w5, e6, w5)
  BY <1>2, LeftByOther, Zenon
<1>9. e7 \in Seq(GpioEvents) /\ Leaves(w5, e7, w5)
  BY <1>2, LeftByOther, Zenon
<1>10. e8 \in Seq(GpioEvents) /\ Leaves(w5, e8, w5)
  BY <1>2, LeftByOther, Zenon DEF ServiceEvents
<1>11. e9 \in Seq(GpioEvents) /\ Leaves(w5, e9, w5)
  <2>1. "EV_ECALL_MANUAL_SOS" \in GpioEvents /\ "EV_ECALL_MANUAL_SOS" \notin Sets \cup Clears
    BY <1>2
  <2>. HIDE DEF w5, g4, g5
  <2>. QED BY <2>1, LeftByOther, Zenon
<1>12. e10 \in Seq(GpioEvents) /\ Leaves(w5, e10, w5)
  <2>1. /\ "EV_ECALL_TEST_ERA_STARTED" \in GpioEvents
        /\ "EV_ECALL_TEST_ERA_STARTED" \notin Sets \cup Clears
    BY <1>2
  <2>. HIDE DEF w5, g4, g5
  <2>. QED BY <2>1, LeftByOther, Zenon
<1>13. w5 \in BOOLEAN
  OBVIOUS
<1>. HIDE DEF e1, e3, e4, e5, e6, e7, e8, e9, e10, w2, w4, w5
<1>14. first \in Seq(GpioEvents) /\ Leaves(sosBreak, first, w2)
  <2>1. e1 \o e3 \in Seq(GpioEvents) /\ Leaves(sosBreak, e1 \o e3, w2)
    BY <1>3, <1>5, LeftByTwo
  <2>2. e3 \o e1 \in Seq(GpioEvents) /\ Leaves(sosBreak, e3 \o e1, w2)
    BY <1>3, <1>5, LeftByTwo
  <2>. QED BY <2>1, <2>2
<1>16. e4 \o e5 \in Seq(GpioEvents) /\ Leaves(w2, e4 \o e5, w5)
  BY <1>6, <1>7, LeftByTwo
<1>. HIDE DEF first
<1>17. button \in Seq(GpioEvents) /\ Leaves(sosBreak, button, w5)
  BY <1>14, <1>16, LeftByTwo
<1>18. e6 \o e7 \in Seq(GpioEvents) /\ Leaves(w5, e6 \o e7, w5)
  BY <1>8, <1>9, LeftByTwo
<1>. HIDE DEF button
<1>19. button \o (e6 \o e7) \in Seq(GpioEvents) /\ Leaves(sosBreak, button \o (e6 \o e7), w5)
  BY <1>17, <1>18, LeftByTwo
<1>. DEFINE s8 == (button \o (e6 \o e7)) \o e8
            s9 == s8 \o e9
<1>20. s8 \in Seq(GpioEvents) /\ Leaves(sosBreak, s8, w5)
  BY <1>10, <1>19, LeftByTwo
<1>. HIDE DEF s8
<1>21. s9 \in Seq(GpioEvents) /\ Leaves(sosBreak, s9, w5)
  BY <1>11, <1>20, LeftByTwo
<1>. HIDE DEF s9
<1>22. s9 \o e10 \in Seq(GpioEvents) /\ Leaves(sosBreak, s9 \o e10, w5)
  BY <1>12, <1>21, LeftByTwo
<1>23. all = s9 \o e10
  BY DEF s8, s9
<1>. HIDE DEF all
<1>24. sosBreak' = w5
  BY <1>1, <1>13, <1>22, <1>23, LeftByEvents
<1>25. w5 = IF FoundFree(in) THEN FALSE ELSE IF FoundStuck(in) THEN TRUE
            ELSE IF FoundOff(in) THEN TRUE ELSE IF FoundOn(in) THEN FALSE ELSE sosBreak
  BY DEF w2, w4, w5
<1>. QED BY <1>1, <1>13, <1>22, <1>23, <1>24, <1>25

LEMMA TruthInvStep ==
  TruthTypes /\ TruthInv /\ FailureTellsTruth /\ [GpioNext]_gpioVars
    => (sosBreak \in BOOLEAN /\ TruthInv /\ FailureTellsTruth)'
<1>. SUFFICES ASSUME TruthTypes, TruthInv, FailureTellsTruth, [GpioNext]_gpioVars
              PROVE  (sosBreak \in BOOLEAN /\ TruthInv /\ FailureTellsTruth)'
  OBVIOUS
<1>0. /\ GpioTypes /\ sosBreak \in BOOLEAN
      /\ gpio.sos \in BOOLEAN /\ gpio.diag \in BOOLEAN /\ gpio.stuck \in BOOLEAN
      /\ gpio.isInit \in BOOLEAN /\ seen.cleared \in BOOLEAN /\ seen.straight \in BOOLEAN
      /\ gpio.stuckCnt \in Nat /\ StuckTicks \in Nat
  BY GpioAssumption DEF TruthTypes, PressesInv, GpioTypes, Switches, Histories
<1>1. ASSUME NEW in \in Lines, WatchProcess(in)
      PROVE  (sosBreak \in BOOLEAN /\ TruthInv /\ FailureTellsTruth)'
  <2>. DEFINE sos == SosNow(in)
              diag == DiagNow(in)
              stuck == gpio.stuckCnt + 1 = StuckTicks
  <2>1. /\ gpio'.sos = sos /\ gpio'.diag = diag /\ gpio'.isInit
        /\ gpio'.stuck = IF sos THEN gpio.stuck \/ stuck ELSE FALSE
        /\ gpio'.stuckCnt = IF sos THEN UpTo(gpio.stuckCnt + 1, StuckTicks + 1) ELSE 0
        /\ seen'.cleared = (seen.cleared /\ ((gpio.stuck /\ gpio'.stuck)
                                             \/ (Torn(gpio) /\ ~gpio'.diag)))
        /\ seen'.straight = (~gpio'.diag /\ (seen.straight \/ gpio.stuck))
    BY <1>0, <1>1, ButtonOfCycle
  <2>2. sosBreak' = IF ~sos /\ gpio.stuck THEN FALSE ELSE IF sos /\ stuck THEN TRUE
                    ELSE IF ~diag /\ (gpio.diag \/ ~gpio.isInit) THEN TRUE
                    ELSE IF diag /\ (~gpio.diag \/ ~gpio.isInit) THEN FALSE ELSE sosBreak
    BY <1>0, <1>1, EventsOfCycle DEF FoundFree, FoundStuck, FoundOn, FoundOff
  <2>3. sos \in BOOLEAN /\ diag \in BOOLEAN /\ stuck \in BOOLEAN /\ (sos => diag)
    BY DEF SosNow, DiagNow
  <2>4. /\ sosBreak = (~seen.cleared /\ (gpio.stuck \/ (gpio.isInit /\ ~gpio.diag /\ ~seen.straight)))
        /\ gpio.stuck => gpio.sos /\ gpio.diag /\ gpio.isInit /\ ~stuck
        /\ seen.cleared => gpio.stuck \/ (gpio.isInit /\ ~gpio.diag)
        /\ seen.straight => gpio.isInit /\ ~gpio.diag
    BY <1>0 DEF FailureTellsTruth, TruthInv, Torn
  <2>7. gpio'.stuck => gpio'.stuckCnt >= StuckTicks
    <3>. DEFINE n == gpio.stuckCnt + 1
    <3>1. sos /\ (gpio.stuck \/ stuck) => n >= StuckTicks /\ n \in Nat /\ StuckTicks + 1 \in Nat
      BY <1>0 DEF TruthInv
    <3>2. gpio'.stuckCnt = IF sos THEN UpTo(n, StuckTicks + 1) ELSE 0
      BY <2>1
    <3>3. gpio'.stuck => sos /\ (gpio.stuck \/ stuck)
      BY <2>1
    <3>. HIDE DEF n, sos, stuck
    <3>4. n >= StuckTicks /\ n \in Nat => UpTo(n, StuckTicks + 1) >= StuckTicks
      BY <1>0 DEF UpTo
    <3>. QED BY <3>1, <3>2, <3>3, <3>4
  <2>. HIDE DEF sos, diag, stuck
  <2>5. sosBreak' \in BOOLEAN
    BY <1>0, <2>2
  <2>6. gpio'.stuck => gpio'.sos /\ gpio'.diag /\ gpio'.isInit
    BY <2>1, <2>3
  <2>8. Torn(gpio') = ~diag /\ Torn(gpio) = (gpio.isInit /\ ~gpio.diag)
    BY <2>1 DEF Torn
  <2>9. /\ seen'.cleared => gpio'.stuck \/ Torn(gpio')
        /\ seen'.straight => Torn(gpio')
    BY <1>0, <2>1, <2>3, <2>8
  <2>10. sosBreak' = (~seen'.cleared /\ (gpio'.stuck \/ (~diag /\ ~seen'.straight)))
    BY <1>0, <2>1, <2>2, <2>3, <2>4, <2>8
  <2>11. (sosBreak' <=> ~seen'.cleared /\ (gpio'.stuck \/ (Torn(gpio') /\ ~seen'.straight)))
    BY <2>5, <2>8, <2>10
  <2>. QED BY <2>5, <2>6, <2>7, <2>9, <2>11 DEF TruthInv, FailureTellsTruth, Torn
<1>2. CASE UNCHANGED gpioVars
  BY <1>2 DEF gpioVars, TruthTypes, TruthInv, FailureTellsTruth, Torn
<1>3. CASE ButtonFailureCleared
  <2>1. /\ sosBreak' = FALSE /\ gpio' = gpio
        /\ seen'.cleared = (gpio.stuck \/ Torn(gpio)) /\ seen'.straight = seen.straight
    BY <1>3 DEF ButtonFailureCleared, TruthTypes, PressesInv, GpioTypes, Histories
  <2>. QED BY <1>0, <2>1 DEF TruthInv, FailureTellsTruth, Torn
<1>. QED BY <1>1, <1>2, <1>3 DEF GpioNext

\* The failure of the button tells the truth with either beep, for any of the times and
\* whatever is read and cleared.
THEOREM FailureAlwaysTellsTruth == GpioSpec => []FailureTellsTruth
<1>. DEFINE Inv == TruthTypes /\ TruthInv /\ FailureTellsTruth
<1>1. GpioInit => Inv
  <2>1. GpioInit => TruthTypes
    BY PressesInvInit DEF GpioInit, TruthTypes
  <2>2. GpioInit => ~gpio.stuck /\ ~gpio.isInit /\ ~seen.cleared /\ ~seen.straight /\ sosBreak = FALSE
    BY DEF GpioInit
  <2>. QED BY <2>1, <2>2 DEF TruthInv, FailureTellsTruth, Torn
<1>2. Inv /\ [GpioNext]_gpioVars => Inv'
  BY PressesInvStep, TruthInvStep DEF TruthTypes
<1>3. Inv => FailureTellsTruth
  OBVIOUS
<1>. QED BY <1>1, <1>2, <1>3, PTL DEF GpioSpec

----------------------------------------------------------------------------
(* The self-test.                                                          *)

StSteps == {"idle", "wants", "starts", "calls"} \cup OwnSteps
Moments == [Threads -> [step : StSteps, tone : Tones \cup {NoTone}]]
TestRecords == [state : {"IDLE", "STARTED", "STOPPING"}, client : BOOLEAN, ignListening : BOOLEAN,
                onlyMd : BOOLEAN, confirming : BOOLEAN, confirmT : BOOLEAN]

\* The tones that are played of a test that has ended.
LastTones == {"FINISH", "CRITICAL_ERR"}
Finishing(t) == at[t].step \in {"wants", "calls"} /\ at[t].tone \in LastTones

\* A thread that ends a test asks for one of them next.
EndingTones == \A t \in Threads : at[t].step = "ending" => at[t].tone \in LastTones

\* One of them at a time is asked for, on, or called back, and only while the test stops.
OneFinish ==
  /\ \A t, u \in Threads : Finishing(t) /\ Finishing(u) => t = u
  /\ tone \in LastTones => \A t \in Threads : ~Finishing(t)
  /\ tone \in LastTones \/ (\E t \in Threads : Finishing(t)) => test.state = "STOPPING"

StInv == StTypeOK /\ EndingTones /\ (~told.twice => OneFinish) /\ OneResultPerTest

LEMMA StInvInit == StInit => StInv
<1>. SUFFICES ASSUME StInit PROVE StInv
  OBVIOUS
<1>1. StTypeOK
  <2>1. test \in TestRecords
    <3>1. NoTest \in TestRecords
      BY DEF NoTest, TestRecords
    <3>2. [NoTest EXCEPT !.state = "STARTED", !.client = TRUE, !.ignListening = TRUE,
                         !.confirming = TRUE, !.confirmT = TRUE] \in TestRecords
      BY DEF NoTest, TestRecords
    <3>. QED BY <3>1, <3>2 DEF StInit
  <2>2. stBox \in Seq(Messages) /\ Len(stBox) <= StMbox
    BY StAssumption DEF StInit
  <2>3. at \in Moments /\ tone \in Tones \cup {NoTone}
    BY DEF StInit, TpInitTones, Quiet, Moments, StSteps
  <2>4. told \in [due : Int, twice : BOOLEAN]
    BY DEF StInit
  <2>5. orders \in 0..MaxOrders
    BY StAssumption DEF StInit
  <2>. QED BY <2>1, <2>2, <2>3, <2>4, <2>5 DEF StInit, StTypeOK, TestRecords, Moments, StSteps
<1>2. EndingTones /\ OneFinish
  BY DEF StInit, TpInitTones, Quiet, EndingTones, OneFinish, Finishing, LastTones, NoTone
<1>3. OneResultPerTest
  BY DEF StInit, OneResultPerTest, NoTest
<1>. QED BY <1>1, <1>2, <1>3 DEF StInv

\* What Goes does to the threads.
LEMMA ThreadGoes ==
  ASSUME at \in Moments, NEW t \in Threads, NEW s \in StSteps, NEW c \in Tones \cup {NoTone},
         Goes(t, s, c)
  PROVE  /\ at' \in Moments
         /\ at'[t].step = s /\ at'[t].tone = c
         /\ \A u \in Threads \ {t} : at'[u] = at[u]
  BY DEF Goes, Moments

\* A message is a command and a flag.
LEMMA MessageParts ==
  ASSUME stBox \in Seq(Messages), stBox # <<>>
  PROVE  /\ Head(stBox)[2] \in BOOLEAN
         /\ Tail(stBox) \in Seq(Messages) /\ Len(Tail(stBox)) <= Len(stBox)
<1>1. Head(stBox) \in Messages
  OBVIOUS
<1>2. \A m \in Messages : m[2] \in BOOLEAN
  BY DEF Messages
<1>3. Tail(stBox) \in Seq(Messages) /\ Len(Tail(stBox)) <= Len(stBox)
  <2>. HIDE DEF Messages
  <2>. QED OBVIOUS
<1>. QED BY <1>1, <1>2, <1>3

LEMMA TestPosted ==
  ASSUME NEW box \in Seq(Messages), Len(box) <= StMbox, NEW m \in Messages, lostMessage \in BOOLEAN,
         PostTest(box, m)
  PROVE  stBox' \in Seq(Messages) /\ Len(stBox') <= StMbox /\ lostMessage' \in BOOLEAN
<1>. HIDE DEF Messages
<1>1. StMbox \in Nat
  BY StAssumption
<1>. QED BY <1>1 DEF PostTest

LEMMA TonesOfTest ==
  /\ TestTones \subseteq Tones /\ NoTone \notin Tones
  /\ TASK \in Threads /\ ECALL \in Threads /\ TIMER \in Threads /\ URC \in Threads
  /\ LastTones \subseteq Tones
BY StAssumption DEF TestTones, NoTone, Threads, TASK, ECALL, LastTones


\* A step of one thread that asks for none of the last tones.
LEMMA OrdinaryMove ==
  ASSUME StInv, NEW t \in Threads, NEW s \in StSteps, NEW c \in Tones \cup {NoTone}, Goes(t, s, c),
         s \notin {"wants", "calls"} \/ c \notin LastTones,
         s = "ending" => c \in LastTones,
         tone' = tone, told' = told, test'.state = test.state
  PROVE  at' \in Moments /\ EndingTones' /\ (~told'.twice => OneFinish') /\ OneResultPerTest'
<1>1. at \in Moments
  BY DEF StInv, StTypeOK, Moments, StSteps
<1>2. /\ at' \in Moments /\ at'[t].step = s /\ at'[t].tone = c
      /\ \A u \in Threads \ {t} : at'[u] = at[u]
  BY <1>1, ThreadGoes
<1>3. \A u \in Threads : Finishing(u)' => Finishing(u)
  BY <1>2 DEF Finishing
<1>4. EndingTones'
  BY <1>2 DEF StInv, EndingTones
<1>5. ~told'.twice => OneFinish'
  BY <1>3 DEF StInv, OneFinish
<1>6. OneResultPerTest'
  BY DEF StInv, OneResultPerTest
<1>. QED BY <1>2, <1>4, <1>5, <1>6

\* A step of no thread.
LEMMA OtherMove ==
  ASSUME StInv, UNCHANGED <<toneVars, told>>, test'.state = test.state
  PROVE  at' \in Moments /\ EndingTones' /\ (~told'.twice => OneFinish') /\ OneResultPerTest'
<1>1. at' = at /\ tone' = tone /\ told' = told
  BY DEF toneVars
<1>. QED BY <1>1 DEF StInv, StTypeOK, Moments, StSteps, EndingTones, OneFinish, OneResultPerTest,
            Finishing

\* The types but for that of the threads.
OtherTypes ==
  /\ tone \in Tones \cup {NoTone} /\ test \in TestRecords
  /\ stBox \in Seq(Messages) /\ Len(stBox) <= StMbox
  /\ routine \in {"RUN", "OVER"} /\ told \in [due : Int, twice : BOOLEAN]
  /\ {ignition, ecall, lostMessage} \subseteq BOOLEAN /\ orders \in 0..MaxOrders

LEMMA TypesOfParts == StTypeOK <=> OtherTypes /\ at \in Moments
BY DEF StTypeOK, OtherTypes, TestRecords, Moments, StSteps

LEMMA CallbackKeeps == ASSUME StInv, NEW t \in Threads, Callback(t) PROVE StInv'
<1>0. OtherTypes /\ at \in Moments
  BY TypesOfParts DEF StInv
<1>. DEFINE Kept == /\ at' \in Moments /\ EndingTones' /\ (~told'.twice => OneFinish')
                    /\ OneResultPerTest'
<1>1. ASSUME Kept, OtherTypes' PROVE StInv'
  <2>1. StTypeOK'
    BY <1>1 DEF StTypeOK, OtherTypes, TestRecords, Moments, StSteps
  <2>. QED BY <1>1, <2>1 DEF StInv
<1>2. ASSUME UNCHANGED <<tone, stVars>>, NEW s \in StSteps, NEW c \in Tones \cup {NoTone},
             Goes(t, s, c),
             s \notin {"wants", "calls"} \/ c \notin LastTones,
             s = "ending" => c \in LastTones
      PROVE  StInv'
  <2>1. OtherTypes'
    BY <1>0, <1>2 DEF OtherTypes, stVars
  <2>2. tone' = tone /\ told' = told /\ test'.state = test.state
    BY <1>2 DEF stVars
  <2>3. Kept
    BY <1>2, <2>2, OrdinaryMove
  <2>. QED BY <1>1, <2>1, <2>3
<1>. HIDE DEF Kept
\* Back to idle, or to the next tone that is none of the last.
<1>3. ASSUME UNCHANGED <<tone, stVars>>, Idle(t) PROVE StInv'
  BY <1>2, <1>3 DEF Idle, StSteps
<1>4. ASSUME UNCHANGED <<tone, stVars>>, NEW c \in Tones \ LastTones, Wants(t, c) PROVE StInv'
  BY <1>2, <1>4 DEF Wants, StSteps
<1>5. ASSUME UNCHANGED <<tone, stVars>>, NEW c \in LastTones, Goes(t, "ending", c) PROVE StInv'
  BY <1>2, <1>5, TonesOfTest DEF StSteps, OwnSteps
<1>6. CASE Proceed(t)
  <2>1. NextTone[at[t].tone] \in Tones \ LastTones
    BY <1>6, TonesOfTest DEF Proceed, NextTone, LastTones, TestTones
  <2>. QED BY <1>3, <1>4, <1>6, <2>1 DEF Proceed
<1>7. CASE CheckFiles(t)
  BY <1>3, <1>4, <1>7, TonesOfTest DEF CheckFiles, LastTones, TestTones
\* Steps that change what the test remembers, but not its state.
<1>8. ASSUME tone' = tone, told' = told, test' \in TestRecords, test'.state = test.state,
             UNCHANGED <<stBox, ignition, routine, lostMessage, orders>>, ecall' \in BOOLEAN,
             Idle(t) \/ Wants(t, "NO_SATTELITIES")
               \/ Wants(t, "MD_TEST") \/ Wants(t, "NO_TEST_CALL")
      PROVE  StInv'
  <2>1. OtherTypes'
    BY <1>0, <1>8 DEF OtherTypes
  <2>2. PICK s \in {"idle", "wants"}, c \in {NoTone, "NO_SATTELITIES", "MD_TEST", "NO_TEST_CALL"} :
          Goes(t, s, c)
    BY <1>8 DEF Idle, Wants
  <2>3. s \in StSteps /\ c \in Tones \cup {NoTone} /\ c \notin LastTones /\ s # "ending"
    BY TonesOfTest DEF StSteps, LastTones, TestTones, NoTone
  <2>4. Kept
    BY <1>8, <2>2, <2>3, OrdinaryMove DEF Kept
  <2>. QED BY <1>1, <2>1, <2>4
<1>9. test \in TestRecords /\ ecall \in BOOLEAN
  BY <1>0 DEF OtherTypes
<1>10. CASE CheckGnss(t) \/ NoSatellites(t)
  BY <1>8, <1>9, <1>10 DEF CheckGnss, NoSatellites, TestRecords
<1>11. CASE Record(t)
  BY <1>2, <1>3, <1>11 DEF Record, StSteps, OwnSteps
<1>12. CASE Recorded(t)
  BY <1>3, <1>4, <1>5, <1>12, TonesOfTest DEF Recorded, LastTones, TestTones
<1>13. CASE WaitConfirm(t)
  BY <1>8, <1>9, <1>13 DEF WaitConfirm, TestRecords
<1>14. ASSUME UNCHANGED <<tone, stVars>>, FinishTesting(t, "FINISH") PROVE StInv'
  BY <1>3, <1>5, <1>14 DEF FinishTesting, LastTones
<1>15. CASE Confirmed(t)
  BY <1>3, <1>4, <1>14, <1>15, TonesOfTest DEF Confirmed, LastTones, TestTones
<1>16. CASE StartTestCall(t)
  BY <1>8, <1>9, <1>16 DEF StartTestCall
<1>17. CASE LastTone(t)
  BY <1>14, <1>17 DEF LastTone
<1>18. CASE WaitingTone(t)
  <2>1. OtherTypes'
    BY <1>0, <1>18 DEF OtherTypes, WaitingTone, Told
  <2>2. Goes(t, "idle", NoTone) /\ tone' = tone /\ told' = told /\ test' = test
    BY <1>18 DEF WaitingTone, Idle
  <2>3. Kept
    BY <2>2, OrdinaryMove DEF Kept, StSteps
  <2>. QED BY <1>1, <2>1, <2>3
\* The steps that end the test.
<1>19. CASE CriticalTone(t)
  <2>1. /\ at[t].step = "calls" /\ at[t].tone = "CRITICAL_ERR" /\ Goes(t, "wants", "FINISH")
        /\ tone' = tone /\ UNCHANGED stVars
    BY <1>19 DEF CriticalTone, Called, Wants
  <2>2. OtherTypes' /\ told' = told /\ test' = test
    BY <1>0, <2>1 DEF OtherTypes, stVars
  <2>3. /\ at' \in Moments /\ at'[t].step = "wants" /\ at'[t].tone = "FINISH"
        /\ \A u \in Threads \ {t} : at'[u] = at[u]
    BY <1>0, <2>1, TonesOfTest, ThreadGoes DEF StSteps, LastTones
  <2>4. EndingTones'
    BY <2>3 DEF EndingTones, StInv
  <2>5. \A u \in Threads : Finishing(u)' <=> Finishing(u)
    BY <2>1, <2>3 DEF Finishing, LastTones
  <2>6. ~told'.twice => OneFinish'
    BY <2>1, <2>2, <2>5 DEF StInv, OneFinish
  <2>7. OneResultPerTest'
    BY <2>2 DEF StInv, OneResultPerTest
  <2>. QED BY <1>1, <2>2, <2>3, <2>4, <2>6, <2>7 DEF Kept
<1>20. CASE Ending(t)
  <2>1. /\ at[t].step = "ending" /\ Goes(t, "wants", at[t].tone) /\ tone' = tone
        /\ test' = [test EXCEPT !.state = "STOPPING"]
        /\ told' = [told EXCEPT !.twice = @ \/ ~Working]
        /\ UNCHANGED <<stBox, ignition, ecall, routine, lostMessage, orders>>
    BY <1>20 DEF Ending, Is, Wants
  <2>2. at[t].tone \in LastTones
    BY <2>1 DEF StInv, EndingTones
  <2>3. /\ at' \in Moments /\ at'[t].step = "wants" /\ at'[t].tone = at[t].tone
        /\ \A u \in Threads \ {t} : at'[u] = at[u]
    BY <1>0, <2>1, <2>2, TonesOfTest, ThreadGoes DEF StSteps
  <2>4. test' \in TestRecords /\ test'.state = "STOPPING"
    BY <1>9, <2>1 DEF TestRecords
  <2>5. /\ told' \in [due : Int, twice : BOOLEAN] /\ told'.due = told.due
        /\ ~told'.twice => ~told.twice /\ test.state = "STARTED"
    <3>1. told \in [due : Int, twice : BOOLEAN] /\ Working \in BOOLEAN
      BY <1>0 DEF OtherTypes, Working
    <3>. QED BY <2>1, <3>1 DEF Working
  <2>6. OtherTypes'
    BY <1>0, <2>1, <2>4, <2>5 DEF OtherTypes
  <2>7. EndingTones'
    BY <2>3 DEF EndingTones, StInv
  <2>8. ASSUME ~told'.twice PROVE OneFinish' /\ OneResultPerTest'
    <3>1. tone \notin LastTones /\ \A u \in Threads : ~Finishing(u)
      BY <2>5, <2>8 DEF StInv, OneFinish
    <3>2. \A u \in Threads : Finishing(u)' => u = t
      BY <2>3, <3>1 DEF Finishing
    <3>3. OneFinish'
      BY <2>1, <2>4, <3>1, <3>2 DEF OneFinish
    <3>4. OneResultPerTest'
      BY <2>4, <2>5, <2>8 DEF StInv, OneResultPerTest
    <3>. QED BY <3>3, <3>4
  <2>9. OneResultPerTest'
    BY <2>8 DEF OneResultPerTest
  <2>. QED BY <1>1, <2>3, <2>6, <2>7, <2>8, <2>9 DEF Kept
<1>21. CASE FinalJob(t)
  <2>1. /\ at[t].step = "calls" /\ at[t].tone = "FINISH" /\ Goes(t, "idle", NoTone) /\ tone' = tone
        /\ test' = [test EXCEPT !.state = "IDLE", !.ignListening = FALSE]
        /\ told' = [told EXCEPT !.due = @ - 1] /\ Told
        /\ UNCHANGED <<stBox, ignition, ecall, lostMessage, orders>>
    BY <1>21 DEF FinalJob, Called, Idle
  <2>2. /\ at' \in Moments /\ at'[t].step = "idle" /\ at'[t].tone = NoTone
        /\ \A u \in Threads \ {t} : at'[u] = at[u]
    BY <1>0, <2>1, ThreadGoes DEF StSteps
  <2>3. test' \in TestRecords /\ test'.state = "IDLE"
    BY <1>9, <2>1 DEF TestRecords
  <2>4. /\ told' \in [due : Int, twice : BOOLEAN]
        /\ told'.due = told.due - 1 /\ told'.twice = told.twice
    BY <1>0, <2>1 DEF OtherTypes
  <2>5. OtherTypes'
    BY <1>0, <2>1, <2>3, <2>4 DEF OtherTypes, Told
  <2>6. EndingTones'
    BY <2>2 DEF EndingTones, StInv
  <2>7. ASSUME ~told'.twice PROVE OneFinish' /\ OneResultPerTest'
    <3>1. Finishing(t) /\ OneFinish /\ told.due = IF test.state = "IDLE" THEN 0 ELSE 1
      BY <2>1, <2>4, <2>7 DEF StInv, OneResultPerTest, Finishing, LastTones
    <3>2. test.state = "STOPPING" /\ tone \notin LastTones /\ \A u \in Threads \ {t} : ~Finishing(u)
      BY <3>1 DEF OneFinish
    <3>3. \A u \in Threads : ~Finishing(u)'
      BY <2>2, <3>2 DEF Finishing
    <3>4. OneFinish'
      BY <2>1, <3>2, <3>3 DEF OneFinish
    <3>5. OneResultPerTest'
      BY <2>3, <2>4, <3>1, <3>2 DEF OneResultPerTest
    <3>. QED BY <3>4, <3>5
  <2>8. OneResultPerTest'
    BY <2>7 DEF OneResultPerTest
  <2>. QED BY <1>1, <2>2, <2>5, <2>6, <2>7, <2>8 DEF Kept
<1>. QED BY <1>6, <1>7, <1>10, <1>11, <1>12, <1>13, <1>15, <1>16, <1>17, <1>18, <1>19, <1>20,
            <1>21 DEF Callback


\* The types and the end of the test as one; what the steps have left to show.
LEMMA KeptIsEnough ==
  ASSUME OtherTypes', at' \in Moments, EndingTones', ~told'.twice => OneFinish', OneResultPerTest'
  PROVE  StInv'
BY DEF StInv, StTypeOK, OtherTypes, TestRecords, Moments, StSteps

LEMMA ToneStepKeeps ==
  ASSUME StInv, NEW t \in Threads, ToneStep(t), UNCHANGED stVars
  PROVE  StInv'
<1>0. OtherTypes /\ at \in Moments
  BY TypesOfParts DEF StInv
<1>1. at[t].tone \in Tones \cup {NoTone}
  BY <1>0 DEF Moments
<1>2. UNCHANGED <<test, told>>
  BY DEF stVars
<1>3. ASSUME tone' \in Tones \cup {NoTone} PROVE OtherTypes'
  BY <1>0, <1>3 DEF OtherTypes, stVars
<1>4. OneResultPerTest'
  BY <1>2 DEF StInv, OneResultPerTest
<1>5. ASSUME NEW s \in StSteps, s # "ending", NEW c \in Tones \cup {NoTone}, Goes(t, s, c)
      PROVE  /\ at' \in Moments /\ EndingTones' /\ at'[t].step = s /\ at'[t].tone = c
             /\ \A u \in Threads \ {t} : at'[u] = at[u]
             /\ \A u \in Threads \ {t} : Finishing(u)' <=> Finishing(u)
  <2>1. /\ at' \in Moments /\ at'[t].step = s /\ at'[t].tone = c
        /\ \A u \in Threads \ {t} : at'[u] = at[u]
    BY <1>0, <1>5, ThreadGoes
  <2>. QED BY <1>5, <2>1 DEF EndingTones, Finishing, StInv
<1>6. CASE ToneOn(t)
  <2>1. /\ at[t].step = "wants" /\ tone = NoTone /\ tone' = at[t].tone
        /\ Goes(t, "starts", at[t].tone)
    BY <1>6 DEF ToneOn, Is
  <2>2. /\ at' \in Moments /\ EndingTones' /\ at'[t].step = "starts"
        /\ \A u \in Threads \ {t} : Finishing(u)' <=> Finishing(u)
    BY <1>1, <1>5, <2>1 DEF StSteps
  <2>3. ~Finishing(t)' /\ (tone' \in LastTones => Finishing(t))
    BY <2>1, <2>2 DEF Finishing
  <2>4. ~told'.twice => OneFinish'
    BY <1>2, <2>2, <2>3 DEF StInv, OneFinish
  <2>. QED BY <1>1, <1>3, <1>4, <2>1, <2>2, <2>4, KeptIsEnough
<1>7. CASE ToneStarts(t)
  <2>1. tone' = tone /\ Goes(t, "idle", NoTone)
    BY <1>7 DEF ToneStarts, Idle
  <2>2. at' \in Moments /\ EndingTones' /\ (~told'.twice => OneFinish') /\ OneResultPerTest'
    BY <1>2, <2>1, OrdinaryMove DEF StSteps
  <2>. QED BY <1>0, <1>3, <2>1, <2>2, KeptIsEnough DEF OtherTypes
<1>8. CASE ToneFails(t)
  <2>1. /\ at[t].step = "starts" /\ tone = at[t].tone /\ tone' = NoTone
        /\ Goes(t, "calls", at[t].tone)
    BY <1>8 DEF ToneFails, Is
  <2>2. /\ at' \in Moments /\ EndingTones' /\ at'[t].tone = tone
        /\ \A u \in Threads \ {t} : Finishing(u)' <=> Finishing(u)
    BY <1>1, <1>5, <2>1 DEF StSteps
  <2>3. ~Finishing(t) /\ (Finishing(t)' => tone \in LastTones) /\ tone' \notin LastTones
    BY <2>1, <2>2 DEF Finishing, LastTones, NoTone
  <2>4. ~told'.twice => OneFinish'
    BY <1>2, <2>2, <2>3 DEF StInv, OneFinish
  <2>. QED BY <1>3, <1>4, <2>1, <2>2, <2>4, KeptIsEnough
<1>9. CASE ToneRefused(t)
  <2>1. at[t].step = "wants" /\ tone' = tone /\ Goes(t, "calls", at[t].tone)
    BY <1>9 DEF ToneRefused, Is
  <2>2. /\ at' \in Moments /\ EndingTones' /\ at'[t].step = "calls" /\ at'[t].tone = at[t].tone
        /\ \A u \in Threads \ {t} : Finishing(u)' <=> Finishing(u)
    BY <1>1, <1>5, <2>1 DEF StSteps
  <2>3. Finishing(t)' <=> Finishing(t)
    BY <2>1, <2>2 DEF Finishing
  <2>4. ~told'.twice => OneFinish'
    BY <1>2, <2>1, <2>2, <2>3 DEF StInv, OneFinish
  <2>. QED BY <1>0, <1>3, <1>4, <2>1, <2>2, <2>4, KeptIsEnough DEF OtherTypes
<1>10. CASE ToneEnds(t)
  <2>1. /\ at[t].step = "idle" /\ tone' = NoTone
        /\ Goes(t, "calls", tone) /\ tone \in Tones \cup {NoTone}
    BY <1>0, <1>10 DEF ToneEnds, Is, OtherTypes
  <2>2. /\ at' \in Moments /\ EndingTones' /\ at'[t].tone = tone
        /\ \A u \in Threads \ {t} : Finishing(u)' <=> Finishing(u)
    BY <1>5, <2>1 DEF StSteps
  <2>3. ~Finishing(t) /\ (Finishing(t)' => tone \in LastTones) /\ tone' \notin LastTones
    BY <2>1, <2>2 DEF Finishing, LastTones, NoTone
  <2>4. ~told'.twice => OneFinish'
    BY <1>2, <2>2, <2>3 DEF StInv, OneFinish
  <2>. QED BY <1>3, <1>4, <2>1, <2>2, <2>4, KeptIsEnough
<1>. QED BY <1>6, <1>7, <1>8, <1>9, <1>10 DEF ToneStep

\* A step of the task that takes a message, or of the others.
LEMMA TaskKeeps == ASSUME StInv, TaskNext PROVE StInv'
<1>0. OtherTypes /\ at \in Moments /\ TASK \in Threads
  BY TypesOfParts, TonesOfTest DEF StInv
<1>1. ASSUME stBox # <<>>
      PROVE  /\ Head(stBox)[2] \in BOOLEAN /\ Tail(stBox) \in Seq(Messages)
             /\ Len(Tail(stBox)) <= StMbox
  <2>1. StMbox \in Nat /\ Len(stBox) \in Nat /\ Len(Tail(stBox)) \in Nat
    BY <1>0, <1>1, StAssumption, MessageParts DEF OtherTypes
  <2>. QED BY <1>0, <1>1, <2>1, MessageParts DEF OtherTypes
\* What a message taken leaves to show.
<1>2. ASSUME stBox # <<>>, stBox' = Tail(stBox), tone' = tone, test' \in TestRecords,
             told' \in [due : Int, twice : BOOLEAN], routine' \in {"RUN", "OVER"},
             UNCHANGED <<ignition, ecall, lostMessage, orders>>
      PROVE  OtherTypes'
  BY <1>0, <1>1, <1>2 DEF OtherTypes
<1>3. ASSUME NEW s \in StSteps, NEW c \in Tones \cup {NoTone}, Goes(TASK, s, c),
             s \notin {"wants", "calls"} \/ c \notin LastTones, s = "ending" => c \in LastTones,
             tone' = tone, told' = told, test'.state = test.state, OtherTypes'
      PROVE  StInv'
  BY <1>0, <1>3, OrdinaryMove, KeptIsEnough
<1>4. ASSUME UNCHANGED <<toneVars, told>>, test'.state = test.state, OtherTypes'
      PROVE  StInv'
  BY <1>4, OtherMove, KeptIsEnough
<1>5. /\ test \in TestRecords /\ told \in [due : Int, twice : BOOLEAN]
      /\ routine \in {"RUN", "OVER"}
  BY <1>0 DEF OtherTypes
<1>6. ASSUME NEW o \in Starts, StartIgnored(o) PROVE StInv'
  <2>1. OtherTypes'
    BY <1>2, <1>5, <1>6 DEF StartIgnored, Taken, toneVars
  <2>. QED BY <1>4, <1>6, <2>1 DEF StartIgnored
<1>7. ASSUME NEW o \in Starts, StartRefused(o) PROVE StInv'
  <2>. DEFINE client == Head(stBox)[2]
  <2>1. /\ stBox # <<>> /\ stBox' = Tail(stBox) /\ test' = [test EXCEPT !.client = client]
        /\ UNCHANGED <<tone, ignition, ecall, told, lostMessage, orders>>
        /\ \/ routine' = (IF client THEN "OVER" ELSE routine) /\ UNCHANGED at
           \/ Wants(TASK, "WAITING_CALLBACK") /\ UNCHANGED routine
    BY <1>7 DEF StartRefused, Taken
  <2>2. client \in BOOLEAN
    BY <1>1, <2>1
  <2>3. test' \in TestRecords /\ test'.state = test.state
    BY <1>5, <2>1, <2>2 DEF TestRecords
  <2>4. routine' \in {"RUN", "OVER"}
    BY <1>5, <2>1
  <2>5. OtherTypes'
    BY <1>2, <1>5, <2>1, <2>3, <2>4
  <2>6. CASE UNCHANGED at
    BY <1>4, <2>1, <2>3, <2>5, <2>6 DEF toneVars
  <2>7. CASE Wants(TASK, "WAITING_CALLBACK")
    <3>1. /\ "WAITING_CALLBACK" \in Tones \cup {NoTone} /\ "WAITING_CALLBACK" \notin LastTones
          /\ "wants" \in StSteps
      BY TonesOfTest DEF TestTones, LastTones, StSteps
    <3>. QED BY <1>3, <2>1, <2>3, <2>5, <2>7, <3>1 DEF Wants
  <2>. QED BY <2>1, <2>6, <2>7
<1>8. ASSUME NEW o \in Starts, StartTest(o) PROVE StInv'
  <2>. DEFINE client == Head(stBox)[2]
              md == CASE o = "START_TEST_CALL_ONLY" -> test.onlyMd
                      [] o = "START_TEST_MD_ONLY" -> TRUE
                      [] OTHER -> FALSE
  <2>1. /\ stBox # <<>> /\ stBox' = Tail(stBox) /\ test.state = "IDLE"
        /\ test' = [test EXCEPT !.client = client, !.state = "STARTED", !.ignListening = TRUE,
                                !.onlyMd = md]
        /\ told' = [told EXCEPT !.due = @ + 1]
        /\ Wants(TASK, StartsTone(o)) \/ Goes(TASK, "ending", "CRITICAL_ERR")
        /\ UNCHANGED <<tone, ignition, ecall, routine, lostMessage, orders>>
    BY <1>8 DEF StartTest, Taken
  <2>2. client \in BOOLEAN /\ md \in BOOLEAN
    <3>1. client \in BOOLEAN
      BY <1>1, <2>1
    <3>2. test.onlyMd \in BOOLEAN
      BY <1>5 DEF TestRecords
    <3>. QED BY <3>1, <3>2
  <2>. HIDE DEF client, md
  <2>3. test' \in TestRecords /\ test'.state = "STARTED"
    BY <1>5, <2>1, <2>2 DEF TestRecords
  <2>4. /\ told' \in [due : Int, twice : BOOLEAN]
        /\ told'.due = told.due + 1 /\ told'.twice = told.twice
    BY <1>5, <2>1
  <2>5. OtherTypes'
    BY <1>2, <1>5, <2>1, <2>3, <2>4
  <2>6. PICK s \in {"wants", "ending"}, c \in Tones :
          /\ Goes(TASK, s, c)
          /\ s = "ending" <=> c \in LastTones
    <3>1. StartsTone(o) \in Tones \ LastTones
      BY StAssumption, TonesOfTest DEF AllStarts, StartsTone, TestTones, LastTones
    <3>2. "CRITICAL_ERR" \in Tones /\ "CRITICAL_ERR" \in LastTones
      BY TonesOfTest DEF LastTones
    <3>. QED BY <2>1, <3>1, <3>2 DEF Wants
  <2>7. /\ at' \in Moments /\ at'[TASK].step = s /\ at'[TASK].tone = c
        /\ \A u \in Threads \ {TASK} : at'[u] = at[u]
    BY <1>0, <2>6, ThreadGoes DEF StSteps, OwnSteps
  <2>8. EndingTones'
    BY <2>6, <2>7 DEF StInv, EndingTones
  <2>9. ASSUME ~told'.twice PROVE OneFinish'
    <3>1. OneFinish
      BY <2>4, <2>9 DEF StInv
    <3>2. tone \notin LastTones /\ \A u \in Threads : ~Finishing(u)
      BY <2>1, <3>1 DEF OneFinish
    <3>3. \A u \in Threads : ~Finishing(u)'
      BY <2>6, <2>7, <3>2 DEF Finishing
    <3>. QED BY <2>1, <3>2, <3>3 DEF OneFinish
  <2>10. OneResultPerTest'
    BY <2>1, <2>3, <2>4 DEF StInv, OneResultPerTest
  <2>. QED BY <2>5, <2>7, <2>8, <2>9, <2>10, KeptIsEnough
<1>9. CASE IgnitionState
  <2>1. /\ stBox # <<>> /\ UNCHANGED <<toneVars, test, ignition, ecall, routine, told, orders>>
        /\ \/ PostTest(Tail(stBox), <<"TEST_FORCED_STOP", FALSE>>)
           \/ stBox' = Tail(stBox) /\ UNCHANGED lostMessage
    BY <1>9 DEF IgnitionState
  <2>2. <<"TEST_FORCED_STOP", FALSE>> \in Messages
    BY DEF Messages
  <2>3. stBox' \in Seq(Messages) /\ Len(stBox') <= StMbox /\ lostMessage' \in BOOLEAN
    <3>1. lostMessage \in BOOLEAN
      BY <1>0 DEF OtherTypes
    <3>2. CASE PostTest(Tail(stBox), <<"TEST_FORCED_STOP", FALSE>>)
      BY <1>1, <2>1, <2>2, <3>1, <3>2, TestPosted
    <3>3. CASE stBox' = Tail(stBox) /\ UNCHANGED lostMessage
      BY <1>1, <2>1, <3>1, <3>3
    <3>. QED BY <2>1, <3>2, <3>3
  <2>4. OtherTypes'
    BY <1>0, <2>1, <2>3 DEF OtherTypes, toneVars
  <2>. QED BY <1>4, <2>1, <2>4
<1>10. CASE TestForcedStop
  <2>1. OtherTypes'
    BY <1>2, <1>5, <1>10 DEF TestForcedStop, Taken
  <2>2. PICK s \in {"ending", "idle"}, c \in {"FINISH", NoTone} :
          Goes(TASK, s, c) /\ (s = "ending" => c = "FINISH")
    BY <1>10 DEF TestForcedStop, FinishTesting, Idle
  <2>3. s \in StSteps /\ c \in Tones \cup {NoTone} /\ s \notin {"wants", "calls"}
        /\ (s = "ending" => c \in LastTones)
    BY <2>2, TonesOfTest DEF StSteps, OwnSteps, LastTones
  <2>. QED BY <1>3, <1>10, <2>1, <2>2, <2>3 DEF TestForcedStop
<1>11. CASE ConfirmationDone
  <2>1. test' \in TestRecords /\ test'.state = test.state
    BY <1>5, <1>11 DEF ConfirmationDone, TestRecords
  <2>2. OtherTypes'
    BY <1>2, <1>5, <1>11, <2>1 DEF ConfirmationDone, Taken
  <2>3. CASE at' = at
    BY <1>4, <1>11, <2>1, <2>2, <2>3 DEF ConfirmationDone, toneVars
  <2>4. CASE Goes(TASK, "confirming", NoTone)
    BY <1>3, <1>11, <2>1, <2>2, <2>4 DEF ConfirmationDone, StSteps, OwnSteps
  <2>. QED BY <1>11, <2>3, <2>4 DEF ConfirmationDone
<1>12. CASE ConfirmationTaken
  <2>1. test' \in TestRecords /\ test'.state = test.state
    BY <1>5, <1>12 DEF ConfirmationTaken, TestRecords
  <2>2. OtherTypes'
    BY <1>0, <1>12, <2>1 DEF ConfirmationTaken, OtherTypes
  <2>3. "OK" \in Tones /\ "OK" \notin LastTones /\ "wants" \in StSteps
    BY TonesOfTest DEF TestTones, LastTones, StSteps
  <2>. QED BY <1>3, <1>12, <2>1, <2>2, <2>3 DEF ConfirmationTaken, Wants
<1>13. CASE ConfirmTimer
  <2>1. test' \in TestRecords /\ test'.state = test.state
    BY <1>5, <1>13 DEF ConfirmTimer, TestRecords
  <2>2. OtherTypes'
    BY <1>2, <1>5, <1>13, <2>1 DEF ConfirmTimer, Taken
  <2>3. "ERROR" \in Tones /\ "ERROR" \notin LastTones /\ "wants" \in StSteps
    BY TonesOfTest DEF TestTones, LastTones, StSteps
  <2>. QED BY <1>3, <1>13, <2>1, <2>2, <2>3 DEF ConfirmTimer, Wants
<1>. QED BY <1>6, <1>7, <1>8, <1>9, <1>10, <1>11, <1>12, <1>13 DEF TaskNext

\* The timer, ECALL and the orders.
LEMMA OthersKeep ==
  ASSUME StInv, ConfirmExpires \/ ConfirmMessage \/ EcallResult \/ OrdersNext
  PROVE  StInv'
<1>0. OtherTypes /\ at \in Moments /\ TIMER \in Threads /\ ECALL \in Threads
  BY TypesOfParts, TonesOfTest DEF StInv
<1>1. /\ test \in TestRecords /\ stBox \in Seq(Messages) /\ Len(stBox) <= StMbox
      /\ lostMessage \in BOOLEAN /\ ignition \in BOOLEAN
  BY <1>0 DEF OtherTypes
<1>2. CASE ConfirmExpires
  <2>1. test' \in TestRecords /\ test'.state = test.state
    BY <1>1, <1>2 DEF ConfirmExpires, TestRecords
  <2>2. OtherTypes'
    BY <1>0, <1>2, <2>1 DEF ConfirmExpires, OtherTypes
  <2>3. Goes(TIMER, "expired", NoTone) /\ tone' = tone /\ told' = told
    BY <1>2 DEF ConfirmExpires
  <2>. QED BY <1>0, <2>1, <2>2, <2>3, OrdinaryMove, KeptIsEnough DEF StSteps, OwnSteps
<1>3. CASE ConfirmMessage
  <2>1. <<"CONFIRM_TIMER", FALSE>> \in Messages
    BY DEF Messages
  <2>2. stBox' \in Seq(Messages) /\ Len(stBox') <= StMbox /\ lostMessage' \in BOOLEAN
    BY <1>1, <1>3, <2>1, TestPosted DEF ConfirmMessage
  <2>3. OtherTypes'
    BY <1>0, <1>3, <2>2 DEF ConfirmMessage, OtherTypes
  <2>4. Goes(TIMER, "idle", NoTone) /\ tone' = tone /\ told' = told /\ test' = test
    BY <1>3 DEF ConfirmMessage, Idle
  <2>. QED BY <1>0, <2>3, <2>4, OrdinaryMove, KeptIsEnough DEF StSteps
<1>4. CASE EcallResult
  <2>1. PICK s \in {"ending", "idle"}, c \in {"FINISH", NoTone} :
          Goes(ECALL, s, c) /\ (s = "ending" => c = "FINISH")
    BY <1>4 DEF EcallResult, FinishTesting, Idle
  <2>2. s \in StSteps /\ c \in Tones \cup {NoTone} /\ s \notin {"wants", "calls"}
        /\ (s = "ending" => c \in LastTones)
    BY <2>1, TonesOfTest DEF StSteps, OwnSteps, LastTones
  <2>3. OtherTypes'
    BY <1>0, <1>4 DEF EcallResult, OtherTypes
  <2>4. tone' = tone /\ told' = told /\ test' = test
    BY <1>4 DEF EcallResult
  <2>. QED BY <1>0, <2>1, <2>2, <2>3, <2>4, OrdinaryMove, KeptIsEnough
<1>5. CASE OrdersNext
  <2>1. /\ UNCHANGED <<toneVars, test, ecall, told>>
        /\ orders' \in 0..MaxOrders /\ ignition' \in BOOLEAN /\ routine' \in {"RUN", "OVER"}
        /\ \E m \in Messages : PostTest(stBox, m)
    <3>1. orders \in 0..MaxOrders /\ MaxOrders \in Nat /\ routine \in {"RUN", "OVER"}
      BY <1>0, StAssumption DEF OtherTypes
    <3>2. ASSUME Order PROVE orders' \in 0..MaxOrders
      BY <3>1, <3>2 DEF Order
    <3>3. /\ \A o \in Starts : <<o, FALSE>> \in Messages /\ <<o, TRUE>> \in Messages
          /\ <<"TEST_FORCED_STOP", FALSE>> \in Messages
          /\ <<"CONFIRMATION_DONE", FALSE>> \in Messages
          /\ \A b \in BOOLEAN : <<"IGNITION_STATE", b>> \in Messages
      BY DEF Messages
    <3>4. ASSUME NEW m \in Messages, Button(m)
          PROVE /\ UNCHANGED <<toneVars, test, ecall, told>>
                /\ orders' \in 0..MaxOrders /\ ignition' \in BOOLEAN /\ routine' \in {"RUN", "OVER"}
                /\ \E n \in Messages : PostTest(stBox, n)
      BY <1>1, <3>1, <3>2, <3>4 DEF Button, OrderUnchanged
    <3>5. ASSUME NEW o \in Starts, StartSelfTest(o)
          PROVE /\ UNCHANGED <<toneVars, test, ecall, told>>
                /\ orders' \in 0..MaxOrders /\ ignition' \in BOOLEAN /\ routine' \in {"RUN", "OVER"}
                /\ \E n \in Messages : PostTest(stBox, n)
      BY <1>1, <3>1, <3>2, <3>3, <3>5 DEF StartSelfTest, OrderUnchanged
    <3>6. ASSUME StopSelfTest
          PROVE /\ UNCHANGED <<toneVars, test, ecall, told>>
                /\ orders' \in 0..MaxOrders /\ ignition' \in BOOLEAN /\ routine' \in {"RUN", "OVER"}
                /\ \E n \in Messages : PostTest(stBox, n)
      BY <1>1, <3>1, <3>2, <3>3, <3>6 DEF StopSelfTest, OrderUnchanged
    <3>7. ASSUME IgnitionTurns
          PROVE /\ UNCHANGED <<toneVars, test, ecall, told>>
                /\ orders' \in 0..MaxOrders /\ ignition' \in BOOLEAN /\ routine' \in {"RUN", "OVER"}
                /\ \E n \in Messages : PostTest(stBox, n)
      BY <1>1, <3>1, <3>2, <3>3, <3>7 DEF IgnitionTurns, OrderUnchanged
    <3>. QED BY <1>5, <3>3, <3>4, <3>5, <3>6, <3>7 DEF OrdersNext
  <2>2. stBox' \in Seq(Messages) /\ Len(stBox') <= StMbox /\ lostMessage' \in BOOLEAN
    BY <1>1, <2>1, TestPosted
  <2>3. OtherTypes'
    BY <1>0, <2>1, <2>2 DEF OtherTypes, toneVars
  <2>. QED BY <2>1, <2>3, OtherMove, KeptIsEnough
<1>. QED BY <1>2, <1>3, <1>4, <1>5

LEMMA StInvStep == StInv /\ [StNext]_selfTestVars => StInv'
<1>. SUFFICES ASSUME StInv, [StNext]_selfTestVars PROVE StInv'
  OBVIOUS
<1>1. ASSUME NEW t \in Threads, StThread(t) PROVE StInv'
  <2>1. CASE TonesGoOn(t) /\ UNCHANGED stVars
    BY <2>1, ToneStepKeeps DEF TonesGoOn, ToneStep
  <2>. QED BY <1>1, <2>1, CallbackKeeps, TaskKeeps, OthersKeep DEF StThread
<1>2. CASE StReports \/ StRefused
  BY <1>2, ToneStepKeeps DEF StReports, StRefused, ToneStep
<1>3. CASE ConfirmExpires \/ OrdersNext
  BY <1>3, OthersKeep
<1>4. CASE UNCHANGED selfTestVars
  <2>1. UNCHANGED <<toneVars, told, test>> /\ OtherTypes'
    BY <1>4, TypesOfParts DEF selfTestVars, stVars, toneVars, OtherTypes, StInv
  <2>. QED BY <2>1, OtherMove, KeptIsEnough
<1>. QED BY <1>1, <1>2, <1>3, <1>4 DEF StNext

\* Every self-test gives exactly one result, for any mailbox, any orders and any number of them,
\* unless two threads ended a test at once.
THEOREM AlwaysOneResultPerTest == StSpec => []OneResultPerTest
<1>1. StInv => OneResultPerTest
  BY DEF StInv
<1>. QED BY <1>1, StInvInit, StInvStep, PTL DEF StSpec

----------------------------------------------------------------------------
(* The types of all five parts.                                            *)

\* A change of a failure under way, all of them with the activation, what was used up.
FailureSets == [at : {"idle", "asked", "remembered", "written"}, level : {"high", "low"},
                on : BOOLEAN, known : Knowledge]
SetterTypes == [failure : [Setters -> FailureSets], activation : BOOLEAN]
EventTypes == [changes : 0..MaxEvents, turns : 0..MaxTurns]

LEMMA IndTypesInit == IndInit => IndTypeOK
<1>. SUFFICES ASSUME IndInit PROVE IndTypeOK
  OBVIOUS
<1>1. ind \in [current : Signs, stage : 0..(IgnOnSteps + IgnOffSteps + 1)]
  BY IndAssumption DEF IndInit, Signs
<1>2. indBox \in Seq([sign : Signs, again : BOOLEAN]) /\ Len(indBox) <= IndMbox
  BY IndAssumption DEF IndInit
<1>3. hand \in Hands /\ lamp \in Lamps /\ fex \in Knowledge
  BY DEF IndInit, Hands, Lamps, Knowledge
<1>4. missed \in BOOLEAN /\ events \in EventTypes
  <2>1. missed = FALSE /\ events = [changes |-> 0, turns |-> 0]
    BY DEF IndInit
  <2>2. MaxEvents \in Nat /\ MaxTurns \in Nat
    BY IndAssumption
  <2>3. events \in EventTypes
    BY <2>1, <2>2 DEF EventTypes
  <2>4. missed \in BOOLEAN
    BY <2>1, Zenon
  <2>. QED BY <2>3, <2>4
<1>5. setter \in SetterTypes
  <2>1. NoSetting \in FailureSets
    BY DEF NoSetting, FailureSets, Knowledge
  <2>2. setter = [failure |-> [t \in Setters |-> NoSetting], activation |-> FALSE]
    BY DEF IndInit
  <2>. HIDE DEF NoSetting
  <2>3. [t \in Setters |-> NoSetting] \in [Setters -> FailureSets]
    BY <2>1
  <2>. QED BY <2>2, <2>3 DEF SetterTypes
<1>. QED BY <1>1, <1>2, <1>3, <1>4, <1>5 DEF IndTypeOK, SetterTypes, FailureSets, EventTypes

IndMessages == [sign : Signs, again : BOOLEAN]

\* What is sent is in the mailbox or lost.
LEMMA SendTypes ==
  ASSUME indBox \in Seq(IndMessages), Len(indBox) <= IndMbox, missed \in BOOLEAN,
         NEW m \in IndMessages, Send(m)
  PROVE  indBox' \in Seq(IndMessages) /\ Len(indBox') <= IndMbox /\ missed' \in BOOLEAN
<1>1. IndMbox \in Nat /\ Len(indBox) \in Nat
  BY IndAssumption
<1>2. CASE Len(indBox) < IndMbox
  <2>1. indBox' = Append(indBox, m)
    BY <1>2 DEF Send
  <2>2. Append(indBox, m) \in Seq(IndMessages) /\ Len(Append(indBox, m)) = Len(indBox) + 1
    OBVIOUS
  <2>. QED BY <1>1, <1>2, <2>1, <2>2 DEF Send
<1>3. CASE ~(Len(indBox) < IndMbox)
  BY <1>3 DEF Send
<1>. QED BY <1>2, <1>3

\* What a handler leaves has its type, whatever it sends.
LEMMA IndTypesFollow ==
  ASSUME IndTypeOK,
         ind' \in [current : Signs, stage : 0..(IgnOnSteps + IgnOffSteps + 1)],
         hand' \in Hands, lamp' \in Lamps, fex' \in Knowledge,
         setter' \in SetterTypes, events' \in EventTypes,
         UNCHANGED <<indBox, missed>> \/ \E m \in IndMessages : Send(m)
  PROVE  IndTypeOK'
<1>1. indBox' \in Seq(IndMessages) /\ Len(indBox') <= IndMbox /\ missed' \in BOOLEAN
  <2>1. indBox \in Seq(IndMessages) /\ Len(indBox) <= IndMbox /\ missed \in BOOLEAN
    BY DEF IndTypeOK, IndMessages
  <2>2. CASE UNCHANGED <<indBox, missed>>
    BY <2>1, <2>2
  <2>3. ASSUME NEW m \in IndMessages, Send(m)
        PROVE  indBox' \in Seq(IndMessages) /\ Len(indBox') <= IndMbox /\ missed' \in BOOLEAN
    BY <2>1, <2>3, SendTypes
  <2>. QED BY <2>2, <2>3
<1>. QED BY <1>1 DEF IndTypeOK, IndMessages, SetterTypes, FailureSets, EventTypes

LEMMA SignsAndHands ==
  /\ Signs \subseteq Hands /\ CallSigns \subseteq Signs
  /\ {"free", "recording", "noFailure"} \subseteq Hands
  /\ FailureSigns \subseteq Signs
  /\ {"SHOW_IGN_ON", "SHOW_IGN_OFF", "CANCEL_FLASHING", "SHOW_TEST_STARTED", "ACTIVATED",
      "SPEC_FUNC", "NO_TASK"} \subseteq Signs
  /\ \A c \in Signs : New(c) \in IndMessages /\ Again(c) \in IndMessages
<1>1. \A c \in Signs : New(c) \in IndMessages /\ Again(c) \in IndMessages
  BY DEF New, Again, IndMessages
<1>. QED BY <1>1 DEF Signs, Hands

\* What a command leaves up to the first sleep.
LEMMA ShownTypes ==
  ASSUME IndTypeOK, NEW c \in Signs, NEW new \in BOOLEAN, Shown(c, new)
  PROVE  /\ ind' \in [current : Signs, stage : 0..(IgnOnSteps + IgnOffSteps + 1)]
         /\ hand' \in Hands /\ lamp' \in Lamps
<1>0. /\ ind \in [current : Signs, stage : 0..(IgnOnSteps + IgnOffSteps + 1)]
      /\ lamp \in Lamps /\ 0 \in 0..(IgnOnSteps + IgnOffSteps + 1)
      /\ "GREEN" \in Lamps /\ "NO_TASK" \in Signs
      /\ c \in Hands /\ "free" \in Hands /\ "recording" \in Hands
  BY IndAssumption, SignsAndHands DEF IndTypeOK, Lamps
<1>1. hand' \in Hands /\ lamp' \in Lamps
  BY <1>0 DEF Shown
<1>. DEFINE st == IF new THEN 0 ELSE ind.stage
<1>2. st \in 0..(IgnOnSteps + IgnOffSteps + 1)
  BY <1>0
<1>3. \/ ind' = [ind EXCEPT !.current = "NO_TASK"]
      \/ ind' = [ind EXCEPT !.current = c]
      \/ ind' = [current |-> c, stage |-> st]
  BY DEF Shown
<1>. HIDE DEF st
<1>4. ind' \in [current : Signs, stage : 0..(IgnOnSteps + IgnOffSteps + 1)]
  BY <1>0, <1>2, <1>3
<1>. QED BY <1>1, <1>4

LEMMA TakeTypes ==
  ASSUME IndTypeOK, TakeCommand \/ TakeContinuation
  PROVE  IndTypeOK'
<1>0. /\ indBox # <<>> /\ indBox' = Tail(indBox)
      /\ UNCHANGED <<car, show, fex, setter, missed, events>>
  BY DEF TakeCommand, TakeContinuation
<1>1. indBox \in Seq(IndMessages) /\ Len(indBox) <= IndMbox /\ IndMbox \in Nat
  BY IndAssumption DEF IndTypeOK, IndMessages
<1>2. /\ indBox' \in Seq(IndMessages) /\ Len(indBox') <= IndMbox
      /\ Head(indBox) \in IndMessages
  <2>1. Head(indBox) \in IndMessages /\ Tail(indBox) \in Seq(IndMessages)
        /\ Len(Tail(indBox)) = Len(indBox) - 1 /\ Len(indBox) \in Nat
    BY <1>0, <1>1
  <2>. QED BY <1>0, <1>1, <2>1
<1>3. Head(indBox).sign \in Signs
  BY <1>2 DEF IndMessages
<1>4. /\ ind' \in [current : Signs, stage : 0..(IgnOnSteps + IgnOffSteps + 1)]
      /\ hand' \in Hands /\ lamp' \in Lamps
  <2>1. CASE UNCHANGED <<ind, hand, lamp>>
    BY <2>1 DEF IndTypeOK
  <2>2. CASE TakeCommand /\ Shown(TakenFor(Head(indBox).sign), TRUE)
    <3>1. TakenFor(Head(indBox).sign) \in Signs
      BY <1>3, SignsAndHands DEF TakenFor, FailureSigns
    <3>. QED BY <2>2, <3>1, ShownTypes
  <2>3. CASE TakeContinuation /\ Shown(Head(indBox).sign, FALSE)
    BY <1>3, <2>3, ShownTypes
  <2>. QED BY <2>1, <2>2, <2>3 DEF TakeCommand, TakeContinuation
<1>. QED BY <1>0, <1>2, <1>4 DEF IndTypeOK, IndMessages

LEMMA HandlerTypes ==
  ASSUME IndTypeOK,
         \/ Recording \/ Activated \/ NotActivated \/ IgnitionOff \/ IgnitionOn \/ Failures
         \/ NoFailure \/ CallSign \/ RingSign \/ TestSign \/ SpecialFunctions
  PROVE  IndTypeOK'
<1>. DEFINE Stages == 0..(IgnOnSteps + IgnOffSteps + 1)
            NoTask == [ind EXCEPT !.current = "NO_TASK"]
            Next == [ind EXCEPT !.stage = @ + 1]
            Sends == UNCHANGED <<indBox, missed>> \/ \E m \in IndMessages : Send(m)
<1>0. /\ ind \in [current : Signs, stage : Stages] /\ hand \in Hands /\ lamp \in Lamps
      /\ fex \in Knowledge /\ setter \in SetterTypes
      /\ events \in EventTypes /\ ind.current \in Signs
  BY DEF IndTypeOK, SetterTypes, FailureSets, EventTypes
<1>1. NoTask \in [current : Signs, stage : Stages]
  BY <1>0, SignsAndHands
<1>2. ASSUME ind.stage <= IgnOnSteps \/ ind.stage < IgnOffSteps
      PROVE  Next \in [current : Signs, stage : Stages]
  <2>1. ind.stage + 1 \in Stages
    BY <1>0, <1>2, IndAssumption
  <2>. QED BY <1>0, <2>1
<1>3. {"RED", "GREEN", "YELLOW", "CHANGING"} = Lamps /\ Toggled \in Lamps
  BY DEF Lamps, Toggled
<1>4. (\E c \in Signs : Send(New(c)) \/ Send(Again(c))) => Sends
  BY SignsAndHands
<1>5. GoOn => Sends
  BY <1>0, <1>4 DEF GoOn
<1>6. ASSUME NEW c \in Signs, NoTaskThen(c)
      PROVE  Sends /\ ind' \in [current : Signs, stage : Stages]
  BY <1>1, <1>4, <1>6 DEF NoTaskThen
<1>7. UNCHANGED <<setter, events>> /\ hand' \in Hands
  BY SignsAndHands DEF Recording, Activated, NotActivated, IgnitionOff, IgnitionOn, Failures,
     NoFailure, CallSign, RingSign, TestSign, SpecialFunctions, Done, HandUnchanged
<1>8. fex' \in Knowledge
  <2>1. Known(show) \in Knowledge
    BY DEF Known, Knowledge
  <2>. QED BY <1>0, <2>1 DEF Recording, Activated, NotActivated, IgnitionOff, IgnitionOn,
     Failures, NoFailure, CallSign, RingSign, TestSign, SpecialFunctions
<1>9. lamp' \in Lamps
  BY <1>0, <1>3 DEF Recording, Activated, NotActivated, IgnitionOff, IgnitionOn,
     Failures, NoFailure, CallSign, RingSign, TestSign, SpecialFunctions
<1>10. /\ "SHOW_FAILURE" \in Signs /\ "CANCEL_FLASHING" \in Signs /\ "NO_ACTIVATED" \in Signs
  BY SignsAndHands DEF FailureSigns
<1>. HIDE DEF Sends, NoTask, Next, Stages
<1>11. Sends /\ ind' \in [current : Signs, stage : Stages]
  <2>1. CASE Recording \/ NoFailure \/ CallSign \/ NotActivated
    BY <1>0, <1>5, <2>1 DEF Recording, NoFailure, CallSign, NotActivated, Sends
  <2>2. CASE Activated \/ SpecialFunctions
    BY <1>6, <1>10, <2>2 DEF Activated, SpecialFunctions
  <2>3. CASE IgnitionOff
    BY <1>0, <1>2, <1>5, <2>3 DEF IgnitionOff, Sends, Next
  <2>4. CASE IgnitionOn
    BY <1>0, <1>2, <1>5, <1>6, <1>10, <2>4 DEF IgnitionOn, Next
  <2>5. CASE Failures
    <3>1. Sends
      BY <1>4, <1>5, <1>10, <2>5 DEF Failures, Sends
    <3>. QED BY <1>0, <2>5, <3>1 DEF Failures
  <2>6. CASE RingSign \/ TestSign
    BY <1>0, <1>5, <1>6, <1>10, <2>6 DEF RingSign, TestSign
  <2>. QED BY <2>1, <2>2, <2>3, <2>4, <2>5, <2>6
<1>. QED BY <1>0, <1>7, <1>8, <1>9, <1>11, IndTypesFollow DEF Sends, Stages

\* Where a change of a failure goes next.
LEMMA MovesTypes ==
  ASSUME IndTypeOK, NEW t \in Setters, NEW c \in FailureSets, Moves(t, c)
  PROVE  setter' \in SetterTypes
BY DEF IndTypeOK, SetterTypes, FailureSets, Moves

LEMMA SetterTypesKept ==
  ASSUME IndTypeOK, SettersNext \/ \E t \in Setters, level \in {"high", "low"}, on \in BOOLEAN :
                                     SetFailure(t, level, on)
  PROVE  IndTypeOK'
<1>. DEFINE Sends == UNCHANGED <<indBox, missed>> \/ \E m \in IndMessages : Send(m)
<1>0. /\ ind \in [current : Signs, stage : 0..(IgnOnSteps + IgnOffSteps + 1)]
      /\ hand \in Hands /\ lamp \in Lamps
      /\ fex \in Knowledge /\ setter \in SetterTypes /\ events \in EventTypes
      /\ MaxEvents \in Nat /\ MaxTurns \in Nat
  BY IndAssumption DEF IndTypeOK, SetterTypes, FailureSets, EventTypes
<1>1. NoSetting \in FailureSets /\ Known(show) \in Knowledge
  BY DEF NoSetting, FailureSets, Knowledge, Known
<1>2. \A c \in {"SHOW_FAILURE", "SHOW_NO_FAILURE"} : Send(New(c)) => Sends
  BY SignsAndHands DEF FailureSigns
<1>. HIDE DEF Sends
<1>3. ASSUME NEW t \in Setters, NEW level \in {"high", "low"}, NEW on \in BOOLEAN,
             SetFailure(t, level, on)
      PROVE  IndTypeOK'
  <2>. DEFINE c == [NoSetting EXCEPT !.at = "asked", !.level = level, !.on = on]
  <2>1. c \in FailureSets
    BY <1>1 DEF FailureSets
  <2>. HIDE DEF c
  <2>2. Moves(t, c) /\ Change("failure") /\ UNCHANGED <<ind, hand, lamp, fex, indBox, missed>>
    BY <1>3, Zenon DEF SetFailure, ShowUnchanged, c
  <2>3. setter' \in SetterTypes
    BY <2>1, <2>2, MovesTypes
  <2>4. events' \in EventTypes
    BY <1>0, <2>2 DEF Change, EventTypes
  <2>. QED BY <1>0, <2>2, <2>3, <2>4, IndTypesFollow
<1>4. ASSUME NEW t \in Setters, Remember(t) PROVE IndTypeOK'
  <2>1. [setter.failure[t] EXCEPT !.at = "remembered", !.known = fex] \in FailureSets
    BY <1>0 DEF SetterTypes, FailureSets
  <2>2. setter' \in SetterTypes
    BY <1>4, <2>1, MovesTypes DEF Remember
  <2>. QED BY <1>0, <1>4, <2>2, IndTypesFollow DEF Remember, ShowUnchanged
<1>5. ASSUME NEW t \in Setters, Write(t) PROVE IndTypeOK'
  <2>. DEFINE c == [setter.failure[t] EXCEPT !.at = "written"]
  <2>1. c \in FailureSets
    BY <1>0 DEF SetterTypes, FailureSets
  <2>. HIDE DEF c
  <2>2. Moves(t, c) /\ UNCHANGED <<ind, hand, lamp, fex, events, indBox, missed>>
    BY <1>5, Zenon DEF Write, ShowUnchanged, c
  <2>3. setter' \in SetterTypes
    BY <2>1, <2>2, MovesTypes
  <2>. QED BY <1>0, <2>2, <2>3, IndTypesFollow
<1>6. ASSUME NEW t \in Setters, NotifyInd(t) PROVE IndTypeOK'
  <2>1. setter' \in SetterTypes
    BY <1>1, <1>6, MovesTypes DEF NotifyInd
  <2>2. Sends
    BY <1>2, <1>6 DEF NotifyInd, Sends
  <2>. QED BY <1>0, <1>1, <1>6, <2>1, <2>2, IndTypesFollow DEF NotifyInd, ShowUnchanged, Sends
<1>7. CASE SetActivation
  <2>1. setter' \in SetterTypes
    BY <1>0, <1>7 DEF SetActivation, SetterTypes
  <2>. QED BY <1>0, <1>7, <2>1, IndTypesFollow DEF SetActivation, ShowUnchanged
<1>. QED BY <1>3, <1>4, <1>5, <1>6, <1>7 DEF SettersNext

LEMMA SenderTypes ==
  ASSUME IndTypeOK, SettersNext \/ IndEvents
  PROVE  IndTypeOK'
<1>. DEFINE Sends == UNCHANGED <<indBox, missed>> \/ \E m \in IndMessages : Send(m)
            Changed == Change("call") \/ Change("test") \/ Change("mode") \/ Change("special")
                       \/ Change("clear") \/ Change("activation")
            Others == \/ \E c \in CallSigns : CallShows(c)
                      \/ CallEnded \/ TestShows \/ TestEnded \/ RecordAudio
                      \/ ClearFailures \/ SendActivation \/ Ignition \/ TestMode \/ SpecFunc
<1>0. /\ ind \in [current : Signs, stage : 0..(IgnOnSteps + IgnOffSteps + 1)]
      /\ hand \in Hands /\ lamp \in Lamps
      /\ fex \in Knowledge /\ setter \in SetterTypes /\ events \in EventTypes
      /\ MaxEvents \in Nat /\ MaxTurns \in Nat
  BY IndAssumption DEF IndTypeOK, SetterTypes, FailureSets, EventTypes
<1>1. CASE SettersNext \/ \E t \in Setters, level \in {"high", "low"}, on \in BOOLEAN :
                            SetFailure(t, level, on)
  BY <1>1, SetterTypesKept
<1>2. CASE Others
  <2>1. UNCHANGED <<ind, hand, lamp, fex>>
    BY <1>2 DEF CallShows, CallEnded, TestShows, TestEnded, RecordAudio, ClearFailures,
       SendActivation, Ignition, TestMode, SpecFunc, ShowUnchanged
  <2>2. setter' \in SetterTypes
    BY <1>0, <1>2 DEF SetterTypes, CallShows, CallEnded, TestShows, TestEnded, RecordAudio,
       ClearFailures, SendActivation, Ignition, TestMode, SpecFunc
  <2>3. events' \in EventTypes
    <3>1. CASE Changed
      BY <1>0, <3>1 DEF Change, EventTypes
    <3>2. CASE Ignition
      BY <1>0, <3>2 DEF Ignition, EventTypes
    <3>3. CASE UNCHANGED events
      BY <1>0, <3>3
    <3>. QED BY <1>2, <3>1, <3>2, <3>3 DEF CallShows, CallEnded, TestShows, TestEnded,
         RecordAudio, ClearFailures, SendActivation, TestMode, SpecFunc
  <2>4. \A c \in Signs : Send(New(c)) => Sends
    BY SignsAndHands
  <2>5. /\ {"SHOW_FAILURE", "SHOW_NO_FAILURE", "NO_ACTIVATED", "ACTIVATED", "SHOW_IGN_OFF",
            "SHOW_IGN_ON", "CANCEL_FLASHING", "SHOW_TEST_STARTED", "SPEC_FUNC"} \subseteq Signs
        /\ CallSigns \subseteq Signs
    BY SignsAndHands DEF FailureSigns
  <2>. HIDE DEF Sends
  <2>6. Sends
    <3>1. CASE RecordAudio \/ TestMode
      BY <2>4, <2>5, <3>1 DEF RecordAudio, TestMode, Sends
    <3>2. ASSUME NEW c \in CallSigns, CallShows(c) PROVE Sends
      BY <2>4, <2>5, <3>2 DEF CallShows
    <3>3. CASE CallEnded \/ TestShows \/ TestEnded \/ ClearFailures \/ SpecFunc
      BY <2>4, <2>5, <3>3 DEF CallEnded, TestShows, TestEnded, ClearFailures, SpecFunc
    <3>4. CASE SendActivation \/ Ignition
      BY <2>4, <2>5, <3>4 DEF SendActivation, Ignition
    <3>. QED BY <1>2, <3>1, <3>2, <3>3, <3>4
  <2>. QED BY <1>0, <2>1, <2>2, <2>3, <2>6, IndTypesFollow DEF Sends
<1>. QED BY <1>1, <1>2 DEF IndEvents

LEMMA IndTypesStep == IndTypeOK /\ [IndNext]_indVars => IndTypeOK'
<1>. SUFFICES ASSUME IndTypeOK, [IndNext]_indVars PROVE IndTypeOK'
  OBVIOUS
<1>1. CASE TakeCommand \/ TakeContinuation
  BY <1>1, TakeTypes
<1>2. CASE \/ Recording \/ Activated \/ NotActivated \/ IgnitionOff \/ IgnitionOn \/ Failures
           \/ NoFailure \/ CallSign \/ RingSign \/ TestSign \/ SpecialFunctions
  BY <1>2, HandlerTypes
<1>3. CASE SettersNext \/ IndEvents
  BY <1>3, SenderTypes
<1>4. CASE UNCHANGED indVars
  BY <1>4 DEF indVars, IndTypeOK
<1>. QED BY <1>1, <1>2, <1>3, <1>4 DEF IndNext, IndTaskNext

\* The counters of the buttons with their limits.
Counted ==
  [isInit : BOOLEAN, sos : BOOLEAN, diag : BOOLEAN, service : BOOLEAN,
   stuckCnt : 0..(StuckTicks + 1), stuck : BOOLEAN, ignition : BOOLEAN,
   ignCnt : 0..IgnTicks, ignRead : 0..1, hasEraCall : BOOLEAN,
   manual : 0..(ManualTicks + 1), iter : 0..(FastTicks + 1),
   test : 0..(Presses + 2), pause : 0..(PauseTicks + 1)]

LEMMA Ticks ==
  /\ ManualTicks \in Nat \ {0} /\ FastTicks \in Nat \ {0} /\ PauseTicks \in Nat \ {0}
  /\ StuckTicks \in Nat \ {0} /\ IgnTicks \in Nat \ {0}
  /\ Presses \in Nat \ {0}
BY GpioAssumption

LEMMA Zeros ==
  /\ 0 \in 0..(StuckTicks + 1) /\ 0 \in 0..IgnTicks /\ 0 \in 0..(ManualTicks + 1)
  /\ 1 \in 0..(ManualTicks + 1) /\ 0 \in 0..(FastTicks + 1) /\ 0 \in 0..(Presses + 2)
  /\ 0 \in 0..(PauseTicks + 1) /\ 0 \in 0..1
BY Ticks

LEMMA UpToLimit ==
  ASSUME NEW n \in Nat, NEW limit \in Nat
  PROVE  UpTo(n, limit) \in 0..limit
BY DEF UpTo

\* No part of a cycle counts further than its limit.
LEMMA PartsCount ==
  ASSUME NEW g \in Counted, NEW in \in Lines
  PROVE  /\ StuckSos(g) \in Counted /\ KL15State(g, in) \in Counted
         /\ ServiceState(g, in) \in Counted /\ ManualSos(g) \in Counted
         /\ EraTestCall(g) \in Counted
<1>0. ResetTest(g) \in Counted
  BY Zeros DEF ResetTest, Counted
<1>1. StuckSos(g) \in Counted
  <2>. DEFINE n == UpTo(g.stuckCnt + 1, StuckTicks + 1)
              st == g.stuck \/ g.stuckCnt + 1 = StuckTicks
  <2>1. n \in 0..(StuckTicks + 1)
    <3>1. g.stuckCnt + 1 \in Nat
      BY Ticks DEF Counted
    <3>2. StuckTicks + 1 \in Nat
      BY Ticks
    <3>. QED BY <3>1, <3>2, UpToLimit
  <2>2. st \in BOOLEAN
    BY DEF Counted
  <2>3. \/ StuckSos(g) = [g EXCEPT !.stuckCnt = n, !.stuck = st]
        \/ StuckSos(g) = [g EXCEPT !.stuckCnt = 0, !.stuck = FALSE]
    BY DEF StuckSos
  <2>. DEFINE h == StuckSos(g)
  <2>4. 0 \in 0..(StuckTicks + 1)
    BY Zeros
  <2>. HIDE DEF n, st, h
  <2>5. CASE h = [g EXCEPT !.stuckCnt = n, !.stuck = st]
    <3>1. h \in Counted
      BY <2>1, <2>2, <2>5 DEF Counted
    <3>. QED BY <3>1 DEF h
  <2>6. CASE h = [g EXCEPT !.stuckCnt = 0, !.stuck = FALSE]
    <3>1. h \in Counted
      BY <2>4, <2>6 DEF Counted
    <3>. QED BY <3>1 DEF h
  <2>. QED BY <2>3, <2>5, <2>6 DEF h
<1>2. KL15State(g, in) \in Counted
  <2>. DEFINE cnt == IF in.ign # g.ignRead THEN 0 ELSE g.ignCnt
              c == cnt + 1
              on == in.ign = 0
  <2>1. in.ign \in 0..1 /\ on \in BOOLEAN /\ 0 \in 0..IgnTicks
    BY Ticks DEF Lines
  <2>2. cnt < IgnTicks => c \in 0..IgnTicks
    BY Ticks DEF Counted
  <2>3. cnt \in Nat /\ IgnTicks \in Nat
    BY Ticks DEF Counted
  <2>4. \/ KL15State(g, in) = [g EXCEPT !.ignition = on, !.ignCnt = 0, !.ignRead = in.ign]
        \/ c \in 0..IgnTicks /\ KL15State(g, in) = [g EXCEPT !.ignCnt = c, !.ignRead = in.ign]
    BY <2>2, <2>3 DEF KL15State
  <2>. DEFINE h == KL15State(g, in)
  <2>. HIDE DEF cnt, c, on, h
  <2>5. CASE h = [g EXCEPT !.ignition = on, !.ignCnt = 0, !.ignRead = in.ign]
    <3>1. h \in Counted
      BY <2>1, <2>5 DEF Counted
    <3>. QED BY <3>1 DEF h
  <2>6. CASE c \in 0..IgnTicks /\ h = [g EXCEPT !.ignCnt = c, !.ignRead = in.ign]
    <3>1. h \in Counted
      BY <2>1, <2>6 DEF Counted
    <3>. QED BY <3>1 DEF h
  <2>. QED BY <2>4, <2>5, <2>6 DEF h
<1>3. ServiceState(g, in) \in Counted
  <2>1. (in.service = 1) \in BOOLEAN
    OBVIOUS
  <2>. QED BY <2>1 DEF ServiceState, Counted
<1>4. ManualSos(g) \in Counted
  <2>. DEFINE n == UpTo(g.manual + 1, ManualTicks + 1)
              r == ResetTest(g)
  <2>1. n \in 0..(ManualTicks + 1)
    <3>1. g.manual + 1 \in Nat
      BY Ticks DEF Counted
    <3>2. ManualTicks + 1 \in Nat
      BY Ticks
    <3>. QED BY <3>1, <3>2, UpToLimit
  <2>2. \/ ManualSos(g) = [r EXCEPT !.hasEraCall = TRUE, !.manual = 1]
        \/ ManualSos(g) = [g EXCEPT !.manual = n]
        \/ ManualSos(g) = [g EXCEPT !.hasEraCall = FALSE, !.manual = 0]
    BY DEF ManualSos
  <2>3. r \in Counted
    BY <1>0
  <2>. DEFINE h == ManualSos(g)
  <2>4. \/ h = [r EXCEPT !.hasEraCall = TRUE, !.manual = 1]
        \/ h = [g EXCEPT !.manual = n] \/ h = [g EXCEPT !.hasEraCall = FALSE, !.manual = 0]
    BY <2>2
  <2>. HIDE DEF n, r, h
  <2>5. CASE h = [r EXCEPT !.hasEraCall = TRUE, !.manual = 1]
    <3>1. h \in Counted
      BY <2>3, <2>5, Zeros DEF Counted
    <3>. QED BY <3>1 DEF h
  <2>6. CASE h = [g EXCEPT !.manual = n]
    <3>1. h \in Counted
      BY <2>1, <2>6 DEF Counted
    <3>. QED BY <3>1 DEF h
  <2>7. CASE h = [g EXCEPT !.hasEraCall = FALSE, !.manual = 0]
    <3>0. 0 \in 0..(ManualTicks + 1)
      BY Zeros
    <3>1. h \in Counted
      BY <2>7, <3>0 DEF Counted
    <3>. QED BY <3>1 DEF h
  <2>. QED BY <2>4, <2>5, <2>6, <2>7
<1>5. EraTestCall(g) \in Counted
  <2>. DEFINE r == ResetTest(g)
              h == EraTestCall(g)
              i == g.iter + 1
              p == g.pause + 1
              t == IF g.pause = 0 THEN UpTo(g.test + 1, Presses + 2) ELSE g.test
  <2>1. t \in 0..(Presses + 2)
    <3>1. g.test + 1 \in Nat
      BY Ticks DEF Counted
    <3>2. g.test \in 0..(Presses + 2)
      BY DEF Counted
    <3>3. Presses + 2 \in Nat
      BY Ticks
    <3>4. UpTo(g.test + 1, Presses + 2) \in 0..(Presses + 2)
      BY <3>1, <3>3, UpToLimit
    <3>. QED BY <3>2, <3>4
  <2>2. g.iter <= FastTicks => i \in 0..(FastTicks + 1)
    BY Ticks DEF Counted
  <2>3. g.pause <= PauseTicks => p \in 0..(PauseTicks + 1)
    BY Ticks DEF Counted
  <2>4. g.iter \in Nat /\ g.pause \in Nat /\ FastTicks \in Nat /\ PauseTicks \in Nat
    BY Ticks DEF Counted
  <2>5. \/ h = r \/ h = [r EXCEPT !.hasEraCall = TRUE, !.manual = 0]
        \/ i \in 0..(FastTicks + 1) /\ h = [g EXCEPT !.pause = 0, !.iter = i]
        \/ p \in 0..(PauseTicks + 1) /\ h = [g EXCEPT !.iter = 0, !.pause = p, !.test = t]
    BY <2>2, <2>3, <2>4 DEF EraTestCall
  <2>6. r \in Counted
    BY <1>0
  <2>. HIDE DEF r, h, i, p, t
  <2>7. CASE h = r \/ h = [r EXCEPT !.hasEraCall = TRUE, !.manual = 0]
    <3>0. 0 \in 0..(ManualTicks + 1)
      BY Zeros
    <3>1. h \in Counted
      BY <2>6, <2>7, <3>0 DEF Counted
    <3>. QED BY <3>1 DEF h
  <2>8. CASE i \in 0..(FastTicks + 1) /\ h = [g EXCEPT !.pause = 0, !.iter = i]
    <3>0. 0 \in 0..(PauseTicks + 1)
      BY Zeros
    <3>1. h \in Counted
      BY <2>8, <3>0 DEF Counted
    <3>. QED BY <3>1 DEF h
  <2>9. CASE p \in 0..(PauseTicks + 1) /\ h = [g EXCEPT !.iter = 0, !.pause = p, !.test = t]
    <3>0. 0 \in 0..(FastTicks + 1)
      BY Zeros
    <3>1. h \in Counted
      BY <2>1, <2>9, <3>0 DEF Counted
    <3>. QED BY <3>1 DEF h
  <2>. QED BY <2>5, <2>7, <2>8, <2>9
<1>. QED BY <1>1, <1>2, <1>3, <1>4, <1>5

GpioInv == PressesInv /\ GpioTypeOK

LEMMA GpioInvInit == GpioInit => GpioInv
<1>. SUFFICES ASSUME GpioInit PROVE GpioTypeOK
  BY PressesInvInit DEF GpioInv
<1>1. gpio \in Counted
  BY Ticks DEF GpioInit, Counted
<1>2. sent \in Seq(GpioEvents)
  <2>1. "EV_SOS_UNSTUCK" \in GpioEvents
    BY DEF GpioEvents
  <2>2. sent = <<"EV_SOS_UNSTUCK">>
    BY DEF GpioInit
  <2>. QED BY <2>1, <2>2
<1>3. sosBreak \in BOOLEAN
  BY DEF GpioInit
<1>. QED BY <1>1, <1>2, <1>3 DEF GpioTypeOK, Counted

LEMMA GpioInvStep == GpioInv /\ [GpioNext]_gpioVars => GpioInv'
<1>. SUFFICES ASSUME GpioInv, [GpioNext]_gpioVars PROVE GpioTypeOK'
  BY PressesInvStep DEF GpioInv
<1>0. GpioTypes /\ sosBreak \in BOOLEAN /\ gpio \in Counted
  BY DEF GpioInv, PressesInv, GpioTypeOK, Counted
<1>1. ASSUME NEW in \in Lines, WatchProcess(in) PROVE GpioTypeOK'
  <2>. DEFINE g1 == SosState(in)
              g2 == StuckSos(g1)
              g3 == KL15State(g2, in)
              g4 == ServiceState(g3, in)
              g5 == ManualSos(g4)
              g6 == EraTestCall(g5)
  <2>1. g1 \in Counted
    <3>3. SosNow(in) \in BOOLEAN /\ DiagNow(in) \in BOOLEAN
      BY DEF SosNow, DiagNow
    <3>. QED BY <1>0, <3>3 DEF SosState, Counted
  <2>2. gpio' = [g6 EXCEPT !.isInit = TRUE]
    BY <1>1 DEF WatchProcess
  <2>. HIDE DEF g1
  <2>3. g2 \in Counted
    BY <2>1, PartsCount
  <2>. HIDE DEF g2
  <2>4. g3 \in Counted
    BY <2>3, PartsCount
  <2>. HIDE DEF g3
  <2>5. g4 \in Counted
    BY <2>4, PartsCount
  <2>. HIDE DEF g4
  <2>6. g5 \in Counted
    BY <2>5, PartsCount
  <2>. HIDE DEF g5
  <2>7. g6 \in Counted
    BY <2>6, PartsCount
  <2>. HIDE DEF g6
  <2>8. gpio' \in Counted
    BY <2>2, <2>7 DEF Counted
  <2>9. sent' \in Seq(GpioEvents) /\ sosBreak' \in BOOLEAN
    BY <1>0, <1>1, EventsOfCycle
  <2>. QED BY <2>8, <2>9 DEF GpioTypeOK, Counted
<1>2. CASE UNCHANGED gpioVars
  BY <1>2 DEF gpioVars, GpioInv, GpioTypeOK
<1>3. CASE ButtonFailureCleared
  <2>1. gpio' = gpio /\ sosBreak' = FALSE /\ sent' = <<>>
    BY <1>3 DEF ButtonFailureCleared
  <2>2. <<>> \in Seq(GpioEvents)
    OBVIOUS
  <2>. QED BY <1>0, <2>1, <2>2 DEF GpioTypeOK, Counted
<1>. QED BY <1>1, <1>2, <1>3 DEF GpioNext

BoardInv == IndTypeOK /\ ApInv /\ StInv /\ GpioInv /\ ChargerInv

\* A step of the board is a step of one part, and of every other none.
LEMMA PartsStep ==
  [BoardNext]_boardVars =>
    /\ [IndNext]_indVars /\ [ApNext]_apVars /\ [StNext]_selfTestVars
    /\ [GpioNext]_gpioVars /\ [ChargerNext]_chargerVars
BY DEF BoardNext, boardVars

\* Every variable of the board has its type: the mailboxes keep to their places, and no
\* counter of a button runs past its limit, for all limits, tones, tests and commands.
THEOREM BoardTypeCorrect == BoardSpec => []TypeOK
<1>1. BoardInit => BoardInv
  BY IndTypesInit, ApInvInit, StInvInit, GpioInvInit, ChargerInvInit DEF BoardInit, BoardInv
<1>2. BoardInv /\ [BoardNext]_boardVars => BoardInv'
  BY PartsStep, IndTypesStep, ApInvStep, StInvStep, GpioInvStep, ChargerInvStep DEF BoardInv
<1>3. BoardInv => TypeOK
  BY DEF BoardInv, TypeOK, ApInv, StInv, GpioInv, ChargerInv
<1>. QED BY <1>1, <1>2, <1>3, PTL DEF BoardSpec
=============================================================================
