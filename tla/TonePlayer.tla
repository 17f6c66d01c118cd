---------------------------- MODULE TonePlayer ----------------------------
(***************************************************************************)
(* What the player of audio files promises its callers (a_player.h): one   *)
(* tone at a time, and one callback for every tone asked for, when it is   *)
(* over, or at once when it cannot be played.  The callback runs in the    *)
(* thread that ends the tone, or in the caller's.                          *)
(*                                                                         *)
(* What a callback does is the business of whoever uses this module: the   *)
(* thread is then at "calls", with the tone called back.                   *)
(***************************************************************************)
EXTENDS Naturals

CONSTANTS Requesters,  \* threads that ask for tones, besides the two that end them
          Tones        \* the tones, by the context of their callback

URC == "urc"
TIMER == "timer"
Threads == Requesters \cup {URC, TIMER}

VARIABLES
  tone,   \* the tone that is on
  at      \* where each thread is, and the tone it is about

toneVars == <<tone, at>>

NoTone == "none"
Quiet == [step |-> "idle", tone |-> NoTone]

TpInitTones == tone = NoTone /\ at = [t \in Threads |-> Quiet]

Goes(t, step, c) == at' = [at EXCEPT ![t] = [step |-> step, tone |-> c]]
Is(t, step) == at[t].step = step
Called(t, c) == at[t] = [step |-> "calls", tone |-> c]
Idle(t) == Goes(t, "idle", NoTone)

\* play_audio_file is called; the caller is held until the player is free.
Wants(t, c) == Goes(t, "wants", c)

\* The tone is on, one caller at a time, who goes on when the modem plays; or it does not play.
ToneOn(t) ==
  /\ Is(t, "wants") /\ tone = NoTone /\ \A u \in Threads : ~Is(u, "starts")
  /\ tone' = at[t].tone /\ Goes(t, "starts", at[t].tone)
ToneStarts(t) == Is(t, "starts") /\ Idle(t) /\ UNCHANGED tone
ToneFails(t) ==
  /\ Is(t, "starts") /\ tone = at[t].tone
  /\ tone' = NoTone /\ Goes(t, "calls", at[t].tone)

\* The player stays busy.
ToneRefused(t) == Is(t, "wants") /\ Goes(t, "calls", at[t].tone) /\ UNCHANGED tone

\* The report of the modem, or the timeout.
ToneEnds(t) ==
  /\ Is(t, "idle") /\ t \in {URC, TIMER} /\ tone # NoTone
  /\ tone' = NoTone /\ Goes(t, "calls", tone)

ToneStep(t) == ToneOn(t) \/ ToneStarts(t) \/ ToneFails(t) \/ ToneRefused(t) \/ ToneEnds(t)

\* A caller of its own, or a callback: it asks for a tone or returns.
Client(t) ==
  /\ UNCHANGED tone
  /\ \/ ((Is(t, "idle") /\ t \in Requesters) \/ Is(t, "calls")) /\ \E c \in Tones : Wants(t, c)
     \/ Is(t, "calls") /\ Idle(t)

ToneNext == \E t \in Threads : ToneStep(t) \/ Client(t)
ToneSpec == TpInitTones /\ [][ToneNext]_toneVars
=============================================================================
