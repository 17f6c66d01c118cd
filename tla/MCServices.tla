----------------------------- MODULE MCServices -----------------------------
(***************************************************************************)
(* Two services of the calls on small instances: the timers and the task   *)
(* that sends MSDs by SMS.  They share no variable, so one of them at a    *)
(* time takes steps, the subject, and the other stays where it begins.     *)
(***************************************************************************)
EXTENDS Timers, SmsManager

VARIABLE subject

serviceVars == <<timerVars, smsVars, subject>>

ServicesInit ==
  /\ subject \in {"Timers", "SmsManager"}
  /\ Init
  /\ SmsInit /\ (subject # "SmsManager" => buf = <<>> /\ vinOk)

ServicesNext ==
  \/ subject = "Timers" /\ Next /\ UNCHANGED <<smsVars, subject>>
  \/ subject = "SmsManager" /\ SmsNext /\ UNCHANGED <<timerVars, subject>>

\* Fairness of Timers and SmsFairness of SmsManager, for the subject.
ServicesFairness ==
  /\ \A s \in Ids : WF_timerVars(subject = "Timers" /\ Expires(s))
  /\ WF_timerVars(subject = "Timers" /\ TimerTask)
  /\ \A c \in Clients : WF_timerVars(subject = "Timers" /\ InInitTimer(c))
  /\ WF_smsVars(subject = "SmsManager" /\ SmsTask /\ UNCHANGED <<callerVars, vinOk>>)
  /\ WF_smsVars(subject = "SmsManager" /\ TransmExpires /\ UNCHANGED <<callerVars, vinOk>>)

ServicesSpec == ServicesInit /\ [][ServicesNext]_serviceVars /\ ServicesFairness
=============================================================================
