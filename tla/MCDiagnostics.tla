--------------------------- MODULE MCDiagnostics ---------------------------
(***************************************************************************)
(* The three protocols of diagnostics on small instances: the transport    *)
(* layer, security access and the transfer of files.  They share no        *)
(* variable and no order of steps ties one to another, so one of them at a *)
(* time takes steps, the subject, and the others stay where they begin.    *)
(***************************************************************************)
EXTENDS SecurityAccess, FileTool, IsoTp

VARIABLE subject

diagVars == <<saVars, ftVars, tpVars, subject>>

DiagInit ==
  /\ subject \in {"SecurityAccess", "FileTool", "IsoTp"}
  /\ SaInit /\ (subject # "SecurityAccess" => ~tmZero)
  /\ FtInit /\ (subject # "FileTool" => disk = [f \in Files |-> Absent])
  /\ TpInit

DiagNext ==
  \/ subject = "SecurityAccess" /\ SaNext /\ UNCHANGED <<ftVars, tpVars, subject>>
  \/ subject = "FileTool" /\ FtNext /\ UNCHANGED <<saVars, tpVars, subject>>
  \/ subject = "IsoTp" /\ TpNext /\ UNCHANGED <<saVars, ftVars, subject>>

DiagFairness ==
  /\ WF_saVars(subject = "SecurityAccess" /\ ReaderNext)
  /\ WF_saVars(subject = "SecurityAccess" /\ SaTaskNext)
  /\ WF_ftVars(subject = "FileTool" /\ FtReaderNext)
  /\ WF_ftVars(subject = "FileTool" /\ FtTaskNext)
  /\ WF_tpVars(subject = "IsoTp" /\ UnitReceives)
  /\ WF_tpVars(subject = "IsoTp" /\ TesterReceives)
  /\ WF_tpVars(subject = "IsoTp" /\ TesterContinues)

\* The types of all three (see there).
TypeOK == SaTypeOK /\ FtTypeOK /\ TpTypeOK

DiagSpec == DiagInit /\ [][DiagNext]_diagVars /\ DiagFairness
============================================================================
