------------------------------ MODULE MCFlash ------------------------------
(***************************************************************************)
(* What the unit keeps in flash, on small instances: the MSDs, and the     *)
(* parameters that carry a call across a restart.  The two share no        *)
(* variable, so one of them at a time takes steps, the subject, and the    *)
(* other stays where it begins.                                            *)
(***************************************************************************)
EXTENDS MsdStorage, Boot

CONSTANT Subjects

VARIABLE subject

flashVars == <<vars, bootVars, subject>>

FlashInit ==
  /\ subject \in Subjects
  /\ Init
  /\ BootInit /\ (subject # "Boot" => files.main = Absent)

\* A unit that runs without a call and without a restart may stay so.
Rests ==
  at = "run" /\ action = "none" /\ posted = "none" /\ owner = "none" /\ UNCHANGED flashVars

FlashNext ==
  \/ subject = "MsdStorage" /\ Next /\ UNCHANGED <<bootVars, subject>>
  \/ subject = "Boot" /\ BootNext /\ UNCHANGED <<vars, subject>>
  \/ subject = "Boot" /\ Rests

FlashSpec == FlashInit /\ [][FlashNext]_flashVars
============================================================================
