-------------------------- MODULE MCEmergencyCall --------------------------
(* The emergency call on small instances.                                   *)
EXTENDS EmergencyCall
============================================================================
