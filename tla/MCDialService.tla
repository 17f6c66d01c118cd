--------------------------- MODULE MCDialService ---------------------------
(* The dialling service on a small instance.                                *)
EXTENDS DialService
============================================================================
