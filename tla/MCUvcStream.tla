----------------------------- MODULE MCUvcStream -----------------------------
(***************************************************************************)
(* Instances of UvcStream for TLC.                                          *)
(***************************************************************************)
EXTENDS UvcStream

CONSTANTS t1, t2
===============================================================================
