---------------------------- MODULE MCDvpController ----------------------------
(***************************************************************************)
(* Three halves a frame, so that the ring is used more than once.           *)
(***************************************************************************)
EXTENDS DvpController, TLC
===============================================================================
