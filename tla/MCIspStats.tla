------------------------------ MODULE MCIspStats ------------------------------
(***************************************************************************)
(* Instances of IspStats for TLC.                                           *)
(***************************************************************************)
EXTENDS IspStats

CONSTANTS ae, hist, awb, r1, r2
===============================================================================
