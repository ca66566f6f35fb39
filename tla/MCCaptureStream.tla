---------------------------- MODULE MCCaptureStream ----------------------------
(***************************************************************************)
(* Instances of CaptureStream for TLC.                                      *)
(***************************************************************************)
EXTENDS CaptureStream

CONSTANTS a1, a2, r1, r2

===============================================================================
