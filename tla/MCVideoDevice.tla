----------------------------- MODULE MCVideoDevice -----------------------------
(***************************************************************************)
(* Two tasks that open and close, and a listener.                           *)
(***************************************************************************)
EXTENDS VideoDevice, TLC

CONSTANTS a1, a2, l
===============================================================================
