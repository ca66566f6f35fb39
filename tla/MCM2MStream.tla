------------------------------ MODULE MCM2MStream ------------------------------
(***************************************************************************)
(* Two buffers on each stream: a pair can be coded while another is queued,  *)
(* and one stream can run ahead of the other.                               *)
(***************************************************************************)
EXTENDS M2MStream, TLC

CONSTANTS t1, t2        \* model values for the tasks
===============================================================================
