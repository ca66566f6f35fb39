---------------------------- MODULE MCSpiController ----------------------------
(***************************************************************************)
(* Instances of SpiController for TLC.                                      *)
(***************************************************************************)
EXTENDS SpiController

CONSTANTS b1, b2, b3

\* What the kernel configuration and the board allow.
AllConfigs == Config

\* The slave driver without the decode task, as the video device uses it.
SlaveConfigs == {c \in Config : c.intf = "spi" /\ ~c.auto_decode}

===============================================================================
