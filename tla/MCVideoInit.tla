------------------------------ MODULE MCVideoInit ------------------------------
(***************************************************************************)
(* Instances of VideoInit for TLC.                                          *)
(***************************************************************************)
EXTENDS VideoInit

\* Two MIPI-CSI and two SPI sensor drivers and one for DVP; CSI and DVP share a bus.
DetectArray == <<"csi", "spi", "dvp", "csi", "spi">>
Ports == [c \in Cameras |-> IF c = "spi" THEN 1 ELSE 0]

===============================================================================
