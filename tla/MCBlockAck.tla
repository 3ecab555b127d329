------------------------------- MODULE MCBlockAck -------------------------------
(* Instances of BlockAck for TLC.                                          *)
EXTENDS BlockAck
Packets4 == 1..4
Packets8 == 1..8
=============================================================================
