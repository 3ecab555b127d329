------------------------------ MODULE MCVisualizer ------------------------------
(* Instances of Visualizer for TLC.                                          *)
EXTENDS Visualizer
CONSTANTS t1, t2, t3, none
Timers == {t1, t2, t3}
=============================================================================
