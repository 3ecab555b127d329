------------------------------ MODULE MCTestRunner ------------------------------
(* Instances of TestRunner for TLC: two suites and an example that is skipped. *)
EXTENDS TestRunner
CONSTANTS w1, w2
Workers == {w1, w2}
Suites == {1, 2}
Skips == {3}
=============================================================================
