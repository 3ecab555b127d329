----------------------------- MODULE MCAssociation -----------------------------
(* Small instances of Association. *)
EXTENDS Association, TLC

CONSTANTS s1, s2

TwoStations == {s1, s2}
OneStation  == {s1}
NoStations  == {}
Second      == {s2}
Draw0       == [s \in Sta |-> 0]
Draw1       == [s \in Sta |-> 1]
=============================================================================
