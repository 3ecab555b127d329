----------------------------- MODULE MCStopAndWait -----------------------------
(* Small instances of StopAndWait: a DcaTxop and an EdcaTxopN that send to *)
(* the same receiver.                                                      *)
EXTENDS StopAndWait, TLC

CONSTANTS dca, edca

OnlyEdca    == {edca}
Both        == {dca, edca}
NoPackets   == {}
OwnTid      == [t \in Txop |-> IF t = dca THEN 0 ELSE 1]
SharedTid   == [t \in Txop |-> 0]
Packets3    == {1, 2, 3}
LastEdca    == [p \in Packet |-> IF p = 3 THEN edca ELSE dca]
Unfragmented == [p \in Packet |-> 1]
FirstInTwo  == [p \in Packet |-> IF p = 1 THEN 2 ELSE 1]
AllDcaInTwo == [p \in Packet |-> IF Owner[p] = dca THEN 2 ELSE 1]
FirstPacket == {1}
Nobody      == {}
Receiver    == {"receiver"}
Sender      == {"sender"}
=============================================================================
