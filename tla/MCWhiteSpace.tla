------------------------------ MODULE MCWhiteSpace ------------------------------
(* An instance of WhiteSpace for TLC, with two of the four channels of       *)
(* spectrumdB.back and channel 3, at 60 MHz: the daughterboard does not      *)
(* support it, and its text is part of the text of 560 MHz.                  *)
EXTENDS WhiteSpace
Channels == {60, 560, 724}
Scraps == {5}
Parts == {<<60, 560>>}
Rests == [p \in Parts |-> 5]
Televisions == {60, 560}
SupportedChannels == {560, 724}
InitiallyAvailable == {724}
InitiallyUsed == {560}
Scanned == <<60, 560, 724>>
=============================================================================
