------------------------------ MODULE MCRawAccess ------------------------------
(* Small instances of RawAccess: one DcaTxop and one EdcaTxopN.  The slots *)
(* are the first, the second or the last of a RAW of at most 9 units.      *)
EXTENDS RawAccess, TLC

CONSTANTS dca, edca

TheDca  == {dca}
TheEdca == {edca}

Assign(kind, start, slot, end) == [kind |-> kind, start |-> start, slot |-> slot, end |-> end]

FirstSlot  == Assign("own", 0, 3, 5)
LongSlot   == Assign("own", 0, 4, 8)
SecondSlot == Assign("own", 3, 4, 9)
LastSlot   == Assign("own", 2, 3, 5)
OtherGroup == Assign("other", 0, 3, 5)
PagedRaw   == Assign("paged", 0, 3, 5)
UnpagedRaw == Assign("unpaged", 0, 3, 5)

AnySlot    == {FirstSlot, LastSlot, OtherGroup}
WithPaged  == AnySlot \cup {PagedRaw}
EarlySlots == {LongSlot, SecondSlot, UnpagedRaw}

Regular    == {7, 8}
WithinRaw  == {5, 8}
===============================================================================
