---------------------------------- MODULE Link ----------------------------------
(***************************************************************************)
(* What the MAC promises about the packets one station sends to another,   *)
(* without sequence numbers, retries, acknowledgements or timers: each     *)
(* channel access function hands packets up at the other side in the order *)
(* in which they were queued and never twice, a packet is reported sent    *)
(* only after it was handed up, and a reported packet is not handed up any *)
(* more.  Association uses its links this way.                             *)
(***************************************************************************)
EXTENDS Naturals, Sequences

CONSTANTS Txop,     \* the channel access functions
          Packet,   \* the packets, numbered in the order they are queued
          Owner     \* per packet, the access function it is queued at

VARIABLES got,      \* per access function, the packets handed up
          outcome   \* per packet, what its sender was told

lvars == <<got, outcome>>

LinkInit ==
  /\ got = [t \in Txop |-> <<>>]
  /\ outcome = [p \in Packet |-> "pending"]

Forward(p) ==
  /\ outcome[p] = "pending"
  /\ \A i \in DOMAIN got[Owner[p]] : got[Owner[p]][i] < p
  /\ got' = [got EXCEPT ![Owner[p]] = Append(@, p)]
  /\ UNCHANGED outcome

Confirm(p) ==
  /\ outcome[p] = "pending"
  /\ \E i \in DOMAIN got[Owner[p]] : got[Owner[p]][i] = p
  /\ outcome' = [outcome EXCEPT ![p] = "ok"]
  /\ UNCHANGED got

GiveUp(p) ==
  /\ outcome[p] = "pending"
  /\ \E o \in {"failed", "dropped"} : outcome' = [outcome EXCEPT ![p] = o]
  /\ UNCHANGED got

LinkNext == \E p \in Packet : Forward(p) \/ Confirm(p) \/ GiveUp(p)

LinkSpec == LinkInit /\ [][LinkNext]_lvars
=============================================================================
