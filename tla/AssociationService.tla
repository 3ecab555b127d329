-------------------------- MODULE AssociationService --------------------------
(***************************************************************************)
(* What the association exchange promises, without frames, queues, timers  *)
(* or beacons: the access point issues grants to stations it accepts, each *)
(* grant makes the station a member at most once, and a grant that was not *)
(* used can only disappear.                                                *)
(***************************************************************************)
EXTENDS Naturals

CONSTANTS Sta,       \* the stations
          Barred     \* stations the access point never accepts

VARIABLES member,    \* stations that take themselves for associated
          grants     \* per station, grants that were issued and not used

svars == <<member, grants>>

ServiceInit == member = {} /\ grants = [s \in Sta |-> 0]

Grant(s) ==
  /\ s \notin Barred
  /\ grants' = [grants EXCEPT ![s] = @ + 1]
  /\ UNCHANGED member

Join(s) ==
  /\ grants[s] > 0
  /\ s \notin member
  /\ grants' = [grants EXCEPT ![s] = @ - 1]
  /\ member' = member \cup {s}

Withdraw(s) ==
  /\ grants[s] > 0
  /\ grants' = [grants EXCEPT ![s] = @ - 1]
  /\ UNCHANGED member

Leave(s) ==
  /\ s \in member
  /\ member' = member \ {s}
  /\ UNCHANGED grants

ServiceNext == \E s \in Sta : Grant(s) \/ Join(s) \/ Withdraw(s) \/ Leave(s)

ServiceSpec == ServiceInit /\ [][ServiceNext]_svars
=============================================================================
