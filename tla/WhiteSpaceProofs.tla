---------------------------- MODULE WhiteSpaceProofs ----------------------------
(***************************************************************************)
(* Theorems about WhiteSpace, for any channels, whichever texts contain    *)
(* each other, any contents of spectrumdB.back, any list of frequencies    *)
(* and any recursion limit.                                                *)
(***************************************************************************)
EXTENDS WhiteSpace, TLAPS

USE WhiteSpaceAssumption

-----------------------------------------------------------------------------
(* The inductive invariant: the index is in front of the end of the list   *)
(* while the slave dwells, and what the poll returned was not reported     *)
(* then.                                                                   *)

IndexInList == slave = "dwelling" => i < Len(Frequencies)
PollKept == centerFreqs \cap reportedThen = {}
IInv == TypeOK /\ IndexInList /\ ReportedIsKept /\ PollKept

LEMMA FrequencyType ==
  ASSUME NEW k \in 1..Len(Frequencies)
  PROVE  /\ Len(Frequencies) \in Nat
         /\ Wrap(k) \in 1..Len(Frequencies) /\ Wrap(k) < Len(Frequencies)
         /\ Frequency(Wrap(k)) \in Channel
<1>1. Len(Frequencies) \in Nat /\ Len(Frequencies) >= 2
  OBVIOUS
<1>2. Wrap(k) \in 1..Len(Frequencies) /\ Wrap(k) < Len(Frequencies)
  BY <1>1 DEF Wrap
<1>3. Wrap(k) + 1 \in 1..Len(Frequencies)
  BY <1>1, <1>2
<1>4. \A n \in 1..Len(Frequencies) : Frequencies[n] \in Channel
  OBVIOUS
<1> QED BY <1>1, <1>2, <1>3, <1>4 DEF Frequency

(* An available line is made of channels and scraps, and what a report     *)
(* leaves of it is part of the line or a scrap, but never the channel.     *)
LEMMA ErasedLine ==
  ASSUME NEW c \in Channel, NEW line, line \subseteq Entry
  PROVE  /\ Erased(line, c) \subseteq line \cup Scrap
         /\ Erased(line, c) \subseteq Entry
         /\ c \notin Erased(line, c)
<1>1. \A e \in line : <<c, e>> \in Part => Rest[<<c, e>>] \in Scrap
  OBVIOUS
<1>2. Erased(line, c) \subseteq line \cup Scrap
  BY <1>1 DEF Erased
<1>3. c \notin Erased(line, c)
  BY <1>1 DEF Erased, Contains
<1> QED BY <1>2, <1>3 DEF Entry

LEMMA InvInit == Init => IInv
<1> SUFFICES ASSUME Init PROVE IInv
  OBVIOUS
<1>1. i \in 1..Len(Frequencies)
  <2>1. Len(Frequencies) \in Nat /\ Len(Frequencies) >= 2
    OBVIOUS
  <2> QED BY <2>1 DEF Init
<1>2. TypeOK
  <2>1. 1 \in 1..MaxDepth
    OBVIOUS
  <2> QED BY <1>1, <2>1 DEF Init, TypeOK, Entry
<1>3. IndexInList /\ ReportedIsKept /\ PollKept
  BY DEF Init, IndexInList, ReportedIsKept, PollKept
<1> QED BY <1>2, <1>3 DEF IInv

LEMMA DatabaseStep ==
  ASSUME IInv, Database
  PROVE  IInv'
<1>1. UNCHANGED <<masterVars, slaveVars>>
  BY DEF Database, Stop, Start, Report, Occupy, Release
<1> DEFINE Kept == /\ serving' \in BOOLEAN
                   /\ availableFreqs' \subseteq Entry /\ usedFreqs' \subseteq Channel
                   /\ reported' \subseteq Channel
                   /\ ReportedIsKept'
<1>2. Kept
  <2>1. CASE Stop
    BY <2>1 DEF Stop, IInv, TypeOK, ReportedIsKept
  <2>2. CASE Start
    BY <2>2 DEF Start, ReportedIsKept, Entry
  <2>3. ASSUME NEW c \in Television, Report(c) PROVE Kept
    <3>1. c \in Channel
      OBVIOUS
    <3>2. availableFreqs \subseteq Entry /\ usedFreqs \subseteq Channel /\ reported \subseteq Channel
      BY DEF IInv, TypeOK
    <3>3. /\ availableFreqs' \subseteq availableFreqs \cup Scrap
          /\ availableFreqs' \subseteq Entry
          /\ c \notin availableFreqs'
      BY <2>3, <3>1, <3>2, ErasedLine DEF Report
    <3>4. usedFreqs' \subseteq usedFreqs \cup {c} /\ reported' = reported \cup {c} /\ serving' = serving
      BY <2>3 DEF Report
    <3>5. ReportedIsKept'
      BY <3>1, <3>2, <3>3, <3>4 DEF IInv, ReportedIsKept
    <3> QED BY <3>1, <3>2, <3>3, <3>4, <3>5 DEF IInv, TypeOK
  <2>4. ASSUME NEW c \in Entered, Occupy(c) PROVE Kept
    BY <2>4 DEF Occupy, IInv, TypeOK, ReportedIsKept
  <2>5. ASSUME NEW c \in Entered, Release(c) PROVE Kept
    BY <2>5 DEF Release, IInv, TypeOK, ReportedIsKept, Entry
  <2> QED BY <2>1, <2>2, <2>3, <2>4, <2>5 DEF Database
<1> QED BY <1>1, <1>2 DEF IInv, TypeOK, IndexInList, PollKept, masterVars, slaveVars

LEMMA BeaconStep ==
  ASSUME IInv, NEW c \in Channel, Beacon(c), actualFreq' \in Channel, word' \in Entry
  PROVE  IInv'
BY DEF Beacon, IInv, TypeOK, IndexInList, ReportedIsKept, PollKept, database

LEMMA MasterStep ==
  ASSUME IInv, Master
  PROVE  IInv'
<1>1. CASE PollFails
  BY <1>1 DEF PollFails, IInv, TypeOK, IndexInList, ReportedIsKept, PollKept, database, slaveVars
<1>2. CASE Poll
  <2>1. availableFreqs \cap reported = {}
    BY DEF IInv, ReportedIsKept
  <2> QED BY <1>2, <2>1 DEF Poll, Entry, IInv, TypeOK, IndexInList, ReportedIsKept, PollKept, database,
                            slaveVars
<1>3. CASE Keep
  BY <1>3, BeaconStep DEF Keep, IInv, TypeOK
<1>4. CASE NoChoice
  BY <1>4 DEF NoChoice, IInv, TypeOK, IndexInList, ReportedIsKept, PollKept, database, slaveVars
<1>5. ASSUME NEW c \in Channel, Switch(c) PROVE IInv'
  BY <1>5, BeaconStep DEF Switch, Entry
<1>6. ASSUME NEW e \in Entry, Refuse(e) PROVE IInv'
  BY <1>6, BeaconStep DEF Refuse, IInv, TypeOK
<1> QED BY <1>1, <1>2, <1>3, <1>4, <1>5, <1>6 DEF Master, Decide

LEMMA SlaveStep ==
  ASSUME IInv, Slave
  PROVE  IInv'
<1>1. UNCHANGED <<database, masterVars>>
  BY DEF Slave, Tune, EndDwell, SyncAgain, Overflow
<1>2. /\ slave' \in {"starting", "dwelling", "transmitting", "pausing", "dead"}
      /\ depth' \in 1..MaxDepth
      /\ i' \in 1..Len(Frequencies) /\ tuned' \in Channel
      /\ heard' \in BOOLEAN
      /\ IndexInList'
  <2>1. CASE Tune
    BY <2>1, FrequencyType DEF Tune, IInv, TypeOK, IndexInList
  <2>2. CASE EndDwell
    <3>1. Len(Frequencies) \in Nat
      OBVIOUS
    <3> QED BY <2>2, <3>1 DEF EndDwell, IInv, TypeOK, IndexInList
  <2>3. CASE SyncAgain
    BY <2>3 DEF SyncAgain, IInv, TypeOK, IndexInList
  <2>4. CASE Overflow
    BY <2>4, FrequencyType DEF Overflow, IInv, TypeOK, IndexInList
  <2> QED BY <2>1, <2>2, <2>3, <2>4 DEF Slave
<1> QED BY <1>1, <1>2 DEF IInv, TypeOK, ReportedIsKept, PollKept, database, masterVars

THEOREM Invariance == Spec => []IInv
<1>1. IInv /\ [Next]_vars => IInv'
  <2>1. IInv /\ UNCHANGED vars => IInv'
    BY DEF vars, database, masterVars, slaveVars, IInv, TypeOK, IndexInList, ReportedIsKept, PollKept
  <2> QED BY <2>1, DatabaseStep, MasterStep, SlaveStep DEF Next
<1> QED BY <1>1, InvInit, PTL DEF Spec

(* The variables of the database, the master and the slave keep their      *)
(* types, and the slave never indexes past its list.                       *)
THEOREM TypeCorrect == Spec => []TypeOK
<1>1. IInv => TypeOK
  BY DEF IInv
<1> QED BY <1>1, Invariance, PTL

(* However requests to the server follow each other, and whichever texts   *)
(* contain each other, a reported channel is not offered, and no channel   *)
(* is used and available.                                                  *)
THEOREM ReportsAreKept == Spec => []ReportedIsKept
<1>1. IInv => ReportedIsKept
  BY DEF IInv
<1> QED BY <1>1, Invariance, PTL

(* The master sends no beacon on a channel that had been reported when it  *)
(* polled, unless it chose a channel that is not supported.                *)
THEOREM MasterVacates == Spec => VacatesAtOnce
<1>1. ASSUME IInv, [Next]_vars
      PROVE  [master = "polled" /\ master' = "asleep" /\ actualFreq' \in reportedThen
                => word' \notin Supported]_vars
  <2> SUFFICES ASSUME Next, master = "polled", master' = "asleep", actualFreq' \in reportedThen
               PROVE  word' \notin Supported
    BY <1>1
  <2>1. actualFreq' \notin centerFreqs
    BY <1>1 DEF IInv, PollKept
  <2>2. CASE Decide
    <3>1. ~Keep /\ ~NoChoice
      BY <2>1 DEF Keep, NoChoice, MayStay
    <3>2. \A c \in Channel : ~Switch(c)
      BY <2>1 DEF Switch
    <3>3. \A e \in Entry : Refuse(e) => word' \notin Supported
      BY DEF Refuse
    <3> QED BY <2>2, <3>1, <3>2, <3>3 DEF Decide
  <2>3. ~(Database \/ Slave)
    BY DEF Database, Stop, Start, Report, Occupy, Release, Slave, Tune, EndDwell, SyncAgain, Overflow, masterVars
  <2>4. ~(PollFails \/ Poll)
    BY DEF PollFails, Poll
  <2> QED BY <2>2, <2>3, <2>4 DEF Next, Master
<1> QED BY <1>1, Invariance, PTL DEF Spec, VacatesAtOnce
=============================================================================
