------------------------------- MODULE WhiteSpace -------------------------------
(***************************************************************************)
(* The 802.11af example of gr-ieee_802_11af: a spectrum database (WSDB),   *)
(* television transmitters that report to it, a master that asks it for a  *)
(* channel and sends beacons there, and a slave that scans for beacons.    *)
(*                                                                         *)
(* The web server handles one request at a time.  Time is left out: the    *)
(* master may poll, and the slave may end a dwell, at any moment.          *)
(*                                                                         *)
(* A report looks for its text anywhere in a line of the database, and the *)
(* available line loses that text wherever it stands.  A frequency in MHz  *)
(* has two or three digits (channelmap.py), so that the text of one may be *)
(* part of another, and what is left of that is a single digit: a scrap.   *)
(***************************************************************************)
EXTENDS Naturals, Sequences

CONSTANTS
  Channel,          \* centre frequencies
  Scrap,            \* what the text of a report leaves of an entry that contains it
  Part,             \* pairs <<c, e>>: the text of c is part of the text of e
  Rest,             \* per such pair, what is left of e without c
  Television,       \* channels of the transmitters that report
  Entered,          \* channels somebody enters in the form of the web page
  Supported,        \* those the daughterboard can tune to, 400 MHz and above
  BackAvailable,    \* lines of spectrumdB.back
  BackUsed,
  Frequencies,      \* what the slave reads from CE_freqs.csv
  SafeDepth,        \* nested calls of sync for which the recursion limit has room
  MaxDepth          \* nested calls of sync at most (about 1000)

ASSUME WhiteSpaceAssumption ==
  /\ Scrap \cap Channel = {}
  /\ Part \subseteq Channel \X Channel /\ \A c \in Channel : <<c, c>> \notin Part
  /\ Rest \in [Part -> Scrap]
  /\ Television \subseteq Channel /\ Entered \subseteq Channel /\ Supported \subseteq Channel
  /\ BackAvailable \subseteq Channel /\ BackUsed \subseteq Channel
  /\ BackAvailable \cap BackUsed = {}
  /\ Frequencies \in Seq(Channel) /\ Len(Frequencies) >= 2
  /\ SafeDepth \in Nat \ {0} /\ MaxDepth \in Nat /\ SafeDepth <= MaxDepth

Entry == Channel \cup Scrap

VARIABLES
  serving,                  \* the web server of the database runs
  availableFreqs, usedFreqs,
  reported,                 \* history: reports nobody has undone since the start
  master,                   \* what the thread of process() does
  centerFreqs,              \* what the poll returned; nobody reads it after the beacon
  reportedThen,             \* history: reported, at the poll
  actualFreq,               \* where the master transmits
  word,                     \* the frequency it wanted last
  slave,                    \* what the thread of sync() does
  depth,                    \* calls of sync, each inside the one before
  i,                        \* index into Frequencies, from zero as in the code
  tuned,                    \* where the slave listens and transmits
  heard                     \* utils/listenSlave holds a beacon

database == <<serving, availableFreqs, usedFreqs, reported>>
masterVars == <<master, centerFreqs, reportedThen, actualFreq, word>>
slaveVars == <<slave, depth, i, tuned, heard>>
vars == <<database, masterVars, slaveVars>>

Init ==
  /\ serving = TRUE
  /\ availableFreqs = BackAvailable /\ usedFreqs = BackUsed /\ reported = {}
  /\ master = "asleep" /\ centerFreqs = {} /\ reportedThen = {}
  /\ actualFreq \in Channel /\ word = actualFreq
  /\ slave = "starting" /\ depth = 1 /\ i = 1 /\ tuned \in Channel
  /\ heard = FALSE

-----------------------------------------------------------------------------
(* The database.                                                           *)

(* used in line, line.replace(used, ''): entries are separated by blanks.   *)
Contains(e, c) == e = c \/ <<c, e>> \in Part
Erased(line, c) ==
  {e \in line : ~Contains(e, c)} \cup {Rest[<<c, e>>] : e \in {f \in line : <<c, f>> \in Part}}

(* Fault: the channel is added to one line only. *)
ReportAppended(c) ==
  /\ serving
  /\ usedFreqs' = IF \E e \in usedFreqs : Contains(e, c) THEN usedFreqs ELSE usedFreqs \cup {c}
  /\ reported' = reported \cup {c}
  /\ UNCHANGED <<serving, availableFreqs, masterVars, slaveVars>>

(* A television transmitter reports its channel before it transmits.  The  *)
(* used line stays as it is when it contains the text already; the second  *)
(* line.replace has no effect.                                             *)
Report(c) ==
  /\ serving
  /\ availableFreqs' = Erased(availableFreqs, c)
  /\ usedFreqs' = IF \E e \in usedFreqs : Contains(e, c) THEN usedFreqs ELSE usedFreqs \cup {c}
  /\ reported' = reported \cup {c}
  /\ UNCHANGED <<serving, masterVars, slaveVars>>

(* The form of the web page compares whole entries: a channel becomes used *)
(* or available.                                                           *)
Occupy(c) ==
  /\ serving
  /\ c \notin usedFreqs
  /\ availableFreqs' = availableFreqs \ {c}
  /\ usedFreqs' = usedFreqs \cup {c}
  /\ UNCHANGED <<serving, reported, masterVars, slaveVars>>

Release(c) ==
  /\ serving
  /\ c \notin availableFreqs
  /\ availableFreqs' = availableFreqs \cup {c}
  /\ usedFreqs' = usedFreqs \ {c}
  /\ reported' = reported \ {c}
  /\ UNCHANGED <<serving, masterVars, slaveVars>>

Stop ==
  /\ serving
  /\ serving' = FALSE
  /\ UNCHANGED <<availableFreqs, usedFreqs, reported, masterVars, slaveVars>>

(* init_db forgets what was reported.                                      *)
Start ==
  /\ ~serving
  /\ serving' = TRUE
  /\ availableFreqs' = BackAvailable /\ usedFreqs' = BackUsed /\ reported' = {}
  /\ UNCHANGED <<masterVars, slaveVars>>

-----------------------------------------------------------------------------
(* The master.                                                             *)

(* getFreqMap raises an exception when the server does not answer, and     *)
(* that ends the thread.                                                   *)
PollFails ==
  /\ master = "asleep" /\ ~serving
  /\ master' = "dead"
  /\ UNCHANGED <<database, centerFreqs, reportedThen, actualFreq, word, slaveVars>>

Poll ==
  /\ master = "asleep" /\ serving
  /\ master' = "polled"
  /\ centerFreqs' = availableFreqs
  /\ reportedThen' = reported
  /\ word' = actualFreq
  /\ UNCHANGED <<database, actualFreq, slaveVars>>

(* The slave may hear a beacon on the channel it is tuned to.              *)
Beacon(c) ==
  /\ master' = "asleep"
  /\ \E got \in BOOLEAN :
       /\ got => tuned = c
       /\ heard' = (heard \/ got)
  /\ centerFreqs' = {} /\ reportedThen' = {}
  /\ UNCHANGED <<database, slave, depth, i, tuned>>

(* Fault: the answer of the database is not looked at. *)
MayStaySupported == actualFreq \in Supported
MayStay == actualFreq \in centerFreqs \cap Supported

Keep ==
  /\ master = "polled" /\ MayStay
  /\ Beacon(actualFreq)
  /\ UNCHANGED <<actualFreq, word>>

(* random.choice takes c, which the daughterboard supports.                *)
Switch(c) ==
  /\ master = "polled" /\ ~MayStay
  /\ c \in centerFreqs \cap Supported
  /\ word' = c /\ actualFreq' = c
  /\ Beacon(c)

(* random.choice takes e, which it does not support, a scrap for one: the  *)
(* master sends its beacon where it was.                                   *)
Refuse(e) ==
  /\ master = "polled" /\ ~MayStay
  /\ e \in centerFreqs \ Supported
  /\ word' = e
  /\ Beacon(actualFreq)
  /\ UNCHANGED actualFreq

(* random.choice of an empty list raises an exception.                     *)
NoChoice ==
  /\ master = "polled" /\ centerFreqs = {}
  /\ master' = "dead"
  /\ UNCHANGED <<database, centerFreqs, reportedThen, actualFreq, word, slaveVars>>

-----------------------------------------------------------------------------
(* The slave.                                                              *)

Frequency(k) == Frequencies[k + 1]
(* Fault: the last frequency is left out. *)
WrapEarly(k) == IF k + 1 = Len(Frequencies) THEN 1 ELSE k
Wrap(k) == IF k = Len(Frequencies) THEN 1 ELSE k

Tune ==
  /\ slave = "starting"
  /\ i' = Wrap(i)
  /\ tuned' = Frequency(i')
  /\ slave' = "dwelling"
  /\ UNCHANGED <<database, masterVars, depth, heard>>

(* It reads the whole of utils/listenSlave.                                *)
EndDwell ==
  /\ slave = "dwelling"
  /\ slave' = IF heard THEN "transmitting" ELSE "pausing"
  /\ i' = i + 1
  /\ UNCHANGED <<database, masterVars, depth, tuned, heard>>

(* sync ends with a call of itself.                                        *)
SyncAgain ==
  /\ slave \in {"transmitting", "pausing"}
  /\ depth < MaxDepth
  /\ slave' = "starting" /\ depth' = depth + 1
  /\ UNCHANGED <<database, masterVars, i, tuned, heard>>

(* At the recursion limit the next call raises an exception that ends the  *)
(* thread: sync itself, or a function it calls (generator, set_freq before *)
(* or after it has tuned, broadcastScript) some calls of sync earlier.     *)
Overflow ==
  /\ slave \in {"starting", "transmitting", "pausing"}
  /\ depth >= SafeDepth
  /\ slave = "starting" => depth > SafeDepth
  /\ slave' = "dead"
  /\ \/ UNCHANGED <<i, tuned>>
     \/ slave = "starting" /\ i' = Wrap(i) /\ tuned' \in {tuned, Frequency(i')}
  /\ UNCHANGED <<database, masterVars, depth, heard>>

Database ==
  \/ Stop \/ Start
  \/ \E c \in Television : Report(c)
  \/ \E c \in Entered : Occupy(c) \/ Release(c)
Decide == Keep \/ NoChoice \/ (\E c \in Channel : Switch(c)) \/ (\E e \in Entry : Refuse(e))
Master == PollFails \/ Poll \/ Decide
Slave == Tune \/ EndDwell \/ SyncAgain \/ Overflow
Next == Database \/ Master \/ Slave

(* Both threads go on until an exception ends them, and random.choice      *)
(* takes a channel that is offered again and again.  Nobody has to report, *)
(* stop or start anything.                                                 *)
Fairness ==
  /\ WF_vars(Master) /\ WF_vars(Slave)
  /\ \A c \in Channel : SF_vars(Switch(c))
Spec == Init /\ [][Next]_vars /\ Fairness

-----------------------------------------------------------------------------
(* Correctness.                                                            *)

(* The database, process() and sync() keep the types of their variables.   *)
(* The index of the slave is never past the end of the list.               *)
TypeOK ==
  /\ serving \in BOOLEAN
  /\ availableFreqs \subseteq Entry /\ usedFreqs \subseteq Channel /\ reported \subseteq Channel
  /\ master \in {"asleep", "polled", "dead"}
  /\ centerFreqs \subseteq Entry /\ reportedThen \subseteq Channel
  /\ actualFreq \in Channel /\ word \in Entry
  /\ slave \in {"starting", "dwelling", "transmitting", "pausing", "dead"}
  /\ depth \in 1..MaxDepth
  /\ i \in 1..Len(Frequencies)
  /\ tuned \in Channel
  /\ heard \in BOOLEAN

(* Whatever texts contain each other, and whoever changes the two lines in *)
(* between, the database does not offer a reported channel until somebody  *)
(* releases it or the server starts again; and no channel is in both lines.*)
(* (It need not be in the used line: 60 is not added to 560.)              *)
ReportedIsKept ==
  /\ reported \cap availableFreqs = {}
  /\ availableFreqs \cap usedFreqs = {}

(* The master never sends a beacon on a channel that had been reported     *)
(* when it polled, so a transmitter hears one beacon at most after its     *)
(* report; unless random.choice took a channel that is not supported.      *)
VacatesAtOnce ==
  [][master = "polled" /\ master' = "asleep" /\ actualFreq' \in reportedThen
       => word' \notin Supported]_vars

(* While c is not offered and some supported channel is, the master       *)
(* leaves c for good, or its thread has died.                              *)
MasterLeaves ==
  \A c \in Channel :
    <>[](c \notin availableFreqs /\ serving /\ availableFreqs \cap Supported # {})
      => <>[](master = "dead" \/ actualFreq # c)

(* As long as the recursion limit leaves room for a round, the slave tries *)
(* every frequency of its list but the first, wherever it transmits in     *)
(* between.                                                                *)
ScansEach ==
  \A k \in 1..Len(Frequencies) - 1 :
    slave # "dead" /\ depth + Len(Frequencies) - 1 <= SafeDepth
      ~> tuned = Frequency(k) /\ slave = "dwelling"
=============================================================================
