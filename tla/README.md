# A verification project for the 5GNR repository: the 802.11ah MAC, its tools and the white-space example

The repository collects twenty wireless projects. Most of them are signal
processing (LDPC codes, OFDM and GFDM waveforms, FPGA receivers) or an
unrelated Go program. One, `src/IEEE-802.11ah-ns-3`, is a copy of ns-3 whose
`src/wifi` was extended to 802.11ah (Wi-Fi HaLow): there several processes with
queues, timers, retries and sleep interact, and most of this project models
that MAC. The same directory holds two concurrent Python programs, the test driver
`test.py` and the live visualizer PyViz; and `src/gr-ieee_802_11af` holds a
distributed one, a spectrum database with a master and a slave. These three are
modelled as well. Paths below are relative to
`src/IEEE-802.11ah-ns-3/src/wifi/model` unless they begin with `src/`.

## 1. Inventory

### The 802.11ah MAC

| Component | State | Operations | Hard behaviour | Correct when |
|---|---|---|---|---|
| `StaWifiMac`, association | `m_state`, four retry timers, the beacon watchdog, `m_aid`, `fastAssocThreshold` | `TryToEnsureAssociated`, `Send*Request`, `*Timeout`, `MissedBeacons`, `Receive` | timers that outlive the state they were started in, lost answers, lost beacons | a wait has a timer; an associated station is complete; every station settles |
| `ApWifiMac`, association | per-station record of `WifiRemoteStationManager`, `m_sensorList`, `m_OffloadList`, `AuthenThreshold` | `Receive`, `SendAssocResp`, `TxOk`, `TxFailed`, `SendOneBeacon` | the outcome of an answer is known late; two records of the same fact | only a granted station associates; the records agree |
| `StaWifiMac`, RAW | `stationrawslot`, `outsideraw`, `waitingack`, `receivingBeacon`, the events of a slot | `S1gBeaconReceived`, `RawSlotStartBackoff`, `InsideBackoff`, `OutsideRawStartBackoff`, `BeaconWakeUp`, `GoToSleepBinary`, `SleepIfQueueIsEmpty` | events of one beacon that fire under the next, callbacks in the middle of another handler | it sends only when it may, sleeps only when it may, and strands no packet |
| `DcaTxop`, `EdcaTxopN` | `m_queue`, `m_currentPacket`, `m_currentHdr`, `m_fragmentNumber`, `AccessIfRaw` | `Queue`, `NotifyAccessGranted`, `GotAck`, `MissedAck`, `GotCts`, `MissedCts`, `StartNext`, `NotifySleep`, the RAW variants | retries interleaved with sleep, with RAWs and with the other function | a packet is reported once, and with the truth |
| `MacLow` | `m_currentPacket`, `m_listener`, the timeout events | `StartTransmission`, `ReceiveOk`, `SendCtsAfterRts`, `SendAckAfterData`, `*Timeout`, `NotifySleepNow` | an answer or its timeout, never both | the transaction ends in one of them |
| `MacTxMiddle`, `MacRxMiddle` | sequence counters, last sequence control and fragments per originator | `GetNextSequenceNumberfor`, `Receive`, `HandleFragments`, `IsDuplicate` | wrap-around, abandoned fragments | handed up once, in order, whole |
| `WifiRemoteStation` | `m_ssrc`, `m_slrc` | `Report*`, `NeedDataRetransmission` | one counter shared by several functions | a packet is given up after `MaxSlrc` |
| `WifiMacQueue` | the packets | `Enqueue`, `PushFront`, `Dequeue*`, `Cleanup` | overflow, expiry | no packet vanishes unreported |
| RPS, `S1gRawCtr` (`rps.cc`, `s1g-raw-control.cc`) | RAW parameter sets, estimates per station | `SendOneBeacon`, `UdpateSensorStaInfo` and others | AP and station compute the slot on their own | they agree on it |
| TIM, page slices (`tim.cc`, `pageSlice.cc`) | partial virtual bitmap, page slice counters | `SetPageSlice...`, `S1gTIMReceived` | stations that sleep through beacons | a station wakes for its data |
| Block ack (`block-ack-manager.cc`, `mac-low.cc`) | agreements, windows, reordering buffer | `ADDBA`, `DELBA`, `NotifyGotBlockAck`, `ReceiveMpdu` | windows that move at both ends, wrap-around | handed up once, in order |
| `DcfManager` | backoff slots, busy times, NAV | `RequestAccess`, `DoGrantAccess`, `Notify*` | internal collisions, stale access timeouts | two functions never send at once |

They interact by calls in both directions. `StaWifiMac` and `ApWifiMac` queue
frames at their `DcaTxop` or `EdcaTxopN`; these ask `DcfManager` for the medium,
hand the frame to `MacLow` when `NotifyAccessGranted` comes, and are called back
by `MacLow` with the outcome (`GotAck`, `MissedAck`); they call `TxOk` and
`TxFailed` of the MAC above and the station's sleep callback. At the receiver
`MacLow` acknowledges and gives the frame to `MacRxMiddle`, which gives packets
to `Receive`. Everything runs on the one event list of `Simulator`, so a
handler is atomic; the interleavings are those of the events, and the order of
the callbacks inside a handler matters because several of them change state of
the component that called them.

### The programs around it

| Component | State | Operations | Hard behaviour | Correct when |
|---|---|---|---|---|
| Test driver (`src/IEEE-802.11ah-ns-3/test.py`) | two queues, `thread_exit`, `is_break` and `returncode` per job, the counters of `run_tests` | `run_tests`, `worker_thread.run`, `run_job_synchronously`, `sigint_hook` | an interrupt between any two steps of any thread, a thread that dies with a job | jobs are neither lost nor counted twice; success is earned; all threads end |
| PyViz (`src/IEEE-802.11ah-ns-3/src/visualizer`) | a lock and an event between two threads, `target_time`, `_update_timeout_id`, pause messages | `SimulationThread.run`, `update_view_timeout`, `_start_update_timer`, `_quit` | an event loop that runs inside a handler of that event loop | the simulator is a period ahead at most, goes on while it plays, ends when told |
| White space (`src/gr-ieee_802_11af/examples`) | the two lists of the database, `centerFreqs` and `actualFreq` of the master, the index and the file of beacons of the slave | the POST handler `main`, `process`, `parseJSON`, `sync` | answers that are old when they are used, a server that restarts | the master leaves a channel that was reported; the slave tries every frequency |

The workers and the main thread of `test.py` meet in two queues. PyViz and the
simulator share one lock, which the simulator holds for a whole period. The
television transmitter, the web page and the master meet in the file of the database;
master and slave meet on the air only.

### Everything else

PHY, interference and rate control of `src/wifi`; the other modules of ns-3;
scenarios under `scratch`; and the remaining projects. `PROJECT.json` lists
each with the reason why it is not modelled: continuous arithmetic without
control state, code generated or carried along from upstream, or (bettercap,
openofdm) independent programs.

## 2. Modules

    AssociationService       Link                          abstract specifications
          ^  refines           ^  refines
    Association           StopAndWait       RawAccess       BlockAck
          ^                    ^                ^               ^
    AssociationProofs  StopAndWaitProofs  RawAccessProofs  BlockAckProofs
                                                              ^
                                                       BlockAckOrderProofs

    TestRunner         WhiteSpace         Visualizer
          ^                 ^                  ^
    TestRunnerProofs  WhiteSpaceProofs  VisualizerProofs

Every component has an MC module with the instances for TLC.

* **Association** models what passes between `StaWifiMac` and `ApWifiMac` for
  any number of stations: the station's `m_state` and its timers, the AP's
  record and lists, the authentication threshold in the beacons, and per node
  the queue and the frame in service of its `DcaTxop`. One action is one
  handler or one event. A frame in service is delivered at most once and then
  ends acknowledged or failed; it may have been delivered and still fail, when
  all its acknowledgements were lost. That is what `Link` promises and
  `StopAndWait` refines.
* **AssociationService** is the promise of that exchange: the AP issues grants,
  each makes one station a member once. The mapping takes the positive answers
  that have not arrived as the grants.
* **StopAndWait** models the transfer of packets from one station to another,
  frame by frame: RTS, CTS, data, acknowledgement, their losses and timeouts,
  retry counters, fragments, sequence numbers, the duplicate filter, reassembly,
  and both sides falling asleep. The order of the handlers is in the field
  `low.stage`: what `MacLow` waits for. `MissedAck` has the branches of `DcaTxop` and the one
  of `EdcaTxopN` in which the station falls asleep in the middle of it
  (`MissedAckAsleep`): the packet goes back to its queue first and is reported as failed then.
  `EveryPacketAccounted` says of each packet that it is in one place at most, in one as long
  as its fate is not reported, and afterwards only by that branch.
* **Link** is the promise of that transfer: in order, at most once, and "sent"
  only after it was handed up. The mapping forgets everything but what was
  handed up and what was reported.
* **RawAccess** models one station in discrete time: the flags and the events
  `StaWifiMac` derives from beacons, the access requests of its functions, the
  sleep callbacks. Events are kept in the order `Simulator` would fire them.
  The handlers of the code are operators from a station record to a station
  record, called in the order in which the code calls them, since a callback in
  the middle of a handler sees half of its effects.

* **BlockAck** models packets of one TID under a block ack agreement, from
  `EdcaTxopN::Queue` to `MacRxMiddle`: the handshake (`ADDBA`, its response, `DELBA`) with the
  destination blocked meanwhile, the list of sent packets, `m_retryPackets` and `m_bars` of
  `BlockAckManager`, the reordering buffer of `MacLow`, the bitmap of `BlockAckCache`, the
  duplicate filter, and both inactivity timers. The two comparisons of sequence
  numbers the code has, circular ones and those by a mapped key, are two operators.
  The handler of a recipient and the answer it schedules a SIFS later are one step.
* **TestRunner** models `run_tests` and its workers between the two queues. The
  steps of a worker are those at which another thread can tell a difference:
  taking an item, looking at `thread_exit`, starting and ending the process.
* **WhiteSpace** models the database, the master and the slave without time: the
  master may poll and the slave may end a dwell at any moment. The two histories
  `reported` and `reportedThen` (what has been reported and not undone; the same, when
  the master polled) exist for the properties only. A report looks for its text anywhere in a line
  of the database and erases it there (`webServerWSDB.py:75-80`). Which texts contain each other is the
  constant `Part`, and what is left of the longer one, a digit that is no channel, is a scrap
  (`Scrap`, `Rest`): the database offers it, and the master draws it and refuses it. The forms of the web page
  compare whole entries. `depth` counts the calls of `sync`, each inside the one before; from
  `SafeDepth` on an exception may end the thread (`Overflow`), at `MaxDepth` it must.
* **Visualizer** models both threads of PyViz. A handler of the view is a step, except
  `update_view_timeout` when the simulator has the lock: `spinning` is the stack of
  its calls that wait, each with an event loop of its own. `ahead` counts the periods
  the simulator has run since the last view; the times themselves are left out.

Definitions whose comment begins with "Fault" are changed versions of the
handler below them, as a plausible slip would leave it. No specification uses
them. `PROJECT.json` (`mutants`) names for each property a fault it detects.

### Correspondence

Variables carry the name of the field they stand for, or name it in a comment.
Actions carry the name of the method; a suffix or prefix tells apart the branches
of one method (`ReceiveData`, `MissedAckFail`) or the two sides (`StaTxOk`,
`ApTxOk`). `PROJECT.json` (`map`) has the lines of each.

## 3. What is checked

TLC runs these instances (`tlc -config X.cfg M`); a run passes or, where it says
so, has to find the property violated.

| Run | Instance | Shows |
|---|---|---|
| `association` | 1 station, losses unlimited, probing switched on and off, user disassociates, beacons missed | `TypeOK`, `WaitsHaveTimers`, `AssociatedIsSettled`, `GrantedIsListed`, `OnlyDisassociationForgets` |
| `association_settles` | 2 stations, one incompatible, draws above the first threshold, 1 loss, fair | `OnlyGrantedAssociate`, `ImplementsService`, `EveryStationSettles` |
| `reassociation` | 1 station, missed beacons, 2 losses, fair | **violated**: `Reassociates` |
| `stop_and_wait` | a `DcaTxop` and an `EdcaTxopN`, 3 packets, 3 tries, 4 sequence numbers, sleeping receiver | `TxOkMeansForwarded`, `GivenUpAfterMaxSlrc`, `ImplementsLink` |
| `packets_end` | two fragments, RTS, one shared counter, queues of one frame, sender sleeps once, fair | `OnlyWholePacketsForwarded`, `EveryPacketAccounted`, `EveryPacketEnds` |
| `raw` | own, last, foreign and paged slots, beacons after the RAW, fair | `NoneStranded`, `RawRespected`, `AwakeForAck`, `WakesInItsSlots`, `EdcaGetsOut` |
| `raw_irregular` | slots that outlast a beacon, missed beacons, fragments, unpaged stations | `TypeOK`, `OwnSlotOpen` |
| `block_ack` | 8 packets, 6 sequence numbers of which two are used twice, windows of 2, 2 losses, one packet that expires, one inactivity timeout | `RecordsAreSound`, `RetriesAreKept`, `SentMeansReceived`, `InOrderInFirstHalf`, `OnlyOldAreGone`, `EveryPacketKept`, `BlockedWhilePending` |
| `block_ack_wrap` | 4 packets, one loss before the wrap | **violated**: `HandedUpInOrder` |
| `test_runner` | 2 suites and an example that is skipped, 2 workers, interrupt, a failing `Popen`, a missing results file, fair | `InOneHand`, `SuccessMeansRan`, `NobodyLeft`, `ThreadsEnd` |
| `white_space` | 60, 560 and 724 MHz, reports of 60 and 560, a server that stops and starts, fair | `ReportedIsKept`, `VacatesAtOnce`, `MasterLeaves`, `ScansEach` |
| `visualizer` | up to 3 timers at a time, everything the user can do at any moment, fair | `NotAhead`, `PlayHasTimer`, `KeepsRunning`, `QuitEnds` |

### Bounds

Each bound is a constant with a comment in the module that declares it.

* `Association`: `QueueCap` is 1 (400 in the code) so that queues overflow all the
  time; `MaxMissedBeacons` is 2 (10), the least that tells one missed beacon
  from too many; `MaxThreshold` 1 or 2 steps (20) is the least at which a station
  is and is not admitted, and climbs before it is. `MaxLosses` bounds losses
  only where liveness or a second station asks for it; `association` has none.
* `StopAndWait`: `MaxSlrc` and `MaxSsrc` are 2 or 3 (7): a first try, a retry
  and a last one. `SeqMod` is 4 or 8 (4096) with three packets, so that numbers
  wrap in `stop_and_wait` but two packets in a row have different ones. Sleeps of the
  sender and frames to other receivers are counted by `MaxSleeps`, `MaxOthers`.
* `RawAccess`: a unit of time is 160 us, the delay of the postponed events and
  the SIFS. The beacon interval is 7 or 8 units: a RAW of five, a pause, and
  room for an exchange. Slots begin with the RAW, in it, or end it. `MaxQueue`
  bounds the packets waiting when a new one is added; a packet that sleep puts
  back may exceed it.

* `BlockAck`: `SeqSpace` is 6 (4096), `FirstSeq` 0 and `Window` 2 (64). Two new packets
  move the window past one that was lost, so both ends of both windows move at different
  times; eight packets go through the wrap and use the numbers 0 and 1 again, so that a
  bit of the first round which was never cleared would count for the second. The window is a
  third of the space, so that `IsOld` and `IsInWindow` keep the three regions they have in the code
  (at `2 * Window = SeqSpace` the region between them is empty, and TLC refutes
  `SentMeansReceived`). `FragMod` (16) is 2 or 4; what matters is that it is
  more than 1, since the code confuses a number with a number times `FragMod`. `MaxSlrc`
  is 2: a try and a retry. `MaxLosses`, `MaxExpired` and `MaxTimeouts` count faults;
  two losses are a lost packet and a lost request or answer, the least that
  makes both sides disagree about the window.
* `TestRunner`: two workers are the least that race; three jobs and a break per worker
  are more items than workers, and the queue is empty and full in turn. `MaxFailures` = 1
  leaves a worker to go on alone.
* `WhiteSpace`: one channel below 400 MHz, so that the master can draw one it
  refuses, and two others, so that it has a choice. The text of the first is part of that of the
  second, as that of channel 3 (60 MHz) is of the 560 the database is shipped with: a report of 60 is not
  recorded beside 560, and makes a 5 of it when it is available. `SafeDepth` 4 and `MaxDepth` 5 (about
  1000) are the least that let the slave go round its three frequencies and then fail
  in each place where the recursion limit may be met.
* `Visualizer`: a timer that waits for the lock, one that replaced it and a third
  are the most the view can have at once before the first returns; `Timer` is the
  bound. `ahead` is not bounded: `NotAhead` does it.

### Fairness

* `Association`: timers that run fire, the AP goes on sending beacons, and a frame
  in a queue or in service gets on. The first two are `Simulator`; the third is
  what `StopAndWait` shows of every packet.
* `StopAndWait`: the same, and strong fairness of `NotifyAccessGranted`: a function
  that has something to send competes again and again with a random backoff.
* `RawAccess`: time passes, events fire, beacons come, exchanges end, and a
  function whose request is pending again and again while it may send is granted
  the medium (strong, for the same reason). There is no fairness for packets,
  users or losses.
* `TestRunner`: each thread goes on while it can; an operating system schedules
  threads that can run, and a test that is started ends.
* `WhiteSpace`: the master polls and the slave scans until an exception ends them (their loops have
  no condition), and `random.choice` takes each channel that is offered again and
  again. Nobody has to report, stop or start anything.
* `Visualizer`: both threads go on, timers that are live fire, and a call that waits
  for the lock gets it while the simulator is between periods. The user need not do
  anything.
* `BlockAck` has none: a block ack request that is dropped (section 5) leaves packets
  where they are, so that nothing need happen.

## 4. What is proved

`AssociationProofs` proves, for every number of stations and every value of the
constants that satisfies the assumptions of `Association`:

* `TypeCorrect`: `Spec => []TypeOK`. It is inductive; the work is that frames
  stay frames on their way through queues and service.
* `StationSafety`: `WaitsHaveTimers` and `AssociatedIsSettled` (the latter alone is
  `AssociatedStationsAreSettled`). Their conjunction
  per station (`Settled`) is inductive relative to `TypeOK`: no handler that
  leaves timers of an earlier state running takes away the one that the new
  state needs, and none that ends an association leaves the station half in it.
* `GrantsAreListed`: `GrantedIsListed`, inductive by itself, because the record
  is set and cleared in the same handlers as the list.
* `AssociationIsGranted`: `OnlyGrantedAssociate`. This one is not inductive: a
  frame in the queue of a station could be a forged answer. `FrameInv` says that
  whatever is queued or in service comes from the side that may send it and
  that a positive answer is backed by the AP's record. A step preserves it
  because it does four things at most (`FrameStep`): keeps records, queues proper
  frames, serves queued frames, associates stations vouched for.
* `ForgetsOnlyOnDisassociation`: `Spec => OnlyDisassociationForgets`, the action
  property, from the same invariant: a disassociation in service at the AP is
  that of the station it names.

Its second part proves `ImplementsItsService`: `Spec => ImplementsService`, the
refinement that `association_settles` checks for two stations. The mapping counts the
positive answers to a station: the positions at which one is in the AP's queue, and one
more if it is in service and has not arrived. Lemmas say how that count changes when
a frame is appended to the queue, taken from it, or leaves service; each step then
is a `Grant`, a `Join`, a `Withdraw`, a `Leave` or a stutter. `FrameInv` is needed
once more: only it tells that what the AP receives is a request of a station and what
a station receives is an answer of the AP.

`StopAndWaitProofs`, for any finite set of packets, any functions, capacities and limits:

* `TypeCorrect`: inductive together with `InService`, that a transaction of `MacLow`
  which is under way belongs to a function with a current packet.
* `PacketsAccounted`: `EveryPacketAccounted`, that no packet is lost from view or
  duplicated while functions retry, sleep, drop and put packets back. The count of the
  property is not convenient to reason about; the inductive invariant `Placement` says
  the same place by place: a packet is with the function that owns it (`Owned`), once in its queue
  (`Once`), not at two places (`Apart`), and its fate agrees with them (`Reported`): it is at one of them
  while its outcome is pending, and if it still is when the outcome is known, it was reported as failed
  by an `EdcaTxopN` of a station that may sleep (`Leftover`). One lemma (`SleepPlaces`) serves both ways
  to fall asleep. With a sender that stays awake there is no such packet (`PlacedPending`), and the theorems
  on order below use that.
  That a queue is never longer than the set of packets follows by the pigeonhole principle.
* `FailureMeansMaxSlrc`: `GivenUpAfterMaxSlrc`, if no two functions share a TID, no packet
  uses RTS or is fragmented and the sender stays awake (`OwnCounters`; by section 5 the first
  two are needed). `Counted` ties
  `m_slrc` of a function to the failures of the packet it has in service.
* `WholePackets`: `OnlyWholePacketsForwarded`, if packets with fragments are sent without a TID, and there
  are more sequence numbers than frames (`QosUnfragmented`, `NumbersSuffice`). `Numbers`
  says that what was sent before has an earlier number, `Exchange` what the fragment
  in service means to the receiver, `Reassembly` that what it keeps are the fragments
  before that one, of one packet.
* `SentMeansForwarded` and `LinkImplemented`: `TxOkMeansForwarded` and the refinement of `Link`, for
  packets without fragments, a sender that stays awake, and enough sequence numbers
  (`NoFragments`, `StaysAwake`, `NumbersSuffice`). `LinkInv` holds together what is acknowledged, what was
  forwarded, and the last sequence control the receiver remembers (`Received`). The sequence numbers
  do not wrap under `NumbersSuffice`: that they may, as long as few enough frames
  go elsewhere between two packets, is only model-checked (`stop_and_wait` has four numbers).

`RawAccessProofs`, for any RAWs, intervals of beacons and functions:

* `TypeInvariant`: `TypeOK`. The work is in the agenda: handlers cancel and schedule events
  while one of them fires, and it stays a sequence of events that are due in order.
* `SlotStaysOpen`: `OwnSlotOpen`, from `OwnSlotInv`: while a station has a slot of its own
  the event that ends it is scheduled.
* `StaysAwakeForAck`: `AwakeForAck`, from `AwaitingInv`, for frames that are not fragmented: the
  acknowledgement of a fragment clears `waitingack` while the next one is on its way.
* `RespectsTheRaw` and `WakesForItself`: `RawRespected` and `WakesInItsSlots`, under `RegularRaws`: each RAW, with the
  grant it postpones, is over before the next beacon, no station is unpaged, and a slot is
  longer than the postponement (500 us at least in `sta-wifi-mac.cc:1524`, against 160). `WindowInv`
  says which events of the RAW are still due at each moment (`Timed`) and that
  access outside the RAW is closed until they have fired (`Closed`).
* `StrandsNone`: `NoneStranded`, under the same, from `StrandedInv`: a packet that waits with
  nobody to ask for the medium is followed by an event which will ask for it (`Followed`).
  The instance of `raw` satisfies `RegularRaws`.

`BlockAckProofs`, for any packets, windows and sequence numbers:

* `BlockedIsPending`: `BlockedWhilePending`, from `AgreementInv`: until an inactivity timer expires no
  `DELBA` is anywhere (`NoDelba`), a response that is on its way has a record behind it and no data
  under the agreement goes without one (`Promised`), for data without a record is what
  makes a recipient tear down.
* `PacketsAreKept`: `EveryPacketKept`, inactivity timeouts included. A packet in service counts only while it
  is under a normal ack (`Placed`); one under the block ack is kept by the agreement, and what
  leaves that is reported in the same step. It takes what `MacLow` waits for (`Serving`): only
  that tells that the end of a transmission without ack, or of a block ack request, gives up no packet.

The other four of that module take `HalfTheNumbers`: the packets of a run take at most half of the sequence numbers
(2048 of 4096), so no number is used twice and the circular comparisons order the numbers as they
were drawn (`Draw`), although they still wrap. What lies beyond, numbers used again, is TLC's
(run `block_ack`). Windows, thresholds, losses, lifetimes and retry limits are arbitrary.

* `RetriesStayKept`: `RetriesAreKept`, inactivity timeouts included, from `WindowInv`. The packets and
  the retries of an agreement are in the order their numbers were drawn and none of the retries is
  before the start of the window (`Ordered`): what `StorePacket` and `InsertInRetryQueue` insert by
  circular comparison keeps it, and `Cleanup` and `Prepared` then take what they mean to take.
  A block ack could still erase a packet whose retry stays; it does not, as no retry is within the window
  of a request that is due or in service (`Asked`, `Requested`): a request is due when the first retry
  is beyond the window, and then so are those behind it, or when there is none.
* `OnlyTheOldAreGone`: `OnlyOldAreGone`, from the same: `Prepared` finds no retry the window has left
  behind, since none is before its start.
* `SentIsReceived`: `SentMeansReceived`, from `ReceivedInv`. `RecipientInv` says that of the
  packets on their way (`Way`: kept, buffered, in service or in the air) no two have the same
  number, that each bit of `BlockAckCache` and of the block ack in the air (`Bits`) is of a number that
  was drawn, and that the duplicate filter drops only what was handed up (`Known`). Then a
  bit, or an ack for the frame in service, is of a packet the recipient has (`Backed`, `AckBacked`):
  a new packet takes a number that has no bit, and whatever empties the buffer hands up what it takes.
* `RecordsStaySound`: `RecordsAreSound`, from `RecordsInv`, which adds to the above that the remaining
  records keep their types. `WINSIZE_ASSERT` (`CacheWindow`) is inductive only with the
  types of the frames: a request whose start were not a number would break it.

`BlockAckOrderProofs` proves `PacketsStayInOrder`, `Spec => []InOrderInFirstHalf`, for any packets,
losses, retry limits, lifetimes and inactivity timeouts, under two hypotheses. `FirstHalf`: the numbers of all
packets are in the first half of the space, as the property itself asks of those handed up. There the
keys by which `MacLow` sorts its buffer are shown to compare like the numbers (`MultipleOrder`). And
`Window > 1` (the code has 64): with a window of one packet TLC finds the property violated. After a
block ack that was missed the originator sends a new packet besides the one it keeps; that moves the recipient's
window past the older one, which no block ack covers from then on, so that it is sent again after both were handed up.

The operators of the recipient come first: `StoreMpdu` keeps the buffer sorted, each of the
two handlers that empty it takes a prefix, `MacRxMiddle` hands that up in order. The inductive invariant is
`InOrderInv`, with these parts besides those of `BlockAckProofs`:

* `PacketOrder`: packets get their numbers in the order of the queue, so that the order of numbers is
  that of packets, everywhere from the queue to what was handed up.
* `Narrow`: what may still arrive (`Live`) fits into one window, and while nothing waits to be sent
  again and no request is due the next packet will fit too. The originator may send one packet
  beyond the window of a request, but then it is the newest and the only one left.
* `LinkOrder`: the recipient has not passed what may still arrive. A number without a bit in
  `BlockAckCache` is neither handed up nor buffered nor in front of the start of the window
  (`Missing`); a number with one is covered by the block ack in the air, but for the newest.
* `Echoes` and `Copies`, as long as no timer ends an agreement: only the newest packet comes again after
  its bit was set. Such a copy is a retry, it stands in the buffer right behind the first one,
  no request that may still come falls between the two, and so the duplicate filter drops it.
* `Fits`, `Serves`, `Normals`: a packet under normal acknowledgement goes without an agreement at the
  originator and is the newest, which is what makes its way past a stale record of the recipient harmless.

A lemma for each kind of step carries the invariant: one for the steps of the originator that
only sort its own records, one for new packets and for retries, one for requests, one for block acks, and, of the
recipient, one each for data, requests, handshakes and the end of an agreement. Once a timer has ended an agreement
`Copies`, `Echoes` and `Normals` no longer hold, which is why the property then allows the same packet twice
in a row, and nothing worse. TLC agreed to these parts with 5 packets, 12 sequence numbers, 2 losses, one
packet that expires and one inactivity timeout before they were proved.

`TestRunnerProofs`, for any jobs, any number of workers, any failures:

* `Invariance`: the inductive invariant. It has a part for each place a job can be: in the
  hand of a worker (`Hands`: a running worker has a job that is not skipped, one that
  exited has a break, no two have the same item), in the output queue (`Output`: there it
  is nobody's, not collected, and was broken, skipped or run), or collected (`Collected`:
  what counts as passed ran and returned 0). `Counted` ties the counters `passed` and
  `skipped` to the jobs with that status, so that `passed + skipped = Jobs` means
  that each job is one or the other. `TypeCorrect`, `EveryJobInOneHand` and
  `SuccessIsEarned` follow.
* `NobodyIsLeft`: when the results are removed all workers have ended; if none of them
  died, each holds a break of its own, and by the pigeonhole principle there are not
  fewer breaks taken than workers.

`WhiteSpaceProofs`, for any channels, whichever of their texts contain each other, any list of
frequencies and any recursion limit: `Invariance` (the lists
are disjoint, what is reported is not available, and what the poll returned has nothing in
common with what had been reported), from which `TypeCorrect`, `ReportsAreKept` and,
as an action property, `MasterVacates` follow.

`VisualizerProofs`, for any number of timers: `OnePeriodAhead` and `PlayingHasTimer`. For the
first the invariant is that the simulator is a period ahead only while no further one
is due; the second is inductive as it stands.

Type invariants of the modules with a proof are proved, and no longer listed in a run except
for those of `Association` and `RawAccess`; that of `Visualizer` is stated only, and `BlockAck` has
`RecordsAreSound` in its place.

Only model-checked: the properties of `BlockAck` once numbers are used again, but for
`BlockedWhilePending` and `EveryPacketKept`, whose theorems cover that too, and `InOrderInFirstHalf` for runs with
packets whose numbers go beyond the first half. And
all liveness (`EveryStationSettles`, `EveryPacketEnds`, `EdcaGetsOut`, `ThreadsEnd`, `MasterLeaves`,
`ScansEach`, `KeepsRunning`, `QuitEnds`), which needs `ENABLED` and is beyond the proof system.

## 5. Disagreements between code and documentation

The two runs marked "violated" each refute a sentence of a comment or of
the design document; `PROJECT.json` (`findings`) quotes it:

1. The AP ignores the request of a station it takes for associated, so a station
   that lost its beacons never comes back (`ap-wifi-mac.cc:1460`; `wifi-design.rst:68-72`
   of `src/IEEE-802.11ah-ns-3/src/wifi/doc/source` promises automatic re-association).
2. `RxCompleteBufferedPacketsWithSmallerSequence` compares sequence numbers as if
   they were sequence controls, so after the wrap of the numbers a packet is handed up
   before an older one (`mac-low.cc:2598`; `mac-low.h:1171-1172` promises circular
   comparison). The wrap is not needed: the keys also turn round where the start of the
   window, less half the space, passes a sixteenth of the number asked for. When 2175 to 2183 and 2185
   arrive, 2184 does not, and the first block ack is lost, the second request for 2175
   hands up 2185, and 2184 follows later. (TLC finds the same of `HandedUpInOrder` with 7
   packets, `SeqSpace` 24, `FragMod` and `Window` 4, `FirstSeq` 11 and 2 losses.)

The models contain further disagreements, which no run looks for:

3. A fragmented packet that is given up leaves the receiver waiting for the rest;
   it acknowledges and drops all that follows (`mac-rx-middle.cc:278`; `mac-rx-middle.h:86`:
   "If the packet is not a fragment, the method returns the packet").
4. `EdcaTxopN` builds the header of a fragment and sends another one
   (`edca-txop-n.cc:666`; `edca-txop-n.h:386`: "with appropriate Wifi header for the fragment").
5. A station in a paged RAW without buffered data keeps the access it had
   (`sta-wifi-mac.cc:1328`; line 1304: "only m_dataBuffered can access channel").
6. A request that waits for its retransmission when access is denied to a station
   without AID is not sent again (`sta-wifi-mac.cc:1302`).
7. Sleep at the acknowledgement of a fragment removes the listener that is
   called a SIFS later (`mac-low.cc:1057`).
8. The entry for an error of valgrind that `test.py:1712-1716` announces is never
   written: its test is nested in the branch that excludes it (1726, 1740).
9. The slave prints "All available frequencies have been scanned" (`slave.py:204`) but
   starts at index 1 and wraps to 1: the first frequency is never tried.

The passing instances step around further behaviour that the models do contain:

* Switching active probing off while a probe is pending (`Reconfigure`) leaves a
  station in `WAIT_PROBE_RESP` without a timer, so `WaitsHaveTimers` does not speak
  of that state, and `association_settles` does not reconfigure.
* With missed beacons a timer that the watchdog left running can throw a station
  out of `ASSOCIATED` or `REFUSED`; `association_settles` has no beacon losses.
* `GivenUpAfterMaxSlrc` holds only if a TID has one function (`Tid <- OwnTid`) and
  the packet no RTS (`RtsPackets`): otherwise `m_slrc` counts failures of others.
* `ImplementsLink` needs a sender that does not sleep (`MaySleep`): `NotifySleep`
  queues a packet whose acknowledgement is awaited as a new one.
* `TxOkMeansForwarded` needs fewer than `SeqMod - 1` frames to others between two
  packets (`MaxOthers`), and no fragments, by 3.
* The last `MissedAck` of an `EdcaTxopN` calls the sleep callback before it reports the failure and
  forgets the packet (`edca-txop-n.cc:964`, 969, 974). With nothing else in the queues the PHY
  sleeps at once (`sta-wifi-mac.cc:727`), `NotifySleep` (864) puts the packet back, and it is reported as
  failed although it will be sent again. `EveryPacketAccounted` excepts this case and no
  other; `packets_end` reaches it.
* `RawRespected` needs two units between the end of a RAW and the next beacon
  (`Intervals`): an earlier one meets the postponed grant of the previous RAW.
* `InOrderInFirstHalf` speaks only of packets with numbers in the first half of the
  space. Beyond, the keys of the buffer turn round (2 above), and a block ack request does
  not move the window of `MacLow` between stations without HT (`mac-low.cc:2811`; it does
  with HT, 2824): once something was left out that window stays where it is, and half a
  space later the buffer is sorted by distances that have turned round as well.
  After an inactivity timeout it lets the same packet go up twice in a row, which needs more
  numbers than the run has (12, with 6 packets and windows of 2). The originator has ended the
  agreement, the acknowledgement of the recipient's `DELBA` was lost, and so the recipient
  still has its record when the next packet comes under normal acknowledgement (`mac-low.cc:1140`):
  `RxCompleteBufferedPacketsUntilFirstLost` hands up the first of two copies and stops at the
  second, which goes up by itself later and is no retry for `MacRxMiddle` to drop.
* `GetNextPacket` asks with a plain comparison whether a retry is beyond the window
  (`block-ack-manager.cc:292`), seven lines after a circular one. In a window of three or more that
  spans the wrap every retry with a number before it is beyond, and the window starts at it although
  an earlier packet may not be acknowledged. The next request then moves the recipient's
  window past that packet: when it is retried its bit is never set, it is retried until it
  is too old, and the recipient hands its copies up again. The windows of `block_ack` are of two,
  with which a retry in the window is its first or its last packet.
* `RetriesAreKept`, `SentMeansReceived` and `OnlyOldAreGone` need outstanding numbers within half the
  space. Nothing in the code bounds them (a packet that is never acknowledged stays
  until it is too old while others pass it); in the run packets and losses do.
* `SentMeansReceived`, `OnlyOldAreGone` and `BlockedWhilePending` hold until an inactivity timer
  expires: `DestroyBlockAckAgreement` discards acknowledged packets behind a gap, and
  neither teardown unblocks the destination. A request or a response of the handshake
  that is given up leaves the agreement pending and the destination blocked for good.
* `NeedBarRetransmission` compares the number of a block ack request with a window that may
  have moved past it, and drops a request that later packets wait for
  (`block-ack-manager.cc:794`). A `DELBA` that arrives while the request is in service makes it
  stop the program instead (line 793), and `ResetBlockAckInactivityTimerIfNeeded` does
  so when the timer has just fired; the model takes neither step.
* `ThreadsEnd` excepts a worker that died with a job in its hand: the main thread waits for it
  for ever (`test.py:1608`). A suite that failed without a results file ends the main
  thread with `IOError`. The element written for a crash is malformed (1736).
* `VacatesAtOnce` excepts a draw below 400 MHz: the master then sends its beacon where it
  was. An empty list raises `IndexError` and ends the thread, and so does a server
  that does not answer; `MasterLeaves` excepts both.
* The slave reads beacons of earlier dwells too (`slave.py:209`) and then transmits
  on a frequency where it has heard nothing. The file `utils/CE_freqs.csv` it reads
  is in `WSDB/` only; the list is an input of the model.
* `Pause` of PyViz sets `m_stop`, which nobody reads: a pause takes effect at the
  end of the period, which is why `NotAhead` says one period.
* A paused view forgets its timer even when the speed slider started another one while
  it waited (`core.py:1088`): two timers run after the next play.
* `StartRawbackoff` saves the retry counters of a station once per function, and each time
  overwrites what the one before it saved (`wifi-remote-station-manager.cc:1357`); the
  counters restored after a RAW may be those of another function.
* The slave synchronises by calling itself (`slave.py:220`, 225), so that about 1000 dwells end its
  thread with `RuntimeError`. `ScansEach` speaks of a round for which the recursion limit
  leaves room.
* A report is not recorded when its text is part of a used entry (`webServerWSDB.py:80`): with the lines of
  `spectrumdB.back`, one of 60 MHz (channel 3 of `channelmap.py`) leaves no trace beside 560, so `ReportedIsKept` asks
  only that the channel is not offered. Where 560 or 608 is available the same report turns it into 5 or
  8 (line 76), which the master may draw and cannot use.
* A database that starts again forgets what had been reported; `ReportedIsKept` and
  `VacatesAtOnce` hold between two starts.
* `EdcaGetsOut` needs a station that has seen a beacon when it associates
  (`ActiveProbing = FALSE`): before, no event is scheduled that would wake it.

## 6. What is not modelled

* `Association`: one SSID and one access point; broadcast addresses and frames
  other than those of the exchange. The probability of a draw: `AssocValue` is any.
  `Disassociate` is taken in `ASSOCIATED` only: `SendDisAssociationRequest` (`sta-wifi-mac.cc:990`) is public and
  may be called in any state, but nothing in the repository calls it except its own timer.
* `StopAndWait`: A-MSDU, A-MPDU, NAV and collisions of
  internal backoffs. A frame may be lost at any time, which covers collisions. The number that an
  access draws at which the station then falls asleep instead of sending (`edca-txop-n.cc:658`, 751).
* `BlockAck`: fragments, A-MSDU and A-MPDU (stations without HT), delayed and basic
  block ack, several TIDs and several recipients. Frames that collide with an
  answer, and sleep, which `StopAndWait` and `RawAccess` have. `m_txFailedCallback` for packets that a
  block ack leaves to be retried (`block-ack-manager.cc:592-597`).
* `TestRunner`: which suites are chosen, command lines, the text of the reports, and
  `waf`, which runs before the threads start.
* `WhiteSpace`: the characters of a line: which entries contain which is a constant, and no text of a report
  spans two of them or the label. The login of the web page, the radio front end. The web server is taken to handle a
  request at a time, as Flask's development server did.
* `Visualizer`: handlers that take the lock for a moment only (tooltips, plugins,
  `update_model`), and the shell, whose code may hold the lock while it waits for input.
* `RawAccess`: other stations, the bitmap of the TIM, page slices, the PS-Poll
  function (nothing in the code queues a packet at it) and the saved retry counters.
  The slot is an input, as the beacon carries it.
* RPS and RAW control, TIM and page slices, `DcfManager`: next in the plan. PHY, rate
  control and frame formats: left out, since no property here depends on them.
* Of the 610 thousand lines of Python in the repository about 95 in a hundred are
  `bindings/modulegen__gcc_*.py`: tables generated from the C++ headers, without control
  flow to model. The share of lines the map covers is therefore small whatever is
  modelled; of the Python written by hand, the three programs with concurrency are.

## 7. Plan

Done, in this order since each serves as the ground of the next: association,
the link it takes for granted, RAW access and sleep, block acknowledgement; then the
test driver, the white-space example and the visualizer, which stand alone. Next:

1. A windowed channel as abstract specification of `BlockAck` before the wrap.
2. `RawSlots`: the slot an AP means (`ap-wifi-mac.cc:1265`) against the one the
   station computes (`sta-wifi-mac.cc`), as operators over bounded AIDs.
3. `PageSlicing`: the beacon for which a station wakes, the TIM it decodes.
4. `DcfManager`: requests, backoff, internal collisions; `RawAccess` on top of it.
5. Proofs: `InOrderInFirstHalf` for runs whose numbers go beyond the first half, which takes an
   argument about what the buffer holds when its keys turn round.
