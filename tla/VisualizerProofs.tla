---------------------------- MODULE VisualizerProofs ----------------------------
(***************************************************************************)
(* Theorems about Visualizer, for any number of timers.                    *)
(***************************************************************************)
EXTENDS Visualizer, TLAPS

USE VisualizerAssumption

(* The simulator reached the target of the last view, or has not run since. *)
Periods == ahead \in {0, 1} /\ (due => ahead = 0)

LEMMA PeriodsStep == Periods /\ [Next]_vars => Periods'
<1> SUFFICES ASSUME Periods, [Next]_vars PROVE Periods'
  OBVIOUS
<1>1. CASE RunUntil
  <2>1. due' = FALSE /\ ahead' = IF due THEN ahead + 1 ELSE ahead
    BY <1>1 DEF RunUntil
  <2>2. CASE due
    <3>1. ahead = 0
      BY <2>2 DEF Periods
    <3>2. ahead' = ahead + 1
      BY <2>1, <2>2
    <3> QED BY <2>1, <3>1, <3>2 DEF Periods
  <2>3. CASE ~due
    <3>1. ahead' = ahead
      BY <2>1, <2>3
    <3> QED BY <2>1, <3>1 DEF Periods
  <2> QED BY <2>2, <2>3
<1>2. CASE \E t : UpdateView(t)
  BY <1>2 DEF UpdateView, Periods
<1>3. CASE UNCHANGED model
  BY <1>3 DEF model, Periods
<1>4. RunUntil \/ UNCHANGED model \/ \E t : UpdateView(t)
  <2>1. ASSUME NEW t \in Timer, Fire(t) PROVE UNCHANGED model \/ UpdateView(t)
    BY <2>1 DEF Fire
  <2>2. CASE StopSpinning
    BY <2>2 DEF StopSpinning
  <2>3. CASE (Simulation /\ ~RunUntil) \/ User \/ WakeToQuit \/ Join \/ UNCHANGED vars
    BY <2>3 DEF Simulation, Wake, Clear, CheckQuit, Loop, User, Play, Pause, ChangeSpeed, RequestQuit,
                WakeToQuit, Join, vars
  <2> QED BY <2>1, <2>2, <2>3 DEF Next, Simulation
<1> QED BY <1>1, <1>2, <1>3, <1>4

(* The simulator runs one period at most past what the view has shown.     *)
THEOREM OnePeriodAhead == Spec => []NotAhead
<1>1. Init => Periods
  BY DEF Init, Periods
<1>2. Periods => NotAhead
  BY DEF Periods, NotAhead
<1> QED BY <1>1, <1>2, PeriodsStep, PTL DEF Spec

LEMMA TimerStep == PlayHasTimer /\ [Next]_vars => PlayHasTimer'
<1> SUFFICES ASSUME PlayHasTimer, [Next]_vars, play', gui' = "loop"
             PROVE  updateTimeoutId' \in live'
  BY DEF PlayHasTimer
<1>1. CASE \E t : UpdateView(t)
  <2>1. PICK t : UpdateView(t)
    BY <1>1
  <2>2. play /\ gui = "loop"
    BY <2>1 DEF UpdateView
  <2>3. UNCHANGED <<live, updateTimeoutId>>
    BY <2>1 DEF UpdateView
  <2> QED BY <2>2, <2>3 DEF PlayHasTimer
<1>2. CASE StartUpdateTimer
  BY <1>2 DEF StartUpdateTimer
<1>3. CASE UNCHANGED <<gui, play, live, updateTimeoutId>>
  BY <1>3 DEF PlayHasTimer
<1>4. \/ \E t : UpdateView(t)
      \/ StartUpdateTimer
      \/ UNCHANGED <<gui, play, live, updateTimeoutId>>
  <2>1. ASSUME NEW t \in Timer, Fire(t)
        PROVE  UpdateView(t) \/ UNCHANGED <<gui, play, live, updateTimeoutId>>
    BY <2>1 DEF Fire
  <2>2. CASE StopSpinning
    BY <2>2 DEF StopSpinning
  <2>3. CASE Simulation \/ UNCHANGED vars
    BY <2>3 DEF Simulation, Wake, Clear, CheckQuit, RunUntil, Loop, timers, vars
  <2>4. CASE User
    BY <2>4 DEF User, Play, Pause, ChangeSpeed, RequestQuit
  <2>5. ~WakeToQuit /\ ~Join
    BY DEF WakeToQuit, Join
  <2> QED BY <2>1, <2>2, <2>3, <2>4, <2>5 DEF Next
<1> QED BY <1>1, <1>2, <1>3, <1>4

(* Whatever the user does while the view waits for the simulator, the view *)
(* has a timer while the button is on.                                     *)
THEOREM PlayingHasTimer == Spec => []PlayHasTimer
<1>1. Init => PlayHasTimer
  BY DEF Init, PlayHasTimer
<1> QED BY <1>1, TimerStep, PTL DEF Spec
=============================================================================
