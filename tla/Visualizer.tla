------------------------------- MODULE Visualizer -------------------------------
(***************************************************************************)
(* PyViz, the live visualizer of ns-3: the thread of the view runs the     *)
(* event loop of GTK, and SimulationThread runs the simulator for one      *)
(* period each time the view says go.                                      *)
(*                                                                         *)
(* Only the simulation thread holds the lock for longer than one step: a   *)
(* handler of the view that takes it waits until the simulator stops.      *)
(* While update_view_timeout waits for the lock it runs the event loop,    *)
(* where other handlers and other timers go on.                            *)
(***************************************************************************)
EXTENDS Naturals, Sequences, FiniteSets

CONSTANTS
  Timer,         \* bound: identifiers of timers in use at the same time
  NoTimer

ASSUME VisualizerAssumption == NoTimer \notin Timer /\ IsFiniteSet(Timer)

VARIABLES
  gui,              \* what the thread of the view does
  play,             \* play_button.get_active()
  live,             \* timers GTK will call
  updateTimeoutId,  \* _update_timeout_id, which may name a timer that is gone
  spinning,         \* calls of update_view_timeout that wait for the lock
  sim,              \* what the simulation thread does
  go, quit,         \* the event and the flag of the simulation thread
  due,              \* target_time is later than the time of the simulator
  ahead,            \* periods the simulator has run since the last view
  pauseMessages     \* there are pause messages

timers == <<live, updateTimeoutId, spinning>>
thread == <<sim, go, quit>>
model == <<due, ahead, pauseMessages>>
vars == <<gui, play, timers, thread, model>>

Init ==
  /\ gui = "loop" /\ play = FALSE
  /\ live = {} /\ updateTimeoutId = NoTimer /\ spinning = <<>>
  /\ sim = "waiting" /\ go = FALSE /\ quit = FALSE
  /\ due = FALSE /\ ahead = 0 /\ pauseMessages = FALSE

-----------------------------------------------------------------------------
(* The simulation thread.                                                  *)

Locked == sim = "running"

Wake ==
  /\ sim = "waiting" /\ go
  /\ sim' = "woken"
  /\ UNCHANGED <<gui, play, timers, go, quit, model>>

Clear ==
  /\ sim = "woken"
  /\ go' = FALSE
  /\ sim' = "checking"
  /\ UNCHANGED <<gui, play, timers, quit, model>>

CheckQuit ==
  /\ sim = "checking"
  /\ sim' = IF quit THEN "dead" ELSE "running"
  /\ UNCHANGED <<gui, play, timers, go, quit, model>>

(* Fault: the target counts from the time of the simulator. *)
RunPeriodFromNow ==
  /\ sim = "running"
  /\ due' = FALSE
  /\ ahead' = ahead + 1
  /\ \E raised \in BOOLEAN : pauseMessages' = (pauseMessages \/ raised)
  /\ sim' = "looping"
  /\ UNCHANGED <<gui, play, timers, go, quit>>

(* SimulatorRunUntil returns at once when the target has been reached.     *)
(* Pause messages do not stop it before.                                   *)
RunUntil ==
  /\ sim = "running"
  /\ due' = FALSE
  /\ ahead' = IF due THEN ahead + 1 ELSE ahead
  /\ \E raised \in BOOLEAN :
       /\ raised => due
       /\ pauseMessages' = (pauseMessages \/ raised)
  /\ sim' = "looping"
  /\ UNCHANGED <<gui, play, timers, go, quit>>

Loop ==
  /\ sim = "looping"
  /\ sim' = IF quit THEN "dead" ELSE "waiting"
  /\ UNCHANGED <<gui, play, timers, go, quit, model>>

-----------------------------------------------------------------------------
(* The view.                                                               *)

(* update_view_timeout of timer t, once it has the lock.  Switching the    *)
(* button off calls its handler, which removes the timer it knows of.      *)
UpdateView(t) ==
  /\ ~Locked
  /\ due' = TRUE /\ ahead' = 0 /\ pauseMessages' = FALSE
  /\ play' = (play /\ ~pauseMessages)
  /\ IF play'
     THEN go' = TRUE /\ UNCHANGED <<live, updateTimeoutId>>
     ELSE /\ live' = live \ (IF play THEN {t, updateTimeoutId} ELSE {t})
          /\ updateTimeoutId' = NoTimer
          /\ UNCHANGED go
  /\ UNCHANGED <<gui, sim, quit>>

(* GTK calls no timer again that is still being handled.                   *)
Fire(t) ==
  /\ gui = "loop" /\ t \in live
  /\ \A n \in DOMAIN spinning : spinning[n] # t
  /\ IF Locked
     THEN /\ spinning' = Append(spinning, t)
          /\ UNCHANGED <<gui, play, live, updateTimeoutId, thread, model>>
     ELSE UpdateView(t) /\ UNCHANGED spinning

StopSpinning ==
  /\ gui = "loop" /\ spinning # <<>>
  /\ UpdateView(spinning[Len(spinning)])
  /\ spinning' = SubSeq(spinning, 1, Len(spinning) - 1)

Unused(t) == t \notin live \cup {updateTimeoutId} /\ \A n \in DOMAIN spinning : spinning[n] # t

(* Fault: no new timer while one is known. *)
StartUpdateTimerOnce ==
  IF updateTimeoutId # NoTimer THEN UNCHANGED timers
  ELSE \E t \in Timer :
    /\ Unused(t)
    /\ live' = live \cup {t}
    /\ updateTimeoutId' = t
    /\ UNCHANGED spinning

StartUpdateTimer ==
  \E t \in Timer :
    /\ Unused(t)
    /\ live' = (live \ {updateTimeoutId}) \cup {t}
    /\ updateTimeoutId' = t
    /\ UNCHANGED spinning

Play ==
  /\ gui = "loop" /\ ~play
  /\ play' = TRUE
  /\ StartUpdateTimer
  /\ UNCHANGED <<gui, thread, model>>

(* The identifier is kept.                                                 *)
Pause ==
  /\ gui = "loop" /\ play
  /\ play' = FALSE
  /\ live' = live \ {updateTimeoutId}
  /\ UNCHANGED <<gui, updateTimeoutId, spinning, thread, model>>

(* The slider of the speed starts a timer, playing or not.                 *)
ChangeSpeed ==
  /\ gui = "loop"
  /\ StartUpdateTimer
  /\ UNCHANGED <<gui, play, thread, model>>

(* _quit, up to its first step that the other thread sees.                 *)
RequestQuit ==
  /\ gui = "loop"
  /\ live' = live \ {updateTimeoutId}
  /\ updateTimeoutId' = NoTimer
  /\ quit' = TRUE
  /\ gui' = "quitting"
  /\ UNCHANGED <<play, spinning, sim, go, model>>

(* Fault: the thread is not woken. *)
JoinUnwoken ==
  /\ gui = "quitting"
  /\ gui' = "joining"
  /\ UNCHANGED <<play, timers, thread, model>>

WakeToQuit ==
  /\ gui = "quitting"
  /\ go' = TRUE
  /\ gui' = "joining"
  /\ UNCHANGED <<play, timers, sim, quit, model>>

(* The thread has ended, and main_quit ends the event loop.                *)
Join ==
  /\ gui = "joining" /\ sim = "dead"
  /\ gui' = "quit"
  /\ UNCHANGED <<play, timers, thread, model>>

Simulation == Wake \/ Clear \/ CheckQuit \/ RunUntil \/ Loop
User == Play \/ Pause \/ ChangeSpeed \/ RequestQuit
Next == Simulation \/ (\E t \in Timer : Fire(t)) \/ StopSpinning \/ User \/ WakeToQuit \/ Join

(* Both threads go on; the user need not do anything.                      *)
Fairness ==
  /\ WF_vars(Simulation)
  /\ \A t \in Timer : WF_vars(Fire(t))
  /\ WF_vars(StopSpinning)
  /\ WF_vars(WakeToQuit \/ Join)
Spec == Init /\ [][Next]_vars /\ Fairness

-----------------------------------------------------------------------------
(* Correctness.                                                            *)

(* The variables of Visualizer and SimulationThread keep their types.      *)
TypeOK ==
  /\ gui \in {"loop", "quitting", "joining", "quit"}
  /\ play \in BOOLEAN
  /\ live \subseteq Timer /\ updateTimeoutId \in Timer \cup {NoTimer}
  /\ spinning \in Seq(Timer) /\ Len(spinning) <= Cardinality(Timer)
  /\ sim \in {"waiting", "woken", "checking", "running", "looping", "dead"}
  /\ go \in BOOLEAN /\ quit \in BOOLEAN
  /\ due \in BOOLEAN /\ ahead \in Nat /\ pauseMessages \in BOOLEAN

(* However often the view says go, the simulator runs one period at most   *)
(* past what it has shown, so a pause is seen within a period.             *)
NotAhead == ahead <= 1

(* While the button is on, the timer the view knows of is one GTK calls.   *)
PlayHasTimer == play /\ gui = "loop" => updateTimeoutId \in live

(* While the button stays on and nobody quits or replaces the timer, the   *)
(* simulator goes on.                                                      *)
Undisturbed(t) == play /\ gui = "loop" /\ updateTimeoutId = t
KeepsRunning ==
  \A t \in Timer : <>[]Undisturbed(t) => []<>(ahead = 0) /\ []<>(ahead = 1)

(* A request to quit ends the simulation thread and the event loop, in     *)
(* whatever state it finds them.                                           *)
QuitEnds == gui = "quitting" ~> gui = "quit"
=============================================================================
