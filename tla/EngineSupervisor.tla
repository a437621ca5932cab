-------------------------- MODULE EngineSupervisor --------------------------
(***************************************************************************)
(* Engine and its supervisor thread (app/engine/engine.py): start() builds *)
(* one pipeline per camera, the supervisor polls their workers and         *)
(* replaces the dead ones with per-camera exponential backoff, and stop()  *)
(* ends everything from the controlling thread.                            *)
(*                                                                         *)
(* A critical section of self._lock is one step. Time is counted in polls: *)
(* the supervisor reads the clock once per pass, so a restart time is kept *)
(* as the time left when the pass began.                                   *)
(***************************************************************************)
EXTENDS Integers, FiniteSets

CONSTANTS
  Cameras,       \* the cameras with a _CameraRuntime
  BackoffBase,   \* _BACKOFF_BASE_S, in polls
  BackoffMax,    \* _BACKOFF_MAX_S, in polls
  MaxPass,       \* bound of the model: the longest pass, in polls
  StartRaises,   \* whether CameraPipeline.start() may raise
  JoinTimesOut   \* whether the supervisor may outlast stop()'s join

ASSUME SupervisorAssumption ==
  /\ IsFiniteSet(Cameras)
  /\ BackoffBase \in Nat \ {0} /\ BackoffMax \in Nat
  /\ BackoffBase <= BackoffMax
  /\ MaxPass \in Nat \ {0}
  /\ {StartRaises, JoinTimesOut} \subseteq BOOLEAN

VARIABLES
  pipelines,   \* self._pipelines: "none", or what is_alive() says: "up", "down"
  feeds,       \* capture threads that run and were not told to stop
  backoff,     \* runtime.backoff
  scheduled,   \* cameras whose runtime.restart_at is not None
  due,         \* ... and how far ahead it is
  stopEvent,   \* self._stop_event
  supervisor,  \* the supervisor thread: "off", "on", "exited"
  todo,        \* cameras the current pass has yet to check
  phase,       \* the controlling thread
  lost,        \* history: cameras whose start() raised after capture began
  downFor,     \* history: time since the supervisor found the worker dead
  streak       \* history: restarts since it last saw a live one

runtimeVars == <<backoff, scheduled, due>>
control == <<stopEvent, phase>>
history == <<lost, downFor, streak>>
vars == <<pipelines, feeds, runtimeVars, control, supervisor, todo, history>>

LeastOf(a, b) == IF a < b THEN a ELSE b

Init ==
  /\ pipelines = [c \in Cameras |-> "none"]
  /\ feeds = [c \in Cameras |-> 0]
  /\ backoff = [c \in Cameras |-> BackoffBase]
  /\ scheduled = {} /\ due = [c \in Cameras |-> 0]
  /\ stopEvent = FALSE /\ phase = "idle"
  /\ supervisor = "off" /\ todo = {}
  /\ lost = {}
  /\ downFor = [c \in Cameras |-> 0] /\ streak = [c \in Cameras |-> 0]

-----------------------------------------------------------------------------
(* The controlling thread: start(), later stop().                          *)

StartEngine ==
  /\ phase = "idle" /\ phase' = "running"
  /\ pipelines' = [c \in Cameras |-> "up"]
  /\ feeds' = [c \in Cameras |-> 1]
  /\ supervisor' = "on"
  /\ UNCHANGED <<runtimeVars, stopEvent, todo, history>>

(* The loop of start() raises at camera c: those before it run, nobody     *)
(* supervises them.                                                        *)
StartEngineRaises(c) ==
  /\ StartRaises /\ phase = "idle" /\ phase' = "failed"
  /\ \E before \in SUBSET (Cameras \ {c}), half \in SUBSET {c} :
       /\ pipelines' = [d \in Cameras |-> IF d \in before THEN "up" ELSE "none"]
       /\ feeds' = [d \in Cameras |-> IF d \in before \union half THEN 1 ELSE 0]
       /\ lost' = half
  /\ UNCHANGED <<runtimeVars, stopEvent, supervisor, todo, downFor, streak>>

SignalStop ==
  /\ phase = "running" /\ phase' = "joining"
  /\ stopEvent' = TRUE
  /\ UNCHANGED <<pipelines, feeds, runtimeVars, supervisor, todo, history>>

JoinSupervisor ==
  /\ phase = "joining" /\ phase' = "joined"
  /\ supervisor = "exited" \/ JoinTimesOut
  /\ UNCHANGED <<pipelines, feeds, runtimeVars, stopEvent, supervisor, todo, history>>

(* pipeline.stop() on each pipeline that is still in the dictionary.       *)
StopPipelines ==
  /\ phase = "joined" /\ phase' = "stopped"
  /\ feeds' = [c \in Cameras |->
       IF pipelines[c] # "none" /\ feeds[c] > 0 THEN feeds[c] - 1 ELSE feeds[c]]
  /\ pipelines' = [c \in Cameras |-> "none"]
  /\ UNCHANGED <<runtimeVars, stopEvent, supervisor, todo, history>>

Control ==
  \/ StartEngine \/ (\E c \in Cameras : StartEngineRaises(c))
  \/ SignalStop \/ JoinSupervisor \/ StopPipelines

-----------------------------------------------------------------------------
(* The threads of the pipelines.                                           *)

WorkerDies(c) ==
  /\ pipelines[c] = "up"
  /\ pipelines' = [pipelines EXCEPT ![c] = "down"]
  /\ UNCHANGED <<feeds, runtimeVars, control, supervisor, todo, history>>

CaptureDies(c) ==
  /\ feeds[c] > 0
  /\ feeds' = [feeds EXCEPT ![c] = @ - 1]
  /\ UNCHANGED <<pipelines, runtimeVars, control, supervisor, todo, history>>

-----------------------------------------------------------------------------
(* The supervisor thread.                                                  *)

\* Mutant: the clock is not read again for each pass.
Poll_StaleNow ==
  /\ supervisor = "on" /\ todo = {} /\ ~stopEvent
  /\ todo' = Cameras
  /\ \E elapsed \in 1..MaxPass :
       downFor' = [c \in Cameras |->
         IF c \in scheduled THEN LeastOf(downFor[c] + elapsed, BackoffMax) ELSE 0]
  /\ UNCHANGED <<pipelines, feeds, runtimeVars, control, supervisor, lost, streak>>

\* Mutant: the loop runs for ever.
Poll_IgnoresStop ==
  /\ supervisor = "on" /\ todo = {}
  /\ todo' = Cameras
  /\ UNCHANGED <<pipelines, feeds, runtimeVars, control, supervisor, history>>

(* stop_event.wait(timeout) times out; the pass reads the clock.           *)
Poll ==
  /\ supervisor = "on" /\ todo = {} /\ ~stopEvent
  /\ todo' = Cameras
  /\ \E elapsed \in 1..MaxPass :
       /\ due' = [c \in Cameras |-> IF due[c] > elapsed THEN due[c] - elapsed ELSE 0]
       /\ downFor' = [c \in Cameras |->
            IF c \in scheduled THEN LeastOf(downFor[c] + elapsed, BackoffMax) ELSE 0]
  /\ UNCHANGED <<pipelines, feeds, backoff, scheduled, control, supervisor, lost, streak>>

SupervisorExit ==
  /\ supervisor = "on" /\ todo = {} /\ stopEvent
  /\ supervisor' = "exited"
  /\ UNCHANGED <<pipelines, feeds, runtimeVars, control, todo, history>>

\* Mutant: _check_runtime does not look at the stop event again.
Checking_NoRecheck(c) == supervisor = "on" /\ c \in todo /\ todo' = todo \ {c}

(* _check_runtime(c) under the lock, past its first test.                  *)
Checking(c) ==
  /\ supervisor = "on" /\ c \in todo
  /\ todo' = todo \ {c}
  /\ ~stopEvent

CheckStopped(c) ==
  /\ supervisor = "on" /\ c \in todo /\ stopEvent
  /\ todo' = todo \ {c}
  /\ UNCHANGED <<pipelines, feeds, runtimeVars, control, supervisor, history>>

CheckAlive(c) ==
  /\ Checking(c) /\ pipelines[c] = "up"
  /\ backoff' = [backoff EXCEPT ![c] = BackoffBase]
  /\ scheduled' = scheduled \ {c} /\ due' = [due EXCEPT ![c] = 0]
  /\ streak' = [streak EXCEPT ![c] = 0]
  /\ UNCHANGED <<pipelines, feeds, control, supervisor, lost, downFor>>

Schedule(c) ==
  /\ Checking(c) /\ pipelines[c] # "up" /\ c \notin scheduled
  /\ scheduled' = scheduled \union {c} /\ due' = [due EXCEPT ![c] = backoff[c]]
  /\ downFor' = [downFor EXCEPT ![c] = 0]
  /\ UNCHANGED <<pipelines, feeds, backoff, control, supervisor, lost, streak>>

NotYetDue(c) ==
  /\ Checking(c) /\ pipelines[c] # "up" /\ c \in scheduled /\ due[c] > 0
  /\ UNCHANGED <<pipelines, feeds, runtimeVars, control, supervisor, history>>

IsDue(c) == Checking(c) /\ pipelines[c] # "up" /\ c \in scheduled /\ due[c] = 0

\* Mutant: the old pipeline is dropped from the dictionary but not stopped.
FeedsAfterTeardown_NotStopped(c) == feeds[c]

(* pop the old pipeline and stop() it: its capture thread may still run.   *)
FeedsAfterTeardown(c) ==
  IF pipelines[c] # "none" /\ feeds[c] > 0 THEN feeds[c] - 1 ELSE feeds[c]

Doubled(b) == LeastOf(2 * b, BackoffMax)

\* Mutant: restart_at survives the restart.
Restart_KeepsDue(c) ==
  /\ IsDue(c)
  /\ pipelines' = [pipelines EXCEPT ![c] = "up"]
  /\ feeds' = [feeds EXCEPT ![c] = FeedsAfterTeardown(c) + 1]
  /\ backoff' = [backoff EXCEPT ![c] = Doubled(@)]
  /\ streak' = [streak EXCEPT ![c] = LeastOf(@ + 1, BackoffMax)]
  /\ downFor' = [downFor EXCEPT ![c] = 0]
  /\ UNCHANGED <<scheduled, due, control, supervisor, lost>>

(* _restart_pipeline.                                                      *)
Restart(c) ==
  /\ IsDue(c)
  /\ pipelines' = [pipelines EXCEPT ![c] = "up"]
  /\ feeds' = [feeds EXCEPT ![c] = FeedsAfterTeardown(c) + 1]
  /\ scheduled' = scheduled \ {c}
  /\ backoff' = [backoff EXCEPT ![c] = Doubled(@)]
  /\ streak' = [streak EXCEPT ![c] = LeastOf(@ + 1, BackoffMax)]
  /\ downFor' = [downFor EXCEPT ![c] = 0]
  /\ UNCHANGED <<due, control, supervisor, lost>>

(* start() raises in there: the old pipeline is gone, and the exception    *)
(* leaves _supervise, so the supervisor ends.                              *)
RestartRaises(c) ==
  /\ StartRaises /\ IsDue(c)
  /\ pipelines' = [pipelines EXCEPT ![c] = "none"]
  /\ \E half \in SUBSET {c} :
       /\ lost' = lost \union half
       /\ feeds' = [feeds EXCEPT ![c] = FeedsAfterTeardown(c) + Cardinality(half)]
  /\ supervisor' = "exited"
  /\ UNCHANGED <<runtimeVars, control, downFor, streak>>

Check(c) ==
  \/ CheckStopped(c) \/ CheckAlive(c) \/ Schedule(c) \/ NotYetDue(c)
  \/ Restart(c) \/ RestartRaises(c)

Supervise == Poll \/ SupervisorExit \/ \E c \in Cameras : Check(c)

Next ==
  \/ Control \/ Supervise
  \/ \E c \in Cameras : WorkerDies(c) \/ CaptureDies(c)

Spec == Init /\ [][Next]_vars

(* The supervisor thread is scheduled and stop(), once called, goes on.    *)
(* Nobody has to call start() or stop(), and no thread has to die.         *)
Fairness ==
  /\ WF_vars(Supervise)
  /\ WF_vars(JoinSupervisor \/ StopPipelines)

FairSpec == Spec /\ Fairness

-----------------------------------------------------------------------------
TypeOK ==
  /\ pipelines \in [Cameras -> {"none", "up", "down"}]
  /\ feeds \in [Cameras -> Nat]
  /\ backoff \in [Cameras -> BackoffBase..BackoffMax]
  /\ scheduled \subseteq Cameras /\ due \in [Cameras -> 0..BackoffMax]
  /\ stopEvent \in BOOLEAN
  /\ supervisor \in {"off", "on", "exited"}
  /\ todo \subseteq Cameras
  /\ phase \in {"idle", "running", "failed", "joining", "joined", "stopped"}
  /\ lost \subseteq Cameras
  /\ downFor \in [Cameras -> 0..BackoffMax] /\ streak \in [Cameras -> 0..BackoffMax]

(* However often its pipeline crashes and is replaced, a camera is pulled  *)
(* by one capture thread: a restart never leaves the old one running.      *)
OneFeed == \A c \in Cameras : feeds[c] <= 1

(* Once stop() returned no pipeline runs, although the supervisor may have *)
(* been in the middle of a pass, or of a restart, when it was called.      *)
NothingAfterStop ==
  phase = "stopped" =>
    \A c \in Cameras : pipelines[c] = "none" /\ (feeds[c] = 0 \/ c \in lost)

(* The base, doubled n times.                                              *)
Doublings[n \in Nat] == IF n = 0 THEN BackoffBase ELSE 2 * Doublings[n - 1]

(* A camera that keeps crashing does not spin: each restart comes at least *)
(* the base doubled once per restart since it was last seen alive (or the  *)
(* cap) after the supervisor saw it dead.                                  *)
BacksOff ==
  [][\A c \in Cameras :
       Restart(c) => downFor[c] >= LeastOf(Doublings[streak[c]], BackoffMax)]_vars

(* A worker that died is replaced, unless the engine is stopped first or a *)
(* start() that raised took the supervisor with it.                        *)
Restarted ==
  \A c \in Cameras :
    (phase = "running" /\ pipelines[c] = "down")
      ~> (pipelines[c] = "up" \/ phase # "running" \/ supervisor = "exited")

(* stop() returns and leaves no supervisor behind.                         *)
StopReturns ==
  (phase = "joining") ~> (phase = "stopped" /\ supervisor = "exited")

(* "Stop the supervisor and every pipeline, blocking until all have        *)
(* stopped" (engine.py:161): a capture thread whose pipeline's start()     *)
(* raised is in nobody's dictionary.                                       *)
StopStopsEverything == phase = "stopped" => \A c \in Cameras : feeds[c] = 0
=============================================================================
