--------------------------- MODULE CameraPipeline ---------------------------
(***************************************************************************)
(* One CameraPipeline (app/engine/camera_pipeline.py): a capture thread    *)
(* (one of the three of app/ingestion/capture.py) fills a FrameQueue, a    *)
(* worker thread empties it and writes the camera's health record, and     *)
(* stop() ends both from a third thread.                                   *)
(*                                                                         *)
(* Time is kept as ages that saturate at the threshold they are compared   *)
(* with, so a behaviour may run for ever: an age at its threshold also     *)
(* stands for a timestamp that is still None, which the code treats alike. *)
(* The clock is the wall clock (utils/clock.py): it may be set back, which *)
(* makes ages shrink, below zero if the timestamp is now in the future.    *)
(***************************************************************************)
EXTENDS Integers, Sequences, FiniteSets

CONSTANTS
  Fifo, Latest,    \* a worker thread that calls get(), or get_latest()
  MaxSize,         \* processing.queue_maxsize
  MaxPackets,      \* bound of the model: frames the capture thread emits
  MinInterval,     \* 1 / target_fps
  Watchdog,        \* processing.watchdog_stale_seconds
  HealthInterval,  \* _HEALTH_INTERVAL_S
  MaxBackoff,      \* processing.reconnect_backoff_max_s, in units of the base
  Steps,           \* bound of the model: times the clock is set back
  ReadRaises,      \* whether cv2's read() may raise rather than return False
  StoreFails,      \* whether the health write may raise
  JoinsTimeOut     \* whether a thread may outlast stop()'s five seconds

ASSUME PipelineAssumption ==
  /\ Fifo # Latest /\ Steps \in Nat /\ MaxSize \in Nat \ {0} /\ MaxPackets \in Nat
  /\ MinInterval \in Nat /\ Watchdog \in Nat \ {0}
  /\ HealthInterval \in Nat \ {0} /\ MaxBackoff \in Nat \ {0}
  /\ {ReadRaises, StoreFails, JoinsTimeOut} \subseteq BOOLEAN

VARIABLES
  source,          \* the kind of capture thread the pipeline was built with
  buffer, dropped, blocked, waiters, expired,   \* the queue
  produced, got, cleared, last,                 \* and its history
  capture,         \* where the capture thread is
  handles,         \* source handles it holds (VideoCapture or HTTP client)
  backoff,         \* its reconnect backoff
  captureStop,     \* its stop event
  worker,          \* where the worker thread is
  stopEvent,       \* the pipeline's stop event
  frameAge,        \* since _last_frame_ts
  emitAge,         \* since _last_emit_ts, of an RTSP stream
  healthAge,       \* since _last_health_emit
  health,          \* what the state store says of the camera
  stopper,         \* where the thread inside stop() is
  steps            \* history: times the clock was set back

queueVars == <<buffer, dropped, blocked, waiters, expired,
               produced, got, cleared, last>>
captureVars == <<capture, handles, backoff>>
stopVars == <<captureStop, stopEvent, stopper>>
ages == <<frameAge, emitAge, healthAge, steps>>
vars == <<source, queueVars, captureVars, worker, stopVars, ages, health>>

Workers == {Fifo, Latest}

\* Mutant: the wrong role drains.
Drains_Tracked == {Fifo}

(* Only the snapshot path calls get_latest(); the tracked path is FIFO.    *)
Drains == {Latest}

\* Mutant: get() without a timeout.
Patience_Endless == {}

(* The worker always passes _QUEUE_GET_TIMEOUT_S.                          *)
Patience == Workers

Queue == INSTANCE FrameQueue WITH
  Consumers <- Workers, Drainers <- Drains, Timed <- Patience

(* The producers a pipeline can be built with: by role an RTSP stream or a *)
(* snapshot client, or a recorded clip through capture_factory.            *)
Sources == {"rtsp", "snapshot", "clip"}

Streams == source \in {"rtsp", "clip"}

(* The one worker of this pipeline.                                        *)
Worker == IF source = "snapshot" THEN Latest ELSE Fifo

(* A snapshot client opens its HTTP connection when the thread is built; a *)
(* stream is opened by its thread.                                         *)
FreshCapture ==
  /\ capture = "top" /\ backoff = 1 /\ captureStop = FALSE
  /\ handles = IF source = "snapshot" THEN 1 ELSE 0
  /\ frameAge = Watchdog /\ emitAge = MinInterval

FreshPipeline == stopEvent = FALSE /\ healthAge = HealthInterval /\ health = "unknown"

Init ==
  /\ source \in Sources
  /\ Queue!Init /\ FreshCapture /\ FreshPipeline
  /\ worker = "get" /\ stopper = "idle" /\ steps = 0

-----------------------------------------------------------------------------
(* The capture thread.                                                     *)

NextBackoff == IF 2 * backoff > MaxBackoff THEN MaxBackoff ELSE 2 * backoff

(* The loop sees the stop event; the finally clause lets the source go.    *)
CaptureExit ==
  /\ capture = "top" /\ captureStop
  /\ capture' = "exited" /\ handles' = 0
  /\ UNCHANGED <<source, queueVars, backoff, worker, stopVars, ages, health>>

(* _open_capture: a successful connect resets the backoff. A clip opens    *)
(* its file when it is first read.                                         *)
Open ==
  /\ Streams /\ capture = "top" /\ ~captureStop /\ handles = 0
  /\ \/ capture' = "reading" /\ handles' = 1 /\ backoff' = 1
     \/ source = "rtsp" /\ capture' = "sleeping" /\ UNCHANGED <<handles, backoff>>
  /\ UNCHANGED <<source, queueVars, worker, stopVars, ages, health>>

BeginRead ==
  /\ capture = "top" /\ ~captureStop /\ handles > 0
  /\ capture' = "reading"
  /\ UNCHANGED <<source, queueVars, handles, backoff, worker, stopVars, ages, health>>

(* A read that ends with a frame stamps it; the frame is about to be put.  *)
Stamped ==
  /\ capture = "reading" /\ frameAge' = 0
  /\ UNCHANGED <<source, queueVars, handles, backoff, worker, stopVars, healthAge,
                 steps, health>>

Keep == produced < MaxPackets /\ capture' = "putting"

(* RTSP keeps a frame only if the last one kept is old enough.             *)
TooSoon == emitAge < MinInterval

RtspFrame ==
  /\ source = "rtsp" /\ Stamped
  /\ \/ TooSoon /\ capture' = "top" /\ UNCHANGED emitAge
     \/ ~TooSoon /\ Keep /\ emitAge' = 0

SnapshotImage == source = "snapshot" /\ Stamped /\ Keep /\ UNCHANGED emitAge

ClipFrame == source = "clip" /\ Stamped /\ Keep /\ UNCHANGED emitAge

\* Mutant: a failed read keeps the handle and opens another one.
ReadFailed_NoRelease ==
  /\ source # "clip"
  /\ capture = "reading" /\ capture' = "sleeping"
  /\ handles' = IF source = "rtsp" THEN handles + 1 ELSE handles
  /\ UNCHANGED <<source, queueVars, backoff, worker, stopVars, ages, health>>

(* A failed read releases the stream and backs off; a failed fetch is a    *)
(* skipped tick, whether the provider returned None or raised.             *)
ReadFailed ==
  /\ source # "clip"
  /\ capture = "reading" /\ capture' = "sleeping"
  /\ handles' = IF source = "rtsp" THEN 0 ELSE handles
  /\ UNCHANGED <<source, queueVars, backoff, worker, stopVars, ages, health>>

(* A clip that cannot be opened, or is at its end, ends its thread.        *)
ClipEnds ==
  /\ source = "clip"
  /\ capture = "reading" \/ (capture = "top" /\ ~captureStop /\ handles = 0)
  /\ capture' = "exited" /\ handles' = 0
  /\ UNCHANGED <<source, queueVars, backoff, worker, stopVars, ages, health>>

(* read() raises: nothing in run() catches it, so the thread ends.         *)
ReadRaised ==
  /\ ReadRaises /\ Streams /\ capture = "reading"
  /\ capture' = "exited" /\ handles' = 0
  /\ UNCHANGED <<source, queueVars, backoff, worker, stopVars, ages, health>>

Emit ==
  /\ capture = "putting"
  /\ Queue!Put
  /\ capture' = IF Streams THEN "top" ELSE "sleeping"
  /\ UNCHANGED <<source, handles, backoff, worker, stopVars, ages, health>>

(* _sleep_backoff, or the wait between two pulls; stop() cuts both short.  *)
Slept ==
  /\ capture = "sleeping" /\ capture' = "top"
  /\ backoff' = IF source = "rtsp" THEN NextBackoff ELSE backoff
  /\ UNCHANGED <<source, queueVars, handles, worker, stopVars, ages, health>>

CaptureStep ==
  \/ CaptureExit \/ Open \/ BeginRead
  \/ RtspFrame \/ SnapshotImage \/ ClipFrame \/ ReadFailed
  \/ ClipEnds \/ ReadRaised \/ Emit \/ Slept

-----------------------------------------------------------------------------
(* The worker thread.                                                      *)

WorkerExit ==
  /\ worker = "get" /\ blocked = {} /\ stopEvent
  /\ worker' = "exited"
  /\ UNCHANGED <<source, queueVars, captureVars, stopVars, ages, health>>

(* The loop condition holds and the worker enters the queue.               *)
Fetch ==
  /\ worker = "get" /\ ~stopEvent
  /\ \/ Queue!CallAndTake(Worker) /\ worker' = "process"
     \/ Queue!CallAndWait(Worker) /\ UNCHANGED worker
  /\ UNCHANGED <<source, captureVars, stopVars, ages, health>>

GetTimesOut ==
  /\ Queue!Expire(Worker)
  /\ UNCHANGED <<source, captureVars, worker, stopVars, ages, health>>

\* Mutant: no heartbeat when there was no frame.
FetchReturns_NoHeartbeat ==
  /\ worker = "get"
  /\ \/ Queue!WakeAndTake(Worker) /\ worker' = "process"
     \/ Queue!WakeAndGiveUp(Worker) /\ UNCHANGED worker
     \/ Queue!WakeAndWait(Worker) /\ UNCHANGED worker
  /\ UNCHANGED <<source, captureVars, stopVars, ages, health>>

FetchReturns ==
  /\ worker = "get"
  /\ \/ Queue!WakeAndTake(Worker) /\ worker' = "process"
     \/ Queue!WakeAndGiveUp(Worker) /\ worker' = "heartbeat"
     \/ Queue!WakeAndWait(Worker) /\ UNCHANGED worker
  /\ UNCHANGED <<source, captureVars, stopVars, ages, health>>

(* _process_frame, whether it succeeds or raises: _run catches everything. *)
Process ==
  /\ worker = "process" /\ worker' = "heartbeat"
  /\ UNCHANGED <<source, queueVars, captureVars, stopVars, ages, health>>

(* A clip, whose age never grows, is healthy from its first frame on.      *)
IsHealthy == frameAge < Watchdog

(* _maybe_emit_health, outside the try: throttled, then published and      *)
(* written. A write that raises ends the worker.                           *)
Heartbeat ==
  /\ worker = "heartbeat"
  /\ \/ healthAge < HealthInterval /\ worker' = "get" /\ UNCHANGED <<health, healthAge>>
     \/ /\ healthAge = HealthInterval /\ worker' = "get" /\ healthAge' = 0
        /\ health' = IF IsHealthy THEN "healthy" ELSE "stale"
     \/ /\ healthAge = HealthInterval /\ StoreFails /\ worker' = "exited"
        /\ UNCHANGED <<health, healthAge>>
  /\ UNCHANGED <<source, queueVars, captureVars, stopVars, frameAge, emitAge, steps>>

WorkerStep == WorkerExit \/ Fetch \/ FetchReturns \/ Process \/ Heartbeat

-----------------------------------------------------------------------------
(* stop(): set the events, then join each thread for five seconds.         *)

StopPipeline ==
  /\ stopper = "idle" /\ stopper' = "signalled" /\ stopEvent' = TRUE
  /\ UNCHANGED <<source, queueVars, captureVars, captureStop, worker, ages, health>>

StopCapture ==
  /\ stopper = "signalled" /\ stopper' = "joining" /\ captureStop' = TRUE
  /\ UNCHANGED <<source, queueVars, captureVars, stopEvent, worker, ages, health>>

(* Both joins returned, because the threads ended or after five seconds    *)
(* each. Nothing else waits for the caller, so they are one step.          *)
Joined ==
  /\ stopper = "joining" /\ stopper' = "returned"
  /\ JoinsTimeOut \/ (capture = "exited" /\ worker = "exited")
  /\ UNCHANGED <<source, queueVars, captureVars, captureStop, stopEvent, worker, ages, health>>

StopStep == StopCapture \/ Joined

(* Time passes. A clip's stamps are synthetic: only whether it has one     *)
(* counts.                                                                 *)
Older(age, limit) == IF age < limit THEN age + 1 ELSE age

Tick ==
  /\ frameAge' = IF source = "clip" THEN frameAge ELSE Older(frameAge, Watchdog)
  /\ emitAge' = Older(emitAge, MinInterval)
  /\ healthAge' = Older(healthAge, HealthInterval)
  /\ UNCHANGED <<source, queueVars, captureVars, worker, stopVars, steps, health>>

(* The wall clock is set back (bound of the model: not while stop() runs,  *)
(* which reads no clock). An age at its limit may be no stamp at all, or   *)
(* one that is old enough even so.                                         *)
Younger(age, limit) == {age - 1} \union IF age = limit THEN {limit} ELSE {}

ClockSetBack ==
  /\ steps < Steps /\ source # "clip" /\ ~stopEvent
  /\ steps' = steps + 1
  /\ frameAge' \in Younger(frameAge, Watchdog)
  /\ emitAge' \in (IF source = "rtsp" THEN Younger(emitAge, MinInterval) ELSE {emitAge})
  /\ healthAge' \in Younger(healthAge, HealthInterval)
  /\ UNCHANGED <<source, queueVars, captureVars, worker, stopVars, health>>

Next ==
  \/ CaptureStep \/ WorkerStep \/ GetTimesOut
  \/ StopPipeline \/ StopStep \/ Tick \/ ClockSetBack

Spec == Init /\ [][Next]_vars

(* Threads that can run do, blocking reads end one way or another, timeouts *)
(* fire and time passes. Nobody has to call stop() or set the clock back,   *)
(* and no open or read has to succeed.                                      *)
Fairness ==
  /\ WF_vars(CaptureStep) /\ WF_vars(WorkerStep) /\ WF_vars(GetTimesOut)
  /\ WF_vars(StopStep) /\ WF_vars(Tick)

FairSpec == Spec /\ Fairness

-----------------------------------------------------------------------------
TypeOK ==
  /\ Queue!TypeOK
  /\ capture \in {"top", "reading", "putting", "sleeping", "exited"}
  /\ handles \in Nat /\ backoff \in 1..MaxBackoff
  /\ worker \in {"get", "process", "heartbeat", "exited"}
  /\ {captureStop, stopEvent} \subseteq BOOLEAN
  /\ stopper \in {"idle", "signalled", "joining", "returned"}
  /\ source \in Sources /\ steps \in 0..Steps
  /\ frameAge \in -Steps..Watchdog /\ emitAge \in -Steps..MinInterval
  /\ healthAge \in -Steps..HealthInterval
  /\ health \in {"unknown", "healthy", "stale"}

(* A camera that flaps for hours holds one connection at most and retries  *)
(* no more rarely than the cap says, and a capture thread that ended, even *)
(* by an exception, holds none.                                            *)
HandlesBounded ==
  /\ handles <= 1 /\ backoff <= MaxBackoff
  /\ capture = "exited" => handles = 0

(* The snapshot worker never lags: each frame it takes was the newest one  *)
(* captured by then, however long the frame before it took to process ("a  *)
(* queued backlog is pure latency", camera_pipeline.py:368).               *)
FreshEnough ==
  [][source = "snapshot" /\ got' > got => last' = produced]_vars

(* A camera that goes quiet, hangs or dies is reported, even one whose     *)
(* last stamp is in the future since the clock was set back: unless frames *)
(* keep arriving or the worker itself ended, the record ends up not        *)
(* healthy. A clip at its end is no fault.                                 *)
SilenceReported ==
  source # "clip" =>
    []<>(frameAge = 0) \/ <>[](worker = "exited" \/ health # "healthy")

(* stop() ends both threads, wherever they were: the capture thread asleep *)
(* in a backoff, the worker blocked on an empty queue or inside a frame.   *)
StopEnds == stopEvent ~> (capture = "exited" /\ worker = "exited")

(* The newest captured frame is processed, unless stop() or the worker's   *)
(* end comes first: no hand-off strands a frame.                           *)
NewestProcessed ==
  <>[](stopEvent \/ worker = "exited" \/ capture = "putting" \/ last = produced)
=============================================================================
