--------------------------- MODULE PipelineProofs ---------------------------
(***************************************************************************)
(* Proofs about one camera pipeline, for every queue size, interval and    *)
(* backoff, however often the stream fails, the clock is set back or a     *)
(* thread dies.                                                            *)
(***************************************************************************)
EXTENDS CameraPipeline, FiniteSetTheorems, TLAPS

-----------------------------------------------------------------------------
(* A capture thread and what it holds.                                     *)

CaptureInv ==
  /\ handles \in {0, 1} /\ backoff \in 1..MaxBackoff
  /\ capture = "exited" => handles = 0

LEMMA NextBackoffCapped ==
  ASSUME CaptureInv PROVE NextBackoff \in 1..MaxBackoff
BY PipelineAssumption DEF CaptureInv, NextBackoff

LEMMA CaptureStepSafe ==
  ASSUME CaptureInv, [Next]_vars PROVE CaptureInv'
<1> USE DEF CaptureInv
<1>1. CASE CaptureExit \/ ReadFailed \/ ClipEnds \/ ReadRaised
  BY <1>1 DEF CaptureExit, ReadFailed, ClipEnds, ReadRaised
<1>2. CASE Open
  BY <1>2, PipelineAssumption DEF Open
<1>3. CASE BeginRead \/ Emit
  BY <1>3 DEF BeginRead, Emit
<1>4. CASE RtspFrame \/ SnapshotImage \/ ClipFrame
  BY <1>4 DEF RtspFrame, SnapshotImage, ClipFrame, Stamped, Keep
<1>5. CASE Slept
  BY <1>5, NextBackoffCapped DEF Slept
<1>6. CASE UNCHANGED captureVars
  BY <1>6 DEF captureVars
<1>7. CASE WorkerStep
  BY <1>6, <1>7 DEF WorkerStep, WorkerExit, Fetch, FetchReturns, Process, Heartbeat
<1>8. CASE GetTimesOut \/ StopPipeline \/ StopStep \/ Tick \/ ClockSetBack \/ UNCHANGED vars
  BY <1>6, <1>8 DEF GetTimesOut, StopPipeline, StopStep, StopCapture, Joined, Tick,
                    ClockSetBack, vars
<1> QED
  BY <1>1, <1>2, <1>3, <1>4, <1>5, <1>7, <1>8 DEF Next, CaptureStep

(* A camera that flaps holds one connection at most and none once its      *)
(* capture thread ended, and its retries never get rarer than the cap.     *)
THEOREM HandlesBoundedEver == Spec => []HandlesBounded
<1>1. Init => CaptureInv
  BY PipelineAssumption DEF Init, FreshCapture, CaptureInv
<1>2. CaptureInv /\ [Next]_vars => CaptureInv'
  BY CaptureStepSafe
<1>3. CaptureInv => HandlesBounded
  BY PipelineAssumption DEF CaptureInv, HandlesBounded
<1> QED
  BY <1>1, <1>2, <1>3, PTL DEF Spec

-----------------------------------------------------------------------------
(* What the two threads do to their queue is what its own specification    *)
(* allows, so all that is proved of the queue holds inside a pipeline.     *)

LEMMA WorkerServed == Worker \in Workers
BY DEF Worker, Workers

(* A pipeline uses its queue as FrameQueue says: one producer that puts,   *)
(* and consumers that enter, wait, expire and leave.                       *)
THEOREM QueueUsedAsSpecified == Spec => Queue!Spec
<1>1. Init => Queue!Init
  BY DEF Init
<1>2. ASSUME [Next]_vars PROVE [Queue!Next]_(Queue!vars)
  <2>1. CASE UNCHANGED queueVars
    BY <2>1 DEF queueVars, Queue!vars
  <2>2. CASE Queue!Put \/ \E c \in Workers : Queue!Consume(c)
    BY <2>2 DEF Queue!Next
  <2>3. CASE CaptureStep
    BY <2>1, <2>2, <2>3 DEF CaptureStep, CaptureExit, Open, BeginRead, RtspFrame,
       SnapshotImage, ClipFrame, Stamped, ReadFailed, ClipEnds, ReadRaised, Emit, Slept
  <2>4. CASE Fetch \/ FetchReturns \/ GetTimesOut
    BY <2>2, <2>4, WorkerServed DEF Fetch, FetchReturns, GetTimesOut, Queue!Consume, Queue!Wake
  <2>5. CASE WorkerExit \/ Process \/ Heartbeat \/ StopPipeline \/ StopStep \/ Tick \/ ClockSetBack
    BY <2>1, <2>5 DEF WorkerExit, Process, Heartbeat, StopPipeline, StopStep, StopCapture,
       Joined, Tick, ClockSetBack
  <2>6. CASE UNCHANGED vars
    BY <2>1, <2>6 DEF vars, queueVars
  <2> QED
    BY <1>2, <2>3, <2>4, <2>5, <2>6 DEF Next, WorkerStep
<1> QED
  BY <1>1, <1>2, PTL DEF Spec, Queue!Spec

(* What is proved of the queue, about the queue of this pipeline.          *)
Proved == INSTANCE FrameQueueProofs WITH
  Consumers <- Workers, Drainers <- Drains, Timed <- Patience

LEMMA QueueConstants == Proved!QueueAssumption
<1>1. IsFiniteSet({}) /\ IsFiniteSet({} \union {Fifo}) /\ IsFiniteSet(({} \union {Fifo}) \union {Latest})
  BY FS_EmptySet, FS_AddElement
<1>2. IsFiniteSet(Workers)
  <2>1. Workers = ({} \union {Fifo}) \union {Latest}
    BY DEF Workers
  <2> QED
    BY <1>1, <2>1
<1>3. Proved!IsFiniteSet(Workers)
  BY <1>2 DEF IsFiniteSet, Proved!IsFiniteSet
<1>4. Drains \subseteq Workers /\ Patience \subseteq Workers
  BY DEF Drains, Workers, Patience
<1> QED
  BY <1>3, <1>4, PipelineAssumption DEF Proved!QueueAssumption

LEMMA SameQueue == Queue!Spec => Proved!Spec
<1>1. Queue!Init => Proved!Init
  BY DEF Queue!Init, Proved!Init
<1>2. Queue!Put => Proved!Put
  BY DEF Queue!Put, Proved!Put, Queue!Full, Proved!Full, Queue!Notify, Proved!Notify
<1>3. Queue!Clear => Proved!Clear
  BY DEF Queue!Clear, Proved!Clear
<1>4. ASSUME NEW c \in Workers PROVE Queue!Take(c) => Proved!Take(c)
  BY DEF Queue!Take, Proved!Take, Queue!TakeOldest, Proved!TakeOldest, Queue!TakeNewest,
         Proved!TakeNewest, Queue!Leave, Proved!Leave
<1>5. ASSUME NEW c \in Workers PROVE Queue!Consume(c) => Proved!Consume(c)
  <2>1. Queue!CallAndTake(c) => Proved!CallAndTake(c)
    BY <1>4 DEF Queue!CallAndTake, Proved!CallAndTake
  <2>2. Queue!CallAndWait(c) => Proved!CallAndWait(c)
    BY DEF Queue!CallAndWait, Proved!CallAndWait
  <2>3. Queue!Expire(c) => Proved!Expire(c)
    BY DEF Queue!Expire, Proved!Expire
  <2>4. Queue!Resumable(c) => Proved!Resumable(c)
    BY DEF Queue!Resumable, Proved!Resumable
  <2>5. Queue!Wake(c) => Proved!Wake(c)
    BY <1>4, <2>4 DEF Queue!Wake, Proved!Wake, Queue!WakeAndTake, Proved!WakeAndTake,
       Queue!WakeAndGiveUp, Proved!WakeAndGiveUp, Queue!WakeAndWait, Proved!WakeAndWait,
       Queue!Leave, Proved!Leave
  <2> QED
    BY <2>1, <2>2, <2>3, <2>5 DEF Queue!Consume, Proved!Consume
<1>6. [Queue!Next]_(Queue!vars) => [Proved!Next]_(Proved!vars)
  BY <1>2, <1>3, <1>5 DEF Queue!Next, Proved!Next, Queue!vars, Proved!vars
<1> QED
  BY <1>1, <1>6, PTL DEF Queue!Spec, Proved!Spec

(* Between any capture thread and its worker no frame is lost uncounted,   *)
(* frames only get newer, and no put() leaves the worker asleep beside a   *)
(* frame nobody comes for.                                                 *)
THEOREM FramesSafe == Spec => [](Queue!Accounted /\ Queue!Ordered /\ Queue!NoLostWakeup)
<1>1. Spec => Proved!Spec
  BY QueueUsedAsSpecified, SameQueue
<1>2. Spec => [](Proved!Accounted /\ Proved!Ordered /\ Proved!NoLostWakeup)
  BY <1>1, QueueConstants, Proved!PacketsSafe, Proved!NoWakeupLost, PTL
<1>3. (Proved!Accounted /\ Proved!Ordered /\ Proved!NoLostWakeup)
      => (Queue!Accounted /\ Queue!Ordered /\ Queue!NoLostWakeup)
  BY DEF Proved!Accounted, Queue!Accounted, Proved!Ordered, Queue!Ordered, Proved!Cardinality,
         Cardinality, Proved!NoLostWakeup, Queue!NoLostWakeup, Queue!Cardinality
<1> QED
  BY <1>2, <1>3, PTL

-----------------------------------------------------------------------------
(* The queue between the two threads ends with the newest frame.           *)

NewestLast ==
  /\ buffer \in Seq(Nat) /\ produced \in Nat /\ got \in Nat
  /\ buffer # <<>> => buffer[Len(buffer)] = produced

LEMMA AppendedLast ==
  ASSUME NEW s \in Seq(Nat), NEW e \in Nat
  PROVE  /\ Append(s, e) \in Seq(Nat)
         /\ Append(s, e)[Len(Append(s, e))] = e
OBVIOUS

LEMMA TailLast ==
  ASSUME NEW s \in Seq(Nat), s # <<>>
  PROVE  /\ Tail(s) \in Seq(Nat)
         /\ Tail(s) # <<>> => Tail(s)[Len(Tail(s))] = s[Len(s)]
<1>1. /\ Tail(s) \in Seq(Nat) /\ Len(Tail(s)) = Len(s) - 1 /\ Len(s) \in Nat
      /\ \A i \in 1..Len(Tail(s)) : Tail(s)[i] = s[i + 1]
  OBVIOUS
<1>2. ASSUME Tail(s) # <<>> PROVE Len(Tail(s)) \in 1..Len(Tail(s))
  BY <1>1, <1>2
<1> QED
  BY <1>1, <1>2

LEMMA QueueStep ==
  ASSUME NewestLast, [Next]_vars PROVE NewestLast'
<1> USE DEF NewestLast
<1>1. CASE Queue!Put
  <2>1. buffer # <<>> => Tail(buffer) \in Seq(Nat)
    BY TailLast
  <2>2. Queue!Full => buffer # <<>>
    BY PipelineAssumption DEF Queue!Full
  <2>3. (IF Queue!Full THEN Tail(buffer) ELSE buffer) \in Seq(Nat)
    BY <2>1, <2>2
  <2>4. produced' = produced + 1 /\ got' = got
        /\ buffer' = Append(IF Queue!Full THEN Tail(buffer) ELSE buffer, produced + 1)
    BY <1>1 DEF Queue!Put
  <2>5. produced + 1 \in Nat
    OBVIOUS
  <2>6. buffer' \in Seq(Nat) /\ buffer'[Len(buffer')] = produced + 1
    BY <2>3, <2>4, <2>5, AppendedLast
  <2> QED
    BY <2>4, <2>6
<1>2. ASSUME NEW c \in Workers, Queue!Take(c) PROVE NewestLast'
  <2>1. buffer # <<>> /\ got' = got + 1 /\ produced' = produced
    BY <1>2 DEF Queue!Take
  <2>2. CASE Queue!TakeOldest
    <3>1. buffer' = Tail(buffer)
      BY <2>2 DEF Queue!TakeOldest
    <3> QED
      BY <2>1, <3>1, TailLast
  <2>3. CASE Queue!TakeNewest
    BY <2>1, <2>3 DEF Queue!TakeNewest
  <2> QED
    BY <1>2, <2>2, <2>3 DEF Queue!Take
<1>3. CASE UNCHANGED <<buffer, produced, got>>
  BY <1>3
<1>4. CASE CaptureStep
  BY <1>1, <1>3, <1>4 DEF CaptureStep, CaptureExit, Open, BeginRead, RtspFrame, SnapshotImage,
     ClipFrame, Stamped, ReadFailed, ClipEnds, ReadRaised, Emit, Slept, queueVars
<1>6. CASE Fetch \/ FetchReturns
  BY <1>2, <1>3, <1>6, WorkerServed DEF Fetch, FetchReturns, Queue!CallAndTake, Queue!CallAndWait,
     Queue!WakeAndTake, Queue!WakeAndGiveUp, Queue!WakeAndWait
<1>7. CASE WorkerExit \/ Process \/ Heartbeat \/ GetTimesOut
  BY <1>3, <1>7 DEF WorkerExit, Process, Heartbeat, GetTimesOut, Queue!Expire, queueVars
<1>8. CASE StopPipeline \/ StopStep \/ Tick \/ ClockSetBack \/ UNCHANGED vars
  BY <1>3, <1>8 DEF StopPipeline, StopStep, StopCapture, Joined, Tick, ClockSetBack, vars,
     queueVars
<1> QED
  BY <1>4, <1>6, <1>7, <1>8 DEF Next, WorkerStep

(* The frame the snapshot worker takes is the newest one captured by then. *)
LEMMA SnapshotTakesNewest ==
  ASSUME NewestLast, [Next]_vars, source = "snapshot", got' > got
  PROVE  last' = produced
<1>1. Worker = Latest /\ Worker \in Drains
  BY DEF Worker, Drains
<1>2. ASSUME Queue!Take(Worker) PROVE last' = produced
  BY <1>1, <1>2 DEF Queue!Take, Queue!TakeNewest, NewestLast
<1>3. ASSUME got' = got PROVE FALSE
  BY <1>3 DEF NewestLast
<1>4. CASE CaptureStep
  BY <1>3, <1>4 DEF CaptureStep, CaptureExit, Open, BeginRead, RtspFrame, SnapshotImage,
     ClipFrame, Stamped, ReadFailed, ClipEnds, ReadRaised, Emit, Slept, queueVars, Queue!Put
<1>5. CASE Fetch \/ FetchReturns
  BY <1>2, <1>3, <1>5 DEF Fetch, FetchReturns, Queue!CallAndTake, Queue!CallAndWait,
     Queue!WakeAndTake, Queue!WakeAndGiveUp, Queue!WakeAndWait
<1>6. CASE WorkerExit \/ Process \/ Heartbeat \/ GetTimesOut
  BY <1>3, <1>6 DEF WorkerExit, Process, Heartbeat, GetTimesOut, Queue!Expire, queueVars
<1>7. CASE StopPipeline \/ StopStep \/ Tick \/ ClockSetBack \/ UNCHANGED vars
  BY <1>3, <1>7 DEF StopPipeline, StopStep, StopCapture, Joined, Tick, ClockSetBack, vars,
     queueVars
<1> QED
  BY <1>4, <1>5, <1>6, <1>7 DEF Next, WorkerStep

(* Whatever the queue's size and however long a frame takes, a snapshot    *)
(* camera's worker never processes a frame while a newer one waits.        *)
THEOREM FreshEnoughEver == Spec => FreshEnough
<1>1. Init => NewestLast
  BY DEF Init, Queue!Init, NewestLast
<1>2. NewestLast /\ [Next]_vars => NewestLast'
  BY QueueStep
<1>3. NewestLast /\ [Next]_vars => [source = "snapshot" /\ got' > got => last' = produced]_vars
  BY SnapshotTakesNewest
<1> QED
  BY <1>1, <1>2, <1>3, PTL DEF Spec, FreshEnough
=============================================================================
