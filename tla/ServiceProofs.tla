--------------------------- MODULE ServiceProofs ---------------------------
(***************************************************************************)
(* Proofs about what the threads of a process share (see MCServices), and  *)
(* about the manager that its HTTP threads call, for every set of cameras, *)
(* callers, processes, listeners, people and looks.                        *)
(***************************************************************************)
EXTENDS EngineManager, EngineSupervisor, RedisBus, SharedGallery, FiniteSetTheorems, TLAPS

-----------------------------------------------------------------------------
(* The engine: one capture thread per camera, and nothing left running by  *)
(* stop(). Both rest on who may touch the dictionary of pipelines when,    *)
(* which Phases and Owned spell out.                                       *)

(* A capture thread that nobody can stop any more is one that was lost.    *)
Owned == \A c \in Cameras : pipelines[c] = "none" => feeds[c] = 0 \/ c \in lost

(* The supervisor runs only between start() and its own end, and until     *)
(* stop() is called it has a pipeline, dead or alive, for every camera.    *)
Phases ==
  /\ stopEvent <=> phase \in {"joining", "joined", "stopped"}
  /\ phase \in {"idle", "failed"} => supervisor = "off"
  /\ supervisor = "on" /\ ~stopEvent => \A c \in Cameras : pipelines[c] # "none"

SafeInv == OneFeed /\ NothingAfterStop /\ Owned /\ Phases

(* LeastOf stays in the range of its arguments.                            *)
LEMMA LeastInRange ==
  ASSUME NEW m \in Nat, NEW a \in Nat, NEW b \in 0..m
  PROVE  LeastOf(a, b) \in 0..m /\ LeastOf(a, b) <= b
BY DEF LeastOf

(* Doubling keeps a backoff within its bounds.                             *)
LEMMA DoubledInRange ==
  ASSUME NEW b \in BackoffBase..BackoffMax
  PROVE  Doubled(b) \in BackoffBase..BackoffMax
BY SupervisorAssumption DEF Doubled, LeastOf

(* At most one capture thread is lost by one start() that raises.          *)
LEMMA SingletonOrEmpty ==
  ASSUME NEW c, NEW half \in SUBSET {c}
  PROVE  (half = {} /\ Cardinality(half) = 0) \/ (half = {c} /\ Cardinality(half) = 1)
BY FS_EmptySet, FS_Singleton

(* Every step of the engine keeps its variables in their types.            *)
LEMMA TypeStep == TypeOK /\ [Next]_vars => TypeOK'
<1> SUFFICES ASSUME TypeOK, [Next]_vars PROVE TypeOK'
  OBVIOUS
<1> USE SupervisorAssumption DEF TypeOK
<1>1. CASE StartEngine
  BY <1>1 DEF StartEngine, runtimeVars, history
<1>2. ASSUME NEW c \in Cameras, StartEngineRaises(c) PROVE TypeOK'
  BY <1>2 DEF StartEngineRaises, runtimeVars
<1>3. CASE SignalStop \/ JoinSupervisor
  BY <1>3 DEF SignalStop, JoinSupervisor, runtimeVars, history
<1>4. CASE StopPipelines
  <2>1. feeds' \in [Cameras -> Nat]
    BY <1>4 DEF StopPipelines
  <2> QED BY <2>1, <1>4 DEF StopPipelines, runtimeVars, history
<1>5. ASSUME NEW c \in Cameras, WorkerDies(c) \/ CaptureDies(c) PROVE TypeOK'
  BY <1>5 DEF WorkerDies, CaptureDies, runtimeVars, control, history
<1>6. CASE Poll
  <2>1. PICK elapsed \in 1..MaxPass :
          /\ due' = [c \in Cameras |-> IF due[c] > elapsed THEN due[c] - elapsed ELSE 0]
          /\ downFor' = [c \in Cameras |->
               IF c \in scheduled THEN LeastOf(downFor[c] + elapsed, BackoffMax) ELSE 0]
    BY <1>6 DEF Poll
  <2>2. due' \in [Cameras -> 0..BackoffMax]
    BY <2>1
  <2>3. downFor' \in [Cameras -> 0..BackoffMax]
    BY <2>1 DEF LeastOf
  <2> QED BY <1>6, <2>2, <2>3 DEF Poll, control
<1>7. CASE SupervisorExit
  BY <1>7 DEF SupervisorExit, runtimeVars, control, history
<1>8. ASSUME NEW c \in Cameras, Check(c) PROVE TypeOK'
  <2>1. CASE CheckStopped(c) \/ NotYetDue(c)
    BY <2>1 DEF CheckStopped, NotYetDue, Checking, runtimeVars, control, history
  <2>2. CASE CheckAlive(c)
    BY <2>2 DEF CheckAlive, Checking, control
  <2>3. CASE Schedule(c)
    BY <2>3 DEF Schedule, Checking, control
  <2>4. CASE Restart(c)
    <3>1. /\ feeds' = [feeds EXCEPT ![c] = FeedsAfterTeardown(c) + 1]
          /\ FeedsAfterTeardown(c) \in Nat
      BY <2>4 DEF Restart, FeedsAfterTeardown
    <3>2. backoff' \in [Cameras -> BackoffBase..BackoffMax]
      BY <2>4, DoubledInRange DEF Restart
    <3>3. streak' \in [Cameras -> 0..BackoffMax]
      BY <2>4 DEF Restart, LeastOf
    <3> QED BY <2>4, <3>1, <3>2, <3>3 DEF Restart, IsDue, Checking, control
  <2>5. CASE RestartRaises(c)
    <3>1. PICK half \in SUBSET {c} :
            /\ lost' = lost \union half
            /\ feeds' = [feeds EXCEPT ![c] = FeedsAfterTeardown(c) + Cardinality(half)]
      BY <2>5 DEF RestartRaises
    <3>2. Cardinality(half) \in Nat
      <4>1. Cardinality(half) = 0 \/ Cardinality(half) = 1
        BY SingletonOrEmpty, Zenon
      <4> QED BY <4>1
    <3>3. FeedsAfterTeardown(c) \in Nat
      BY DEF FeedsAfterTeardown
    <3> QED BY <2>5, <3>1, <3>2, <3>3 DEF RestartRaises, IsDue, Checking, runtimeVars, control
  <2> QED BY <1>8, <2>1, <2>2, <2>3, <2>4, <2>5 DEF Check
<1>9. CASE UNCHANGED vars
  BY <1>9 DEF vars, runtimeVars, control, history
<1> QED
  BY <1>1, <1>2, <1>3, <1>4, <1>5, <1>6, <1>7, <1>8, <1>9 DEF Next, Control, Supervise

(* Nobody restarts a pipeline after stop() signalled, and a restart stops  *)
(* the old pipeline before it starts the new one.                          *)
LEMMA SafeStep == TypeOK /\ SafeInv /\ [Next]_vars => SafeInv'
<1> SUFFICES ASSUME TypeOK, SafeInv, [Next]_vars PROVE SafeInv'
  OBVIOUS
<1> USE DEF TypeOK, SafeInv, OneFeed, NothingAfterStop, Owned, Phases
<1>1. CASE StartEngine
  BY <1>1 DEF StartEngine, history
<1>2. ASSUME NEW c \in Cameras, StartEngineRaises(c) PROVE SafeInv'
  BY <1>2 DEF StartEngineRaises
<1>3. CASE SignalStop \/ JoinSupervisor
  BY <1>3 DEF SignalStop, JoinSupervisor, history
<1>4. CASE StopPipelines
  BY <1>4 DEF StopPipelines, history
<1>5. ASSUME NEW c \in Cameras, WorkerDies(c) \/ CaptureDies(c) PROVE SafeInv'
  BY <1>5 DEF WorkerDies, CaptureDies, control, history
<1>6. CASE Poll \/ SupervisorExit
  BY <1>6 DEF Poll, SupervisorExit, control, history
<1>7. ASSUME NEW c \in Cameras, Check(c) PROVE SafeInv'
  <2>1. CASE CheckStopped(c) \/ CheckAlive(c) \/ Schedule(c) \/ NotYetDue(c)
    BY <2>1 DEF CheckStopped, CheckAlive, Schedule, NotYetDue, Checking, control, history
  <2>2. CASE Restart(c)
    <3>1. FeedsAfterTeardown(c) = 0
      BY <2>2 DEF Restart, IsDue, Checking, FeedsAfterTeardown
    <3> QED BY <2>2, <3>1 DEF Restart, IsDue, Checking, control
  <2>3. CASE RestartRaises(c)
    <3>1. FeedsAfterTeardown(c) = 0
      BY <2>3 DEF RestartRaises, IsDue, Checking, FeedsAfterTeardown
    <3>2. PICK half \in SUBSET {c} :
            /\ lost' = lost \union half
            /\ feeds' = [feeds EXCEPT ![c] = FeedsAfterTeardown(c) + Cardinality(half)]
      BY <2>3 DEF RestartRaises
    <3>3. \/ half = {} /\ feeds' = [feeds EXCEPT ![c] = 0]
          \/ half = {c} /\ feeds' = [feeds EXCEPT ![c] = 1]
      <4>1. (half = {} /\ Cardinality(half) = 0) \/ (half = {c} /\ Cardinality(half) = 1)
        BY SingletonOrEmpty, Zenon
      <4>2. feeds' = [feeds EXCEPT ![c] = 0 + Cardinality(half)]
        BY <3>1, <3>2
      <4>3. 0 + 0 = 0 /\ 0 + 1 = 1
        OBVIOUS
      <4> QED BY <4>1, <4>2, <4>3, Zenon
    <3> QED BY <2>3, <3>2, <3>3 DEF RestartRaises, IsDue, Checking, control
  <2> QED BY <1>7, <2>1, <2>2, <2>3 DEF Check
<1>8. CASE UNCHANGED vars
  BY <1>8 DEF vars, control, history
<1> QED
  BY <1>1, <1>2, <1>3, <1>4, <1>5, <1>6, <1>7, <1>8 DEF Next, Control, Supervise

-----------------------------------------------------------------------------
(* The variables of the engine keep their types, and every backoff stays   *)
(* between its base and its cap.                                           *)
THEOREM SupervisorTypes == Spec => []TypeOK
<1>1. Init => TypeOK
  <2> SUFFICES ASSUME Init PROVE TypeOK
    OBVIOUS
  <2>1. BackoffBase \in BackoffBase..BackoffMax /\ 0 \in 0..BackoffMax
    BY SupervisorAssumption
  <2> QED BY <2>1 DEF Init, TypeOK
<1> QED
  BY <1>1, TypeStep, PTL DEF Spec

(* What both safety properties rest on.                                    *)
LEMMA EngineSafe == Spec => []SafeInv
<1>1. Init => SafeInv
  BY DEF Init, SafeInv, OneFeed, NothingAfterStop, Owned, Phases
<1> QED
  BY <1>1, SafeStep, SupervisorTypes, PTL DEF Spec

(* However many pipelines crash, are replaced or raise as they start, one  *)
(* capture thread pulls each camera.                                       *)
THEOREM OneFeedEver == Spec => []OneFeed
<1>1. SafeInv => OneFeed
  BY DEF SafeInv
<1> QED
  BY <1>1, EngineSafe, PTL

(* Wherever stop() finds the supervisor, nothing runs once it returned but *)
(* what a start() that raised has lost.                                    *)
THEOREM NothingAfterStopEver == Spec => []NothingAfterStop
<1>1. SafeInv => NothingAfterStop
  BY DEF SafeInv
<1> QED
  BY <1>1, EngineSafe, PTL

-----------------------------------------------------------------------------
(* The backoff: the delay that a camera owes doubles with every restart.   *)
(* The doublings are a function on the naturals, whose recursive equation  *)
(* has a solution because every stretch 0..n of it has exactly one.        *)

LEMMA Naturals ==
  ASSUME NEW S, 0 \in S, \A n \in Nat : n \in S => n + 1 \in S
  PROVE  Nat \subseteq S
<1> SUFFICES ASSUME Nat \ S # {} PROVE FALSE
  OBVIOUS
<1> DEFINE T == Nat \ S
<1>1. \E R : IsWellFoundedOn(R, Nat) /\ R = {ss \in Nat \X Nat : ss[1] < ss[2]}
  BY NatLessThanWellFounded DEF OpToRel
<1>2. PICK R : IsWellFoundedOn(R, Nat) /\ R = {ss \in Nat \X Nat : ss[1] < ss[2]}
  BY <1>1
<1>3. PICK n \in T : \A k \in T : <<k, n>> \notin R
  BY <1>2, WFMin
<1>4. n # 0 /\ n - 1 \in Nat /\ (n - 1) + 1 = n
  OBVIOUS
<1>5. n - 1 \in T
  BY <1>4
<1>6. <<n - 1, n>> \in R
  BY <1>2, <1>4
<1> QED
  BY <1>3, <1>5, <1>6

(* f doubles from the base on, as far as n.                                *)
DoublesTo(n, f) ==
  /\ f \in [0..n -> Nat] /\ f[0] = BackoffBase
  /\ \A i \in 0..n : i + 1 <= n => f[i + 1] = 2 * f[i]

LEMMA DoublesSomehow == \A n \in Nat : \E f : DoublesTo(n, f)
<1> DEFINE S == {n \in Nat : \E f : DoublesTo(n, f)}
<1>1. 0 \in S
  <2>1. DoublesTo(0, [i \in 0..0 |-> BackoffBase])
    BY SupervisorAssumption DEF DoublesTo
  <2> QED
    BY <2>1
<1>2. ASSUME NEW n \in Nat, n \in S PROVE n + 1 \in S
  <2>1. PICK f : DoublesTo(n, f)
    BY <1>2
  <2> DEFINE g == [i \in 0..(n + 1) |-> IF i = n + 1 THEN 2 * f[n] ELSE f[i]]
  <2>2. /\ f \in [0..n -> Nat] /\ f[0] = BackoffBase
        /\ \A i \in 0..n : i + 1 <= n => f[i + 1] = 2 * f[i]
    BY <2>1 DEF DoublesTo
  <2>3. \A i \in 0..n : g[i] = f[i]
    OBVIOUS
  <2>4. g[n + 1] = 2 * f[n]
    OBVIOUS
  <2>5. g \in [0..(n + 1) -> Nat]
    BY <2>2
  <2> HIDE DEF g
  <2>6. g[0] = BackoffBase
    BY <2>2, <2>3
  <2>7. ASSUME NEW i \in 0..(n + 1), i + 1 <= n + 1 PROVE g[i + 1] = 2 * g[i]
    <3>1. i \in 0..n
      BY <2>7
    <3>2. CASE i = n
      BY <2>3, <2>4, <3>1, <3>2
    <3>3. CASE i # n
      <4>1. i + 1 <= n /\ i + 1 \in 0..n
        BY <3>1, <3>3
      <4> QED
        BY <2>2, <2>3, <3>1, <4>1
    <3> QED
      BY <3>2, <3>3
  <2>8. DoublesTo(n + 1, g)
    BY <2>5, <2>6, <2>7 DEF DoublesTo
  <2> QED
    BY <2>8
<1> HIDE DEF S
<1>3. Nat \subseteq S
  BY <1>1, <1>2, Naturals
<1> QED
  BY <1>3 DEF S

LEMMA DoublesOneWay ==
  ASSUME NEW n \in Nat, NEW m \in Nat, NEW f, NEW g, DoublesTo(n, f), DoublesTo(m, g)
  PROVE  \A i \in Nat : i <= n /\ i <= m => f[i] = g[i]
<1> DEFINE S == {i \in Nat : i <= n /\ i <= m => f[i] = g[i]}
<1>1. 0 \in S
  BY DEF DoublesTo
<1>2. ASSUME NEW i \in Nat, i \in S PROVE i + 1 \in S
  <2>1. ASSUME i + 1 <= n, i + 1 <= m PROVE f[i + 1] = g[i + 1]
    <3>1. i \in 0..n /\ i \in 0..m /\ i <= n /\ i <= m
      BY <2>1
    <3>2. f[i + 1] = 2 * f[i] /\ g[i + 1] = 2 * g[i]
      BY <2>1, <3>1 DEF DoublesTo
    <3>3. f[i] = g[i]
      BY <1>2, <3>1
    <3> QED
      BY <3>2, <3>3
  <2> QED
    BY <2>1
<1> HIDE DEF S
<1>3. Nat \subseteq S
  BY <1>1, <1>2, Naturals
<1> QED
  BY <1>3 DEF S

IsDoublings(f) == f = [n \in Nat |-> IF n = 0 THEN BackoffBase ELSE 2 * f[n - 1]]

LEMMA DoublingsAre ==
  /\ Doublings[0] = BackoffBase
  /\ \A n \in Nat : Doublings[n] \in Nat /\ Doublings[n + 1] = 2 * Doublings[n]
<1> DEFINE upTo(n) == CHOOSE f : DoublesTo(n, f)
           h == [n \in Nat |-> upTo(n)[n]]
<1>1. \A n \in Nat : DoublesTo(n, upTo(n))
  BY DoublesSomehow
<1> HIDE DEF upTo
<1>2. h[0] = BackoffBase
  BY <1>1 DEF DoublesTo
<1>3. ASSUME NEW n \in Nat PROVE h[n] \in Nat /\ h[n + 1] = 2 * h[n]
  <2>1. DoublesTo(n, upTo(n)) /\ DoublesTo(n + 1, upTo(n + 1))
    BY <1>1
  <2>2. upTo(n + 1)[n + 1] = 2 * upTo(n + 1)[n] /\ upTo(n)[n] \in Nat
    BY <2>1 DEF DoublesTo
  <2>3. upTo(n + 1)[n] = upTo(n)[n]
    BY <2>1, DoublesOneWay
  <2> QED
    BY <2>2, <2>3
<1>4. h = [n \in Nat |-> h[n]]
  OBVIOUS
<1> HIDE DEF h
<1>5. \A n \in Nat : h[n] = IF n = 0 THEN BackoffBase ELSE 2 * h[n - 1]
  <2>1. ASSUME NEW n \in Nat, n # 0 PROVE h[n] = 2 * h[n - 1]
    <3>1. n - 1 \in Nat /\ (n - 1) + 1 = n
      BY <2>1
    <3> QED
      BY <1>3, <3>1
  <2> QED
    BY <1>2, <2>1
<1>6. IsDoublings(h)
  BY <1>4, <1>5 DEF IsDoublings
<1>7. Doublings = CHOOSE f : IsDoublings(f)
  BY DEF Doublings, IsDoublings
<1>8. IsDoublings(Doublings)
  BY <1>6, <1>7
<1>9. \A n \in Nat : Doublings[n] = IF n = 0 THEN BackoffBase ELSE 2 * Doublings[n - 1]
  BY <1>8 DEF IsDoublings
<1>10. Doublings[0] = BackoffBase
  BY <1>9
<1> HIDE DEF IsDoublings
<1>11. \A n \in Nat : Doublings[n + 1] = 2 * Doublings[n]
  <2>1. ASSUME NEW n \in Nat PROVE Doublings[n + 1] = 2 * Doublings[n]
    <3>1. n + 1 \in Nat /\ n + 1 # 0 /\ (n + 1) - 1 = n
      OBVIOUS
    <3> QED
      BY <1>9, <3>1
  <2> QED
    BY <2>1
<1> DEFINE S == {n \in Nat : Doublings[n] \in Nat}
<1>12. 0 \in S /\ \A n \in Nat : n \in S => n + 1 \in S
  BY <1>10, <1>11, SupervisorAssumption
<1>13. Nat \subseteq S
  <2> HIDE DEF S
  <2> QED
    BY <1>12, Naturals
<1> QED
  BY <1>10, <1>11, <1>13

(* What a camera owes: a backoff that has doubled with each restart of the *)
(* streak, and, once its death was seen, a wait that is over or still due. *)
OwesDelay ==
  \A c \in Cameras :
    /\ backoff[c] >= LeastOf(Doublings[streak[c]], BackoffMax)
    /\ c \in scheduled => downFor[c] + due[c] >= backoff[c]

LEMMA DelayTypes ==
  ASSUME TypeOK
  PROVE  /\ BackoffBase \in Nat /\ BackoffMax \in Nat /\ BackoffBase <= BackoffMax
         /\ DOMAIN backoff = Cameras /\ DOMAIN due = Cameras
         /\ DOMAIN downFor = Cameras /\ DOMAIN streak = Cameras
         /\ \A c \in Cameras :
              /\ backoff[c] \in Nat /\ backoff[c] <= BackoffMax
              /\ due[c] \in Nat /\ downFor[c] \in Nat
              /\ streak[c] \in Nat /\ streak[c] <= BackoffMax
              /\ Doublings[streak[c]] \in Nat
              /\ Doublings[streak[c] + 1] = 2 * Doublings[streak[c]]
<1>1. \A c \in Cameras : /\ backoff[c] \in BackoffBase..BackoffMax
                         /\ due[c] \in 0..BackoffMax /\ downFor[c] \in 0..BackoffMax
                         /\ streak[c] \in 0..BackoffMax
  BY DEF TypeOK
<1>2. \A c \in Cameras : /\ backoff[c] \in Nat /\ backoff[c] <= BackoffMax
                         /\ due[c] \in Nat /\ downFor[c] \in Nat
                         /\ streak[c] \in Nat /\ streak[c] <= BackoffMax
  BY <1>1, SupervisorAssumption
<1>3. /\ DOMAIN backoff = Cameras /\ DOMAIN due = Cameras
      /\ DOMAIN downFor = Cameras /\ DOMAIN streak = Cameras
  BY DEF TypeOK
<1> QED
  BY <1>2, <1>3, DoublingsAre, SupervisorAssumption

(* A restart doubles what it owed, up to the cap.                          *)
LEMMA DelayDoubles ==
  ASSUME TypeOK, NEW c \in Cameras, backoff[c] >= LeastOf(Doublings[streak[c]], BackoffMax)
  PROVE  Doubled(backoff[c]) >= LeastOf(Doublings[LeastOf(streak[c] + 1, BackoffMax)], BackoffMax)
<1>1. /\ backoff[c] \in Nat /\ backoff[c] <= BackoffMax /\ BackoffMax \in Nat
      /\ streak[c] \in Nat /\ streak[c] <= BackoffMax
      /\ Doublings[streak[c]] \in Nat
      /\ Doublings[streak[c] + 1] = 2 * Doublings[streak[c]]
  BY DelayTypes
<1> DEFINE once == Doublings[streak[c]]
<1>2. CASE streak[c] + 1 < BackoffMax
  <2>1. LeastOf(streak[c] + 1, BackoffMax) = streak[c] + 1
    BY <1>2 DEF LeastOf
  <2> QED
    BY <1>1, <2>1 DEF LeastOf, Doubled
<1>3. CASE ~(streak[c] + 1 < BackoffMax)
  <2>1. LeastOf(streak[c] + 1, BackoffMax) = BackoffMax
    BY <1>3 DEF LeastOf
  <2>2. CASE streak[c] = BackoffMax
    BY <1>1, <2>1, <2>2 DEF LeastOf, Doubled
  <2>3. CASE streak[c] + 1 = BackoffMax
    <3>1. Doublings[BackoffMax] = 2 * Doublings[streak[c]]
      BY <1>1, <2>3
    <3> QED
      BY <1>1, <2>1, <3>1 DEF LeastOf, Doubled
  <2> QED
    BY <1>1, <1>3, <2>2, <2>3
<1> QED
  BY <1>2, <1>3

LEMMA DelayStep == TypeOK /\ OwesDelay /\ [Next]_vars => OwesDelay'
<1> SUFFICES ASSUME TypeOK, OwesDelay, [Next]_vars, NEW d \in Cameras
             PROVE  /\ backoff'[d] >= LeastOf(Doublings[streak'[d]], BackoffMax)
                    /\ d \in scheduled' => downFor'[d] + due'[d] >= backoff'[d]
  BY DEF OwesDelay
<1>1. /\ backoff[d] >= LeastOf(Doublings[streak[d]], BackoffMax)
      /\ d \in scheduled => downFor[d] + due[d] >= backoff[d]
  BY DEF OwesDelay
<1>2. /\ BackoffBase \in Nat /\ BackoffMax \in Nat
      /\ backoff[d] \in Nat /\ backoff[d] <= BackoffMax
      /\ due[d] \in Nat /\ downFor[d] \in Nat
      /\ DOMAIN backoff = Cameras /\ DOMAIN due = Cameras
      /\ DOMAIN downFor = Cameras /\ DOMAIN streak = Cameras
  BY DelayTypes
<1>3. CASE UNCHANGED <<backoff, scheduled, due, downFor, streak>>
  BY <1>1, <1>3
<1>4. CASE Poll
  <2>1. PICK elapsed \in 1..MaxPass :
          /\ due' = [c \in Cameras |-> IF due[c] > elapsed THEN due[c] - elapsed ELSE 0]
          /\ downFor' = [c \in Cameras |->
               IF c \in scheduled THEN LeastOf(downFor[c] + elapsed, BackoffMax) ELSE 0]
    BY <1>4 DEF Poll
  <2>2. elapsed \in Nat /\ UNCHANGED <<backoff, scheduled, streak>>
    BY <1>4 DEF Poll
  <2>3. /\ due'[d] = IF due[d] > elapsed THEN due[d] - elapsed ELSE 0
        /\ d \in scheduled => downFor'[d] = LeastOf(downFor[d] + elapsed, BackoffMax)
    BY <2>1
  <2>4. due'[d] \in Nat /\ due'[d] >= due[d] - elapsed
    BY <1>2, <2>2, <2>3
  <2>5. ASSUME d \in scheduled PROVE downFor'[d] + due'[d] >= backoff[d]
    <3>1. CASE downFor[d] + elapsed < BackoffMax
      <4>1. downFor'[d] = downFor[d] + elapsed
        BY <2>3, <2>5, <3>1 DEF LeastOf
      <4> QED
        BY <1>1, <1>2, <2>2, <2>4, <2>5, <4>1
    <3>2. CASE ~(downFor[d] + elapsed < BackoffMax)
      <4>1. downFor'[d] = BackoffMax
        BY <2>3, <2>5, <3>2 DEF LeastOf
      <4> QED
        BY <1>2, <2>4, <4>1
    <3> QED
      BY <3>1, <3>2
  <2> QED
    BY <1>1, <2>2, <2>5
<1>5. ASSUME NEW c \in Cameras, CheckAlive(c)
      PROVE  /\ backoff'[d] >= LeastOf(Doublings[streak'[d]], BackoffMax)
             /\ d \in scheduled' => downFor'[d] + due'[d] >= backoff'[d]
  <2>1. /\ backoff' = [backoff EXCEPT ![c] = BackoffBase]
        /\ scheduled' = scheduled \ {c} /\ due' = [due EXCEPT ![c] = 0]
        /\ streak' = [streak EXCEPT ![c] = 0] /\ downFor' = downFor
    BY <1>5 DEF CheckAlive
  <2>2. CASE c = d
    <3>1. backoff'[d] = BackoffBase /\ streak'[d] = 0 /\ d \notin scheduled'
      BY <1>2, <2>1, <2>2
    <3> QED
      BY <1>2, <3>1, DoublingsAre DEF LeastOf
  <2>3. CASE c # d
    <3>1. /\ backoff'[d] = backoff[d] /\ streak'[d] = streak[d] /\ due'[d] = due[d]
          /\ d \in scheduled' <=> d \in scheduled
      BY <1>2, <2>1, <2>3
    <3> QED
      BY <1>1, <2>1, <3>1
  <2> QED
    BY <2>2, <2>3
<1>6. ASSUME NEW c \in Cameras, Schedule(c)
      PROVE  /\ backoff'[d] >= LeastOf(Doublings[streak'[d]], BackoffMax)
             /\ d \in scheduled' => downFor'[d] + due'[d] >= backoff'[d]
  <2>1. /\ scheduled' = scheduled \union {c} /\ due' = [due EXCEPT ![c] = backoff[c]]
        /\ downFor' = [downFor EXCEPT ![c] = 0] /\ UNCHANGED <<backoff, streak>>
    BY <1>6 DEF Schedule
  <2>2. CASE c = d
    <3>1. downFor'[d] = 0 /\ due'[d] = backoff[d]
      BY <1>2, <2>1, <2>2
    <3> QED
      BY <1>1, <1>2, <2>1, <3>1
  <2>3. CASE c # d
    <3>1. downFor'[d] = downFor[d] /\ due'[d] = due[d] /\ (d \in scheduled' <=> d \in scheduled)
      BY <1>2, <2>1, <2>3
    <3> QED
      BY <1>1, <2>1, <3>1
  <2> QED
    BY <2>2, <2>3
<1>7. ASSUME NEW c \in Cameras, Restart(c)
      PROVE  /\ backoff'[d] >= LeastOf(Doublings[streak'[d]], BackoffMax)
             /\ d \in scheduled' => downFor'[d] + due'[d] >= backoff'[d]
  <2>1. /\ scheduled' = scheduled \ {c} /\ UNCHANGED due
        /\ backoff' = [backoff EXCEPT ![c] = Doubled(@)]
        /\ streak' = [streak EXCEPT ![c] = LeastOf(@ + 1, BackoffMax)]
        /\ downFor' = [downFor EXCEPT ![c] = 0]
    BY <1>7 DEF Restart
  <2>2. CASE c = d
    <3>1. /\ backoff'[d] = Doubled(backoff[d]) /\ d \notin scheduled'
          /\ streak'[d] = LeastOf(streak[d] + 1, BackoffMax)
      BY <1>2, <2>1, <2>2
    <3> QED
      BY <1>1, <3>1, DelayDoubles
  <2>3. CASE c # d
    <3>1. /\ backoff'[d] = backoff[d] /\ streak'[d] = streak[d] /\ downFor'[d] = downFor[d]
          /\ d \in scheduled' <=> d \in scheduled
      BY <1>2, <2>1, <2>3
    <3> QED
      BY <1>1, <2>1, <3>1
  <2> QED
    BY <2>2, <2>3
<1>8. CASE Control
  BY <1>3, <1>8 DEF Control, StartEngine, StartEngineRaises, SignalStop, JoinSupervisor,
     StopPipelines, runtimeVars, history
<1>9. ASSUME NEW c \in Cameras, WorkerDies(c) \/ CaptureDies(c)
      PROVE  UNCHANGED <<backoff, scheduled, due, downFor, streak>>
  BY <1>9 DEF WorkerDies, CaptureDies, runtimeVars, history
<1>10. CASE SupervisorExit
  BY <1>3, <1>10 DEF SupervisorExit, runtimeVars, history
<1>11. ASSUME NEW c \in Cameras, CheckStopped(c) \/ NotYetDue(c) \/ RestartRaises(c)
       PROVE  UNCHANGED <<backoff, scheduled, due, downFor, streak>>
  BY <1>11 DEF CheckStopped, NotYetDue, RestartRaises, runtimeVars, history
<1>12. CASE UNCHANGED vars
  BY <1>3, <1>12 DEF vars, runtimeVars, history
<1> QED
  BY <1>3, <1>4, <1>5, <1>6, <1>7, <1>8, <1>9, <1>10, <1>11, <1>12
     DEF Next, Supervise, Check

(* However often a pipeline crashes and whichever camera is checked when,  *)
(* _restart_pipeline() comes no sooner than the doubled delay after the    *)
(* supervisor found the worker dead.                                       *)
THEOREM RestartsBackOff == Spec => BacksOff
<1>1. Init => OwesDelay
  <2> SUFFICES ASSUME Init, NEW c \in Cameras
               PROVE  /\ backoff[c] >= LeastOf(Doublings[streak[c]], BackoffMax)
                      /\ c \notin scheduled
    BY DEF OwesDelay
  <2>1. backoff[c] = BackoffBase /\ streak[c] = 0 /\ c \notin scheduled
    BY DEF Init
  <2> QED
    BY <2>1, DoublingsAre, SupervisorAssumption DEF LeastOf
<1>2. TypeOK /\ OwesDelay =>
        \A c \in Cameras :
          Restart(c) => downFor[c] >= LeastOf(Doublings[streak[c]], BackoffMax)
  <2> SUFFICES ASSUME TypeOK, OwesDelay, NEW c \in Cameras, Restart(c)
               PROVE  downFor[c] >= LeastOf(Doublings[streak[c]], BackoffMax)
    OBVIOUS
  <2>1. c \in scheduled /\ due[c] = 0
    BY DEF Restart, IsDue
  <2>2. /\ backoff[c] >= LeastOf(Doublings[streak[c]], BackoffMax)
        /\ downFor[c] + due[c] >= backoff[c]
    BY <2>1 DEF OwesDelay
  <2>3. /\ backoff[c] \in Nat /\ downFor[c] \in Nat /\ BackoffMax \in Nat
        /\ Doublings[streak[c]] \in Nat
    BY DelayTypes
  <2>4. LeastOf(Doublings[streak[c]], BackoffMax) \in Nat
    BY <2>3 DEF LeastOf
  <2> QED
    BY <2>1, <2>2, <2>3, <2>4
<1> QED
  BY <1>1, <1>2, DelayStep, SupervisorTypes, PTL DEF Spec, BacksOff

-----------------------------------------------------------------------------
(* The gallery of identities.                                              *)

(* An entry of the gallery, and the types of its variables.                *)
Entry == [look : Looks, seen : Nat]

GalleryTypes ==
  /\ galleryTime \in Nat /\ WorkerLag <= galleryTime
  /\ nextId \in Nat \ {0}
  /\ DOMAIN gallery \subseteq 1..(nextId - 1) /\ gallery \in [DOMAIN gallery -> Entry]
  /\ DOMAIN met \subseteq 1..(nextId - 1) /\ met \in [DOMAIN met -> Nat]
  /\ frameTs \in Nat /\ present \in SUBSET People /\ used \subseteq DOMAIN gallery
  /\ assigned \in SUBSET (People \X used) /\ locked \in BOOLEAN

(* Who is still to be matched has no identity yet, and what a frame has    *)
(* given away is claimed; between calls nothing is.                        *)
FrameState ==
  /\ \A a \in assigned : a[1] \notin present
  /\ ~locked => used = {} /\ assigned = {} /\ present = {}
  /\ locked => frameTs + WorkerLag >= galleryTime

(* An entry is marked with the time of a frame no older than WorkerLag.    *)
Marked ==
  \A id \in DOMAIN met :
    met[id] + Ttl >= galleryTime + WorkerLag =>
      id \in DOMAIN gallery /\ gallery[id].seen + WorkerLag >= met[id]

GalleryInv == GalleryTypes /\ FrameState /\ OneIdentityEach /\ Marked

(* What claiming an entry, old or new, does to the invariant.              *)
LEMMA ClaimKeeps ==
  ASSUME GalleryInv, locked, NEW p \in present, NEW look \in LooksOf[p],
         NEW id \in Nat \ {0}, id \notin used, id <= nextId,
         nextId' \in Nat, nextId <= nextId', id < nextId',
         Claim(p, look, id), present' = present \ {p},
         UNCHANGED <<galleryTime, frameTs, locked>>
  PROVE  GalleryInv'
<1> USE GalleryAssumption DEF GalleryInv, GalleryTypes, Entry, Claim, Meet
<1>1. p \in People /\ look \in Looks
  OBVIOUS
<1>2. GalleryTypes'
  <2>1. DOMAIN gallery' = DOMAIN gallery \union {id} /\ DOMAIN met' = DOMAIN met \union {id}
    OBVIOUS
  <2>2. gallery' \in [DOMAIN gallery' -> Entry] /\ met' \in [DOMAIN met' -> Nat]
    BY <1>1, <2>1
  <2>3. assigned' \in SUBSET (People \X used')
    BY <1>1
  <2> QED BY <2>1, <2>2, <2>3
<1>3. FrameState'
  BY DEF FrameState
<1>4. OneIdentityEach'
  <2>1. \A a \in assigned : a[1] # p /\ a[2] # id
    BY DEF FrameState
  <2> QED BY <2>1 DEF OneIdentityEach
<1>5. Marked'
  BY DEF Marked, FrameState
<1> QED BY <1>2, <1>3, <1>4, <1>5 DEF GalleryInv

(* Every step of the gallery keeps its invariant.                          *)
LEMMA GalleryStep == GalleryInv /\ [GalleryNext]_galleryVars => GalleryInv'
<1> SUFFICES ASSUME GalleryInv, [GalleryNext]_galleryVars PROVE GalleryInv'
  OBVIOUS
<1> USE GalleryAssumption
<1>1. CASE BeginFrame
  <2>1. /\ DOMAIN gallery' = {i \in DOMAIN gallery : gallery[i].seen + Ttl >= galleryTime}
        /\ \A i \in DOMAIN gallery' : gallery'[i] = gallery[i]
    BY <1>1 DEF BeginFrame, EvictExpired, Fresh
  <2>2. used = {} /\ assigned = {} /\ frameTs' \in Nat /\ frameTs' + WorkerLag >= galleryTime
    BY <1>1 DEF BeginFrame, GalleryInv, GalleryTypes, FrameState
  <2>3. GalleryTypes'
    <3>1. gallery' \in [DOMAIN gallery' -> Entry]
      BY <1>1, <2>1 DEF GalleryInv, GalleryTypes, Entry, BeginFrame, EvictExpired
    <3> QED BY <1>1, <2>1, <2>2, <3>1 DEF BeginFrame, GalleryInv, GalleryTypes
  <2>4. Marked'
    BY <1>1, <2>1 DEF BeginFrame, GalleryInv, GalleryTypes, Marked, Entry
  <2> QED BY <1>1, <2>1, <2>2, <2>3, <2>4 DEF BeginFrame, GalleryInv, FrameState, OneIdentityEach
<1>2. CASE AssignOne
  <2>1. PICK p \in present : \E look \in LooksOf[p] :
          (Reuse(p, look) \/ Allocate(p, look)) /\ present' = present \ {p}
    BY <1>2 DEF AssignOne
  <2>2. PICK look \in LooksOf[p] : Reuse(p, look) \/ Allocate(p, look)
    BY <2>1
  <2>3. locked /\ present' = present \ {p} /\ UNCHANGED <<galleryTime, frameTs, locked>>
    BY <1>2, <2>1 DEF AssignOne
  <2>4. CASE Reuse(p, look)
    <3>1. PICK id \in BestMatch(look) : Claim(p, look, id)
      BY <2>4 DEF Reuse
    <3>2. id \in DOMAIN gallery /\ id \notin used
      BY DEF BestMatch, Eligible
    <3>3. id \in Nat \ {0} /\ id < nextId /\ nextId' = nextId /\ nextId \in Nat
      BY <2>4, <3>2 DEF Reuse, GalleryInv, GalleryTypes
    <3> QED BY <2>3, <3>1, <3>2, <3>3, ClaimKeeps
  <2>5. CASE Allocate(p, look)
    <3>1. nextId \in Nat \ {0} /\ nextId \notin used /\ nextId' = nextId + 1
      BY <2>5 DEF Allocate, GalleryInv, GalleryTypes
    <3> QED BY <2>3, <2>5, <3>1, ClaimKeeps DEF Allocate
  <2> QED BY <2>2, <2>4, <2>5
<1>3. CASE KeepUnembedded
  BY <1>3 DEF KeepUnembedded, GalleryInv, GalleryTypes, FrameState, OneIdentityEach, Marked
<1>4. CASE EndFrame
  BY <1>4 DEF EndFrame, GalleryInv, GalleryTypes, FrameState, OneIdentityEach, Marked
<1>5. CASE Pass
  <2>1. /\ DOMAIN met' \subseteq DOMAIN met
        /\ \A id \in DOMAIN met' : met'[id] = met[id]
    BY <1>5 DEF Pass, RecentlyMet
  <2>2. met' \in [DOMAIN met' -> Nat]
    BY <1>5 DEF Pass, RecentlyMet, GalleryInv, GalleryTypes
  <2> QED BY <1>5, <2>1, <2>2 DEF Pass, GalleryInv, GalleryTypes, FrameState, OneIdentityEach, Marked
<1>6. CASE UNCHANGED galleryVars
  BY <1>6 DEF galleryVars, GalleryInv, GalleryTypes, FrameState, OneIdentityEach, Marked
<1> QED BY <1>1, <1>2, <1>3, <1>4, <1>5, <1>6 DEF GalleryNext

(* What both properties of the gallery rest on.                            *)
LEMMA GallerySafe == GallerySpec => []GalleryInv
<1>1. ASSUME GalleryInit PROVE GalleryInv
  <2>1. DOMAIN gallery = {} /\ gallery \in [{} -> Entry] /\ DOMAIN met = {} /\ met \in [{} -> Nat]
    BY <1>1 DEF GalleryInit
  <2>2. galleryTime = WorkerLag /\ nextId = 1 /\ frameTs = 0 /\ present = {} /\ used = {}
        /\ assigned = {} /\ locked = FALSE
    BY <1>1 DEF GalleryInit
  <2>3. GalleryTypes
    <3>1. gallery \in [DOMAIN gallery -> Entry] /\ met \in [DOMAIN met -> Nat]
      BY <2>1, Zenon
    <3>2. DOMAIN gallery \subseteq 1..(nextId - 1) /\ DOMAIN met \subseteq 1..(nextId - 1)
          /\ used \subseteq DOMAIN gallery
      BY <2>1, <2>2, Zenon
    <3>3. assigned \in SUBSET (People \X used) /\ present \in SUBSET People
      BY <2>2, Zenon
    <3>4. galleryTime \in Nat /\ WorkerLag <= galleryTime /\ nextId \in Nat \ {0}
          /\ frameTs \in Nat
      BY <2>2, GalleryAssumption
    <3>5. locked \in BOOLEAN
      BY <2>2, Zenon
    <3> QED BY <3>1, <3>2, <3>3, <3>4, <3>5, Zenon DEF GalleryTypes
  <2>4. FrameState /\ OneIdentityEach /\ Marked
    BY <2>1, <2>2 DEF FrameState, OneIdentityEach, Marked
  <2> QED
    BY <2>3, <2>4 DEF GalleryInv
<1> QED
  BY <1>1, GalleryStep, PTL DEF GallerySpec

(* Two people of one frame get two identities, and an identity the gallery *)
(* knows is never allocated anew, for any people, looks and similarity.    *)
THEOREM IdentitiesDistinct == GallerySpec => []OneIdentityEach
<1>1. GalleryInv => OneIdentityEach
  BY DEF GalleryInv
<1> QED BY <1>1, GallerySafe, PTL

(* Whoever was met less than the time to live ago is still in the gallery, *)
(* for any time to live and any age of the frames.                         *)
THEOREM RecentlyMetKept == GallerySpec => []RecentKept
<1>1. GalleryInv => RecentKept
  BY DEF GalleryInv, Marked, RecentKept, RecentlyMet
<1> QED BY <1>1, GallerySafe, PTL

-----------------------------------------------------------------------------
(* The Redis bus.                                                          *)

(* An event: the worker that published it, and its number there.           *)
Event == Workers \X Nat

(* What is known of a sequence that grows at its end or loses its head.    *)
LEMMA AppendedEvents ==
  ASSUME NEW S, NEW s \in Seq(S), NEW e \in S
  PROVE  /\ Append(s, e) \in Seq(S) /\ Len(Append(s, e)) = Len(s) + 1 /\ Len(s) \in Nat
         /\ \A i \in 1..Len(s) : Append(s, e)[i] = s[i]
         /\ Append(s, e)[Len(s) + 1] = e
  OBVIOUS

LEMMA HeadAndTail ==
  ASSUME NEW S, NEW s \in Seq(S), s # <<>>
  PROVE  /\ Tail(s) \in Seq(S) /\ Len(Tail(s)) = Len(s) - 1 /\ Len(s) \in Nat \ {0}
         /\ \A i \in 1..Len(Tail(s)) : Tail(s)[i] = s[i + 1]
         /\ Head(s) = s[1] /\ Head(s) \in S
  OBVIOUS

(* A sequence is empty when nothing is in it, and its last head leaves it so. *)
LEMMA EmptyEvents ==
  ASSUME NEW S, NEW s \in Seq(S)
  PROVE  (s = <<>>) <=> (Len(s) = 0)
  OBVIOUS

LEMMA LastOne ==
  ASSUME NEW S, NEW s \in Seq(S), Len(s) = 1
  PROVE  Tail(s) = <<>>
<1>1. s # <<>>
  BY EmptyEvents
<1>2. Tail(s) \in Seq(S) /\ Len(Tail(s)) = 0
  BY <1>1, HeadAndTail
<1> QED BY <1>2, EmptyEvents

States == {"none", "top", "connecting", "consuming", "handling", "failed", "ended"}

(* f has a value in S for each listener thread that a process may make.    *)
PerListener(f, S) ==
  /\ DOMAIN f = Procs /\ \A p \in Procs : DOMAIN f[p] = Generations(p)
  /\ \A p \in Procs : \A g \in Generations(p) : f[p][g] \in S

RedisTypes ==
  /\ DOMAIN stop = Procs /\ DOMAIN attached = Procs /\ DOMAIN closing = Procs
  /\ DOMAIN sending = Workers
  /\ DOMAIN thread = Procs /\ \A p \in Procs : thread[p] \in Generations(p) \union {0}
  /\ PerListener(listener, States)
  /\ PerListener(linked, BOOLEAN)
  /\ PerListener(buffer, Seq(Event))
  /\ published \in [Workers -> Nat]
  /\ got \in [Procs -> Seq(Event)]

(* Only the entry of one listener thread is replaced.                      *)
LEMMA Replaced ==
  ASSUME NEW S, NEW f, PerListener(f, S), NEW p \in Procs, NEW g \in Generations(p), NEW v \in S,
         NEW h, h = [f EXCEPT ![p][g] = v]
  PROVE  /\ PerListener(h, S) /\ h[p][g] = v
         /\ \A q \in Procs : \A k \in Generations(q) : q # p \/ k # g => h[q][k] = f[q][k]
  BY DEF PerListener

(* Where a listener has a connection.                                      *)
Receiving == {"consuming", "handling"}

(* A connection belongs to a listener that reads it; once it is lost, only *)
(* the message in hand is left of it. Whoever did not outlive its process  *)
(* is its only listener.                                                   *)
Connected(p, g) ==
  /\ linked[p][g] => listener[p][g] \in Receiving
  /\ buffer[p][g] # <<>> => listener[p][g] \in Receiving
  /\ listener[p][g] = "handling" => buffer[p][g] # <<>>
  /\ ~linked[p][g] /\ listener[p][g] = "consuming" => buffer[p][g] = <<>>
  /\ ~linked[p][g] /\ listener[p][g] = "handling" => Len(buffer[p][g]) = 1

Alone(p) ==
  \A g, h \in Generations(p) : listener[p][g] \notin Dead /\ listener[p][h] \notin Dead => g = h

Connections ==
  /\ \A p \in Procs : \A g \in Generations(p) : Connected(p, g)
  /\ \A p \in Procs \ outlived : Alone(p)

(* What is under way comes after what was handled, in the order of its     *)
(* worker, and an event that is dispatched but not sent after both.        *)
Sent(e) == e[2] <= published[e[1]] /\ (sending[e[1]] => e[2] < published[e[1]])

Queued(p, g) ==
  /\ \A i \in 1..Len(buffer[p][g]) : buffer[p][g][i][2] >= 1 /\ Sent(buffer[p][g][i])
  /\ \A i, j \in 1..Len(buffer[p][g]) : i < j => Before(buffer[p][g][i], buffer[p][g][j])

Handled(p) ==
  \A i \in 1..Len(got[p]) :
    /\ got[p][i][2] >= 1 /\ got[p][i][2] <= published[got[p][i][1]]
    /\ Foreign(p, got[p][i]) => Sent(got[p][i])

ToCome(p, g) ==
  \A i \in 1..Len(got[p]), j \in 1..Len(buffer[p][g]) :
    Foreign(p, buffer[p][g][j]) => Before(got[p][i], buffer[p][g][j])

InOrder(p) == \A i, j \in 1..Len(got[p]) : i < j => Before(got[p][i], got[p][j])

AllOwn(p) ==
  \A w \in Workers : Home[w] = p =>
    \A n \in 1..published[w] : \E i \in 1..Len(got[p]) : got[p][i] = <<w, n>>

UnderWay ==
  /\ \A p \in Procs : \A g \in Generations(p) : Queued(p, g)
  /\ \A p \in Procs : Handled(p) /\ AllOwn(p)
  /\ \A w \in Workers : sending[w] => published[w] >= 1
  /\ \A p \in Procs \ outlived : InOrder(p) /\ \A g \in Generations(p) : ToCome(p, g)

RedisInv == RedisTypes /\ Connections /\ UnderWay

(* Every step of the bus keeps its variables in their types.               *)
LEMMA RedisTypesStep == ASSUME RedisTypes, Connections, [RedisNext]_redisVars PROVE RedisTypes'
<1> USE RedisAssumption DEF RedisTypes
<1>1. CASE RedisFails
  <2> USE DEF PerListener
  <2>1. \A p \in Procs : \A g \in Generations(p) : buffer'[p][g] \in Seq(Event)
    <3> SUFFICES ASSUME NEW p \in Procs, NEW g \in Generations(p)
                 PROVE  buffer'[p][g] \in Seq(Event)
      OBVIOUS
    <3>1. buffer'[p][g] = IF listener[p][g] = "handling" THEN <<Head(buffer[p][g])>> ELSE <<>>
      BY <1>1 DEF RedisFails
    <3>2. listener[p][g] = "handling" => Head(buffer[p][g]) \in Event
      BY HeadAndTail DEF Connections, Connected
    <3> QED BY <3>1, <3>2
  <2> QED BY <1>1, <2>1 DEF RedisFails
<1>2. CASE RedisReturns
  BY <1>2 DEF RedisReturns, threadVars
<1>3. ASSUME NEW w \in Workers, PublishRedis(w) PROVE RedisTypes'
  <2>1. <<w, published[w] + 1>> \in Event /\ Home[w] \in Procs
    BY DEF Event
  <2> QED BY <1>3, <2>1, AppendedEvents DEF PublishRedis, Dispatched, threadVars
<1>4. ASSUME NEW w \in Workers, Send(w) PROVE RedisTypes'
  <2>1. Message(w) \in Event
    BY DEF Event, Message
  <2>2. CASE buffer' = Pushed(Message(w))
    <3>1. \A q \in Procs : \A g \in Generations(q) : buffer'[q][g] \in Seq(Event)
      BY <2>1, <2>2, AppendedEvents DEF Pushed, PerListener
    <3> QED BY <1>4, <2>2, <3>1 DEF Send, Pushed, PerListener
  <2> QED BY <1>4, <2>2 DEF Send
<1>5. ASSUME NEW p \in Procs, Subscribe(p) PROVE RedisTypes'
  <2>1. CASE ListenerAlive(p)
    BY <1>5, <2>1 DEF Subscribe
  <2>2. CASE StartListener(p)
    <3>1. PICK g \in Generations(p) :
            /\ thread' = [thread EXCEPT ![p] = g]
            /\ listener' = [listener EXCEPT ![p][g] = "top"]
            /\ stop' = [stop EXCEPT ![p] = FALSE]
      BY <2>2 DEF StartListener, Unused
    <3>2. PerListener(listener', States)
      <4>1. "top" \in States /\ PerListener(listener, States)
        BY DEF States
      <4> QED BY <3>1, <4>1, Replaced
    <3> QED BY <1>5, <3>1, <3>2 DEF Subscribe
  <2> QED BY <1>5, <2>1, <2>2 DEF Subscribe
<1>8. ASSUME NEW p \in Procs, CloseBus(p) \/ CloseJoined(p) PROVE RedisTypes'
  BY <1>8 DEF CloseBus, CloseJoined, threadVars
<1>6. ASSUME NEW p \in Procs, NEW g \in Generations(p), ListenerStep(p, g) PROVE RedisTypes'
  <2>1. UNCHANGED <<attached, thread, stop, closing, sending, published>>
    BY <1>6 DEF ListenerStep, LoopTest, OpenConnection, StopConsuming, ReadLost, ReadMessage,
                HandleMessage, Backoff, OutsideListener
  <2>2. PerListener(listener', States)
    <3>1. PICK state \in States : UNCHANGED listener \/ listener' = [listener EXCEPT ![p][g] = state]
      BY <1>6 DEF ListenerStep, LoopTest, OpenConnection, StopConsuming, ReadLost, ReadMessage,
                  HandleMessage, Backoff, Goes, States
    <3> QED BY <3>1, Replaced
  <2>3. PerListener(linked', BOOLEAN)
    <3>1. PICK up \in BOOLEAN : UNCHANGED linked \/ linked' = [linked EXCEPT ![p][g] = up]
      BY <1>6 DEF ListenerStep, LoopTest, OpenConnection, StopConsuming, ReadLost, ReadMessage,
                  HandleMessage, Backoff, Link
    <3> QED BY <3>1, Replaced
  <2>4. CASE HandleMessage(p, g)
    <3>1. Tail(buffer[p][g]) \in Seq(Event) /\ Head(buffer[p][g]) \in Event
      BY <2>4, HeadAndTail DEF HandleMessage, Connections, Connected, PerListener
    <3>2. got' \in [Procs -> Seq(Event)]
      <4>1. \/ UNCHANGED got
            \/ got' = [got EXCEPT ![p] = Append(got[p], Head(buffer[p][g]))]
        BY <2>4 DEF HandleMessage, Dispatched
      <4>2. Append(got[p], Head(buffer[p][g])) \in Seq(Event)
        BY <3>1, AppendedEvents
      <4> QED BY <4>1, <4>2
    <3>3. buffer' = [buffer EXCEPT ![p][g] = Tail(buffer[p][g])]
      BY <2>4 DEF HandleMessage
    <3>4. PerListener(buffer', Seq(Event))
      BY <3>1, <3>3, Replaced
    <3> QED BY <2>1, <2>2, <2>3, <3>2, <3>4
  <2>5. CASE StopConsuming(p, g)
    <3>1. UNCHANGED got /\ buffer' = [buffer EXCEPT ![p][g] = <<>>]
      BY <2>5 DEF StopConsuming, Emptied
    <3>2. <<>> \in Seq(Event)
      OBVIOUS
    <3>3. PerListener(buffer', Seq(Event))
      BY <3>1, <3>2, Replaced
    <3> QED BY <2>1, <2>2, <2>3, <3>1, <3>3
  <2>6. CASE UNCHANGED <<buffer, got>>
    BY <2>1, <2>2, <2>3, <2>6
  <2>7. UNCHANGED <<buffer, got>> \/ HandleMessage(p, g) \/ StopConsuming(p, g)
    BY <1>6 DEF ListenerStep, LoopTest, OpenConnection, ReadLost, ReadMessage, Backoff
  <2> QED BY <2>4, <2>5, <2>6, <2>7
<1>7. CASE UNCHANGED redisVars
  BY <1>7 DEF redisVars, threadVars
<1> QED BY <1>1, <1>2, <1>3, <1>4, <1>5, <1>6, <1>7, <1>8 DEF RedisNext

(* A step of one listener leaves the others alone.                         *)
LEMMA OthersStay ==
  ASSUME RedisTypes, Connections, NEW p \in Procs, NEW g \in Generations(p), ListenerStep(p, g),
         NEW q \in Procs, NEW k \in Generations(q), q # p \/ k # g
  PROVE  /\ listener'[q][k] = listener[q][k]
         /\ linked'[q][k] = linked[q][k]
         /\ buffer'[q][k] = buffer[q][k]
<1> USE DEF RedisTypes
<1>1. PICK state \in States : UNCHANGED listener \/ listener' = [listener EXCEPT ![p][g] = state]
  BY DEF ListenerStep, LoopTest, OpenConnection, StopConsuming, ReadLost, ReadMessage,
         HandleMessage, Backoff, Goes, States
<1>2. PICK up \in BOOLEAN : UNCHANGED linked \/ linked' = [linked EXCEPT ![p][g] = up]
  BY DEF ListenerStep, LoopTest, OpenConnection, StopConsuming, ReadLost, ReadMessage,
         HandleMessage, Backoff, Link
<1>3. \/ UNCHANGED buffer
      \/ buffer' = [buffer EXCEPT ![p][g] = <<>>]
      \/ HandleMessage(p, g) /\ buffer' = [buffer EXCEPT ![p][g] = Tail(buffer[p][g])]
  BY DEF ListenerStep, LoopTest, OpenConnection, StopConsuming, ReadLost, ReadMessage,
         HandleMessage, Backoff, Emptied
<1>4. HandleMessage(p, g) => Tail(buffer[p][g]) \in Seq(Event)
  BY HeadAndTail DEF HandleMessage, Connections, Connected, PerListener
<1>5. buffer'[q][k] = buffer[q][k]
  <2>1. PICK rest \in Seq(Event) : UNCHANGED buffer \/ buffer' = [buffer EXCEPT ![p][g] = rest]
    <3>1. <<>> \in Seq(Event)
      OBVIOUS
    <3> QED BY <1>3, <1>4, <3>1
  <2> QED BY <2>1, Replaced
<1>6. listener'[q][k] = listener[q][k]
  BY <1>1, Replaced
<1>7. linked'[q][k] = linked[q][k]
  <2>1. PerListener(linked, BOOLEAN)
    OBVIOUS
  <2>2. CASE linked' = [linked EXCEPT ![p][g] = up]
    BY <2>1, <2>2 DEF PerListener
  <2> QED BY <1>2, <2>2
<1> QED BY <1>5, <1>6, <1>7

(* Every step of the bus keeps its connections in order.                   *)
LEMMA ConnectionsStep ==
  ASSUME RedisTypes, Connections, [RedisNext]_redisVars PROVE Connections'
<1> USE RedisAssumption DEF Receiving, Dead
<1>1. CASE RedisFails
  <2>1. \A p \in Procs : \A g \in Generations(p) :
          /\ linked'[p][g] = FALSE
          /\ buffer'[p][g] = IF listener[p][g] = "handling" THEN <<Head(buffer[p][g])>> ELSE <<>>
    BY <1>1 DEF RedisFails
  <2>2. UNCHANGED <<listener, outlived>>
    BY <1>1 DEF RedisFails
  <2>3. \A p \in Procs : \A g \in Generations(p) :
          /\ listener[p][g] = "handling" => buffer'[p][g] # <<>> /\ Len(buffer'[p][g]) = 1
          /\ listener[p][g] # "handling" => buffer'[p][g] = <<>>
    <3>1. \A e : <<e>> # <<>> /\ Len(<<e>>) = 1
      OBVIOUS
    <3> QED BY <2>1, <3>1
  <2>4. \A p \in Procs : \A g \in Generations(p) : Connected(p, g)'
    BY <2>1, <2>2, <2>3 DEF Connected
  <2>5. \A p \in Procs \ outlived' : Alone(p)'
    BY <2>2 DEF Connections, Alone
  <2> QED BY <2>4, <2>5 DEF Connections
<1>2. ASSUME UNCHANGED <<listener, linked, buffer, outlived>> PROVE Connections'
  BY <1>2 DEF Connections, Connected, Alone
<1>3. ASSUME NEW w \in Workers, Send(w) PROVE Connections'
  <2>1. Message(w) \in Event
    BY DEF Event, Message, RedisTypes
  <2>2. CASE buffer' = Pushed(Message(w))
    <3>1. \A q \in Procs : \A g \in Generations(q) :
            /\ linked[q][g] => buffer'[q][g] # <<>>
            /\ ~linked[q][g] => buffer'[q][g] = buffer[q][g]
      <4> SUFFICES ASSUME NEW q \in Procs, NEW g \in Generations(q)
                   PROVE  /\ linked[q][g] => buffer'[q][g] # <<>>
                          /\ ~linked[q][g] => buffer'[q][g] = buffer[q][g]
        OBVIOUS
      <4>1. buffer'[q][g] = IF linked[q][g] THEN Append(buffer[q][g], Message(w))
                                            ELSE buffer[q][g]
        BY <2>2 DEF Pushed
      <4>2. buffer[q][g] \in Seq(Event)
        BY DEF RedisTypes, PerListener
      <4>3. Append(buffer[q][g], Message(w)) # <<>>
        <5>1. Append(buffer[q][g], Message(w)) \in Seq(Event)
              /\ Len(Append(buffer[q][g], Message(w))) # 0
          BY <2>1, <4>2, AppendedEvents
        <5> QED BY <5>1, EmptyEvents
      <4> QED BY <4>1, <4>3
    <3>2. UNCHANGED <<listener, linked, outlived>>
      BY <1>3 DEF Send
    <3> QED BY <3>1, <3>2 DEF Connections, Connected, Alone
  <2> QED BY <1>2, <1>3, <2>2 DEF Send
<1>4. ASSUME NEW p \in Procs, Subscribe(p) PROVE Connections'
  <2>1. UNCHANGED <<linked, buffer>>
    BY <1>4 DEF Subscribe
  <2>2. CASE ListenerAlive(p)
    BY <1>2, <1>4, <2>1, <2>2 DEF Subscribe
  <2>3. CASE ~ListenerAlive(p)
    <3>1. PICK g \in Generations(p) :
            /\ listener[p][g] = "none"
            /\ listener' = [listener EXCEPT ![p][g] = "top"]
            /\ outlived' = IF \E h \in Generations(p) : listener[p][h] \notin Dead /\ h # thread[p]
                           THEN outlived \union {p} ELSE outlived
      BY <1>4, <2>3 DEF Subscribe, StartListener, Unused
    <3>2. p \notin outlived' => \A h \in Generations(p) : listener[p][h] \in Dead
      BY <2>3, <3>1 DEF ListenerAlive, Generations
    <3>3. /\ listener'[p][g] = "top"
          /\ \A q \in Procs : \A k \in Generations(q) :
               q # p \/ k # g => listener'[q][k] = listener[q][k]
      <4>1. "top" \in States /\ PerListener(listener, States)
        BY DEF States, RedisTypes
      <4>2. listener' = [listener EXCEPT ![p][g] = "top"]
        BY <3>1
      <4> QED BY <4>1, <4>2 DEF PerListener
    <3>4. \A q \in Procs : \A k \in Generations(q) : Connected(q, k)'
      BY <2>1, <3>1, <3>3 DEF Connections, Connected
    <3>5. \A q \in Procs \ outlived' : Alone(q)'
      BY <3>1, <3>2, <3>3 DEF Connections, Alone
    <3> QED BY <3>4, <3>5 DEF Connections
  <2> QED BY <2>2, <2>3
<1>5. ASSUME NEW p \in Procs, NEW g \in Generations(p), ListenerStep(p, g) PROVE Connections'
  <2>1. \A q \in Procs : \A k \in Generations(q) : q # p \/ k # g => Connected(q, k)'
    BY <1>5, OthersStay DEF Connections, Connected
  <2>2. UNCHANGED outlived /\ listener[p][g] \notin Dead
    BY <1>5 DEF ListenerStep, LoopTest, OpenConnection, StopConsuming, ReadLost, ReadMessage,
                HandleMessage, Backoff, OutsideListener
  <2>3. \A q \in Procs \ outlived' : Alone(q)'
    BY <1>5, <2>2, OthersStay DEF Connections, Alone
  <2>4. Connected(p, g)'
    <3> USE DEF Goes, Link, Emptied, RedisTypes, PerListener, Connected, Connections
    <3>1. CASE HandleMessage(p, g)
      <4>1. buffer[p][g] # <<>> /\ listener[p][g] = "handling" /\ buffer[p][g] \in Seq(Event)
        BY <3>1 DEF HandleMessage
      <4>2. Len(buffer[p][g]) = 1 => Tail(buffer[p][g]) = <<>>
        BY <4>1, LastOne
      <4>3. listener'[p][g] = "consuming" /\ UNCHANGED linked
            /\ buffer'[p][g] = Tail(buffer[p][g])
        BY <3>1 DEF HandleMessage
      <4> QED BY <4>1, <4>2, <4>3
    <3>2. CASE LoopTest(p, g)
      BY <3>2 DEF LoopTest
    <3>3. CASE OpenConnection(p, g)
      BY <3>3 DEF OpenConnection
    <3>4. CASE StopConsuming(p, g)
      BY <3>4 DEF StopConsuming
    <3>5. CASE ReadLost(p, g)
      BY <3>5 DEF ReadLost
    <3>6. CASE ReadMessage(p, g)
      BY <3>6 DEF ReadMessage
    <3>7. CASE Backoff(p, g)
      BY <3>7 DEF Backoff
    <3> QED BY <1>5, <3>1, <3>2, <3>3, <3>4, <3>5, <3>6, <3>7 DEF ListenerStep
  <2> QED BY <2>1, <2>3, <2>4 DEF Connections
<1> QED
  BY <1>1, <1>2, <1>3, <1>4, <1>5 DEF RedisNext, RedisReturns, PublishRedis, CloseBus, CloseJoined,
                                      redisVars, threadVars

(* What is taken off a buffer's end, or nothing at all, disturbs nothing.  *)
LEMMA ShorterBuffers ==
  ASSUME RedisTypes, UnderWay, UNCHANGED <<got, published, sending>>, outlived \subseteq outlived',
         \A p \in Procs : \A g \in Generations(p) :
           /\ Len(buffer'[p][g]) \in Nat /\ Len(buffer'[p][g]) <= Len(buffer[p][g])
           /\ \A i \in 1..Len(buffer'[p][g]) : buffer'[p][g][i] = buffer[p][g][i]
  PROVE  UnderWay'
<1>1. ASSUME NEW p \in Procs, NEW g \in Generations(p)
      PROVE  /\ Len(buffer[p][g]) \in Nat
             /\ \A i \in 1..Len(buffer'[p][g]) :
                  i \in 1..Len(buffer[p][g]) /\ buffer'[p][g][i] = buffer[p][g][i]
  <2>1. Len(buffer[p][g]) \in Nat
    BY DEF RedisTypes, PerListener
  <2> QED BY <2>1
<1>2. ASSUME NEW p \in Procs, NEW g \in Generations(p)
      PROVE  Queued(p, g)' /\ (p \notin outlived' => ToCome(p, g)')
  <2>1. Queued(p, g) /\ (p \notin outlived' => ToCome(p, g))
    BY DEF UnderWay
  <2>2. Queued(p, g)'
    <3>1. published' = published /\ sending' = sending
      OBVIOUS
    <3>2. \A i \in 1..Len(buffer'[p][g]) :
            /\ i \in 1..Len(buffer[p][g]) /\ buffer'[p][g][i] = buffer[p][g][i]
            /\ buffer[p][g][i][2] >= 1 /\ Sent(buffer[p][g][i])
      BY <1>1, <2>1 DEF Queued
    <3>3. \A i \in 1..Len(buffer'[p][g]) :
            buffer'[p][g][i][2] >= 1 /\ Sent(buffer[p][g][i])'
      BY <3>1, <3>2 DEF Sent
    <3>4. \A i, j \in 1..Len(buffer'[p][g]) :
            i < j => Before(buffer'[p][g][i], buffer'[p][g][j])
      <4> SUFFICES ASSUME NEW i \in 1..Len(buffer'[p][g]), NEW j \in 1..Len(buffer'[p][g]), i < j
                   PROVE  Before(buffer'[p][g][i], buffer'[p][g][j])
        OBVIOUS
      <4> QED BY <3>2, <2>1 DEF Queued
    <3> QED BY <3>3, <3>4 DEF Queued, Before
  <2>3. ASSUME p \notin outlived' PROVE ToCome(p, g)'
    <3>1. ToCome(p, g)
      BY <2>1, <2>3
    <3>2. got'[p] = got[p]
      OBVIOUS
    <3> SUFFICES ASSUME NEW i \in 1..Len(got[p]), NEW j \in 1..Len(buffer'[p][g]),
                        Foreign(p, buffer'[p][g][j])
                 PROVE  Before(got[p][i], buffer'[p][g][j])
      BY <3>2 DEF ToCome
    <3>3. j \in 1..Len(buffer[p][g]) /\ buffer'[p][g][j] = buffer[p][g][j]
      BY <1>1
    <3> QED BY <3>1, <3>3 DEF ToCome
  <2> QED BY <2>2, <2>3
<1>3. \A p \in Procs : Handled(p)' /\ AllOwn(p)' /\ (p \notin outlived' => InOrder(p)')
  BY DEF UnderWay, Handled, AllOwn, InOrder, Sent, Before
<1>4. \A w \in Workers : sending'[w] => published'[w] >= 1
  BY DEF UnderWay
<1> QED BY <1>2, <1>3, <1>4 DEF UnderWay

(* publish() dispatches an event that is newer than all of its worker.     *)
LEMMA PublishUnderWay ==
  ASSUME RedisInv, NEW w \in Workers, PublishRedis(w)
  PROVE  UnderWay'
<1> USE DEF RedisInv
<1> DEFINE p == Home[w]
           e == <<w, published[w] + 1>>
<1>1. /\ UNCHANGED <<buffer, outlived>>
      /\ published' = [published EXCEPT ![w] = published[w] + 1]
      /\ got' = [got EXCEPT ![p] = Append(got[p], e)]
      /\ sending' = [sending EXCEPT ![w] = TRUE] /\ ~sending[w]
  BY DEF PublishRedis, Dispatched, threadVars
<1>2. /\ p \in Procs /\ got[p] \in Seq(Event) /\ e \in Event
      /\ published \in [Workers -> Nat] /\ DOMAIN sending = Workers /\ got \in [Procs -> Seq(Event)]
  BY RedisAssumption DEF RedisTypes, Event
<1>3. /\ Len(got'[p]) = Len(got[p]) + 1 /\ Len(got[p]) \in Nat
      /\ \A i \in 1..Len(got[p]) : got'[p][i] = got[p][i] /\ got[p][i] \in Event
      /\ got'[p][Len(got[p]) + 1] = e
      /\ \A q \in Procs : q # p => got'[q] = got[q]
  BY <1>1, <1>2, AppendedEvents
<1> HIDE DEF e, p
<1>4. \A f \in Event : f[2] <= published[f[1]] => f[2] <= published'[f[1]]
  BY <1>1, <1>2 DEF Event
<1>5. \A f \in Event : Sent(f) => Sent(f)'
  BY <1>1, <1>2 DEF Event, Sent
<1>6. ASSUME NEW q \in Procs, NEW g \in Generations(q) PROVE Queued(q, g)'
  <2>1. Queued(q, g) /\ buffer[q][g] \in Seq(Event)
    BY DEF UnderWay, RedisTypes, PerListener
  <2>2. \A i \in 1..Len(buffer[q][g]) : buffer[q][g][i] \in Event
    BY <2>1
  <2> QED BY <1>1, <1>5, <2>1, <2>2 DEF Queued
<1>7. ASSUME NEW q \in Procs, NEW i \in 1..Len(got'[q])
      PROVE  \/ i \in 1..Len(got[q]) /\ got'[q][i] = got[q][i] /\ got[q][i] \in Event
             \/ q = p /\ i = Len(got[p]) + 1 /\ got'[q][i] = e
  <2>1. got[q] \in Seq(Event)
    BY <1>2
  <2>2. CASE q = p
    BY <1>3, <2>2
  <2>3. CASE q # p
    BY <1>3, <2>1, <2>3
  <2> QED BY <2>2, <2>3
<1>8. /\ e[1] = w /\ e[2] = published[w] + 1 /\ published'[w] = published[w] + 1
      /\ published[w] \in Nat /\ ~Foreign(p, e)
  BY <1>1, <1>2 DEF e, p, Foreign
<1>9. \A q \in Procs : Handled(q)'
  <2> SUFFICES ASSUME NEW q \in Procs, NEW i \in 1..Len(got'[q])
               PROVE  /\ got'[q][i][2] >= 1 /\ got'[q][i][2] <= published'[got'[q][i][1]]
                      /\ Foreign(q, got'[q][i]) => \A f : f = got'[q][i] => Sent(f)'
    BY DEF Handled
  <2>1. CASE i \in 1..Len(got[q]) /\ got'[q][i] = got[q][i] /\ got[q][i] \in Event
    <3>1. Handled(q)
      BY DEF UnderWay
    <3> QED BY <1>4, <1>5, <2>1, <3>1 DEF Handled
  <2>2. CASE q = p /\ got'[q][i] = e
    BY <1>8, <2>2
  <2> QED BY <1>7, <2>1, <2>2
<1>10. \A q \in Procs : AllOwn(q)'
  <2> SUFFICES ASSUME NEW q \in Procs, NEW v \in Workers, Home[v] = q, NEW n \in 1..published'[v]
               PROVE  \E i \in 1..Len(got'[q]) : got'[q][i] = <<v, n>>
    BY DEF AllOwn
  <2>1. CASE n \in 1..published[v]
    <3>1. PICK i \in 1..Len(got[q]) : got[q][i] = <<v, n>>
      BY <2>1 DEF UnderWay, AllOwn
    <3>2. i \in 1..Len(got'[q]) /\ got'[q][i] = got[q][i]
      BY <1>3
    <3> QED BY <3>1, <3>2
  <2>2. CASE n \notin 1..published[v]
    <3>1. v = w /\ q = p /\ n = published[w] + 1
      BY <1>1, <1>2, <2>2 DEF p
    <3>2. Len(got[p]) + 1 \in 1..Len(got'[p]) /\ got'[p][Len(got[p]) + 1] = <<w, n>>
      BY <1>3, <3>1 DEF e
    <3> QED BY <3>1, <3>2
  <2> QED BY <2>1, <2>2
<1>11. ASSUME NEW q \in Procs \ outlived' PROVE InOrder(q)'
  <2>1. InOrder(q) /\ Handled(q)
    BY <1>1 DEF UnderWay
  <2> SUFFICES ASSUME NEW i \in 1..Len(got'[q]), NEW j \in 1..Len(got'[q]), i < j
               PROVE  Before(got'[q][i], got'[q][j])
    BY DEF InOrder
  <2>2. i \in 1..Len(got[q]) /\ got'[q][i] = got[q][i] /\ got[q][i] \in Event
    BY <1>3, <1>7
  <2>3. CASE j \in 1..Len(got[q]) /\ got'[q][j] = got[q][j]
    BY <2>1, <2>2, <2>3 DEF InOrder
  <2>4. CASE q = p /\ got'[q][j] = e
    BY <1>8, <2>1, <2>2, <2>4 DEF Handled, Before, Event
  <2> QED BY <1>7, <2>3, <2>4
<1>12. ASSUME NEW q \in Procs \ outlived', NEW g \in Generations(q) PROVE ToCome(q, g)'
  <2>1. ToCome(q, g)
    BY <1>1 DEF UnderWay
  <2> SUFFICES ASSUME NEW i \in 1..Len(got'[q]), NEW j \in 1..Len(buffer[q][g]),
                      Foreign(q, buffer[q][g][j])
               PROVE  Before(got'[q][i], buffer[q][g][j])
    BY <1>1 DEF ToCome
  <2>2. CASE q = p /\ got'[q][i] = e
    BY <1>8, <2>2 DEF Before, Foreign
  <2> QED BY <1>7, <2>1, <2>2 DEF ToCome
<1>13. \A v \in Workers : sending'[v] => published'[v] >= 1
  BY <1>1, <1>2 DEF UnderWay
<1> QED BY <1>1, <1>6, <1>9, <1>10, <1>11, <1>12, <1>13 DEF UnderWay

(* What is sent is the newest event of its worker, so it goes behind       *)
(* whatever anyone has of that worker.                                     *)
LEMMA SendUnderWay ==
  ASSUME RedisInv, NEW w \in Workers, Send(w), buffer' = Pushed(Message(w))
  PROVE  UnderWay'
<1> USE DEF RedisInv
<1> DEFINE e == Message(w)
<1>1. /\ UNCHANGED <<got, published, outlived>>
      /\ sending[w] /\ sending' = [sending EXCEPT ![w] = FALSE] /\ DOMAIN sending = Workers
      /\ published \in [Workers -> Nat] /\ got \in [Procs -> Seq(Event)]
  BY DEF Send, RedisTypes
<1>2. e \in Event /\ e[1] = w /\ e[2] = published[w]
  BY <1>1 DEF Event, Message
<1>3. ASSUME NEW q \in Procs, NEW g \in Generations(q)
      PROVE  /\ buffer[q][g] \in Seq(Event) /\ Len(buffer[q][g]) \in Nat
             /\ \/ buffer'[q][g] = buffer[q][g]
                \/ /\ Len(buffer'[q][g]) = Len(buffer[q][g]) + 1
                   /\ \A i \in 1..Len(buffer[q][g]) : buffer'[q][g][i] = buffer[q][g][i]
                   /\ buffer'[q][g][Len(buffer[q][g]) + 1] = e
  <2>1. buffer[q][g] \in Seq(Event)
    BY DEF RedisTypes, PerListener
  <2>2. buffer'[q][g] = Append(buffer[q][g], e) \/ buffer'[q][g] = buffer[q][g]
    BY DEF Pushed
  <2> QED BY <1>2, <2>1, <2>2, AppendedEvents
<1> HIDE DEF e
<1>4. \A f \in Event : Sent(f) => Sent(f)'
  BY <1>1 DEF Event, Sent
<1>5. \A f \in Event : f[1] = w /\ Sent(f) => f[2] < e[2]
  BY <1>1, <1>2 DEF Event, Sent
<1>6. ASSUME NEW q \in Procs, NEW g \in Generations(q), NEW i \in 1..Len(buffer'[q][g])
      PROVE  \/ /\ i \in 1..Len(buffer[q][g]) /\ buffer'[q][g][i] = buffer[q][g][i]
                /\ buffer[q][g][i] \in Event
             \/ i = Len(buffer[q][g]) + 1 /\ buffer'[q][g][i] = e
  BY <1>3
<1>7. ASSUME NEW q \in Procs, NEW g \in Generations(q) PROVE Queued(q, g)'
  <2>1. Queued(q, g)
    BY DEF UnderWay
  <2>2. ASSUME NEW i \in 1..Len(buffer'[q][g])
        PROVE  buffer'[q][g][i][2] >= 1 /\ \A f : f = buffer'[q][g][i] => Sent(f)'
    <3>1. e[2] >= 1 /\ \A f : f = e => Sent(f)'
      <4>1. published[w] >= 1
        BY <1>1 DEF UnderWay
      <4> QED BY <1>1, <1>2, <4>1 DEF Sent
    <3> QED BY <1>4, <1>6, <2>1, <3>1 DEF Queued
  <2>3. ASSUME NEW i \in 1..Len(buffer'[q][g]), NEW j \in 1..Len(buffer'[q][g]), i < j
        PROVE  Before(buffer'[q][g][i], buffer'[q][g][j])
    <3>1. /\ i \in 1..Len(buffer[q][g]) /\ buffer'[q][g][i] = buffer[q][g][i]
          /\ buffer[q][g][i] \in Event
      BY <1>3, <1>6, <2>3
    <3>2. CASE j \in 1..Len(buffer[q][g]) /\ buffer'[q][g][j] = buffer[q][g][j]
      BY <2>1, <2>3, <3>1, <3>2 DEF Queued
    <3>3. CASE buffer'[q][g][j] = e
      BY <1>2, <1>5, <2>1, <3>1, <3>3 DEF Queued, Before
    <3> QED BY <1>6, <3>2, <3>3
  <2> QED BY <2>2, <2>3 DEF Queued
<1>8. ASSUME NEW q \in Procs PROVE Handled(q)'
  <2>1. Handled(q) /\ \A i \in 1..Len(got[q]) : got[q][i] \in Event
    BY <1>1 DEF UnderWay
  <2> QED BY <1>1, <1>4, <2>1 DEF Handled
<1>9. ASSUME NEW q \in Procs \ outlived', NEW g \in Generations(q) PROVE ToCome(q, g)'
  <2>1. ToCome(q, g) /\ Handled(q) /\ \A i \in 1..Len(got[q]) : got[q][i] \in Event
    BY <1>1 DEF UnderWay
  <2> SUFFICES ASSUME NEW i \in 1..Len(got[q]), NEW j \in 1..Len(buffer'[q][g]),
                      Foreign(q, buffer'[q][g][j])
               PROVE  Before(got[q][i], buffer'[q][g][j])
    BY <1>1 DEF ToCome
  <2>2. CASE buffer'[q][g][j] = e
    BY <1>2, <1>5, <2>1, <2>2 DEF Handled, Before, Foreign
  <2> QED BY <1>6, <2>1, <2>2 DEF ToCome
<1>10. /\ \A q \in Procs : AllOwn(q)'
       /\ \A q \in Procs \ outlived' : InOrder(q)'
  <2>1. ASSUME NEW q \in Procs PROVE AllOwn(q)'
    <3>1. AllOwn(q) /\ got' = got /\ published' = published
      BY <1>1 DEF UnderWay
    <3> QED BY <3>1 DEF AllOwn
  <2>2. ASSUME NEW q \in Procs \ outlived' PROVE InOrder(q)'
    BY <1>1 DEF UnderWay, InOrder
  <2> QED BY <2>1, <2>2
<1>11. \A v \in Workers : sending'[v] => published'[v] >= 1
  BY <1>1 DEF UnderWay
<1> QED BY <1>7, <1>8, <1>9, <1>10, <1>11 DEF UnderWay

(* A listener dispatches what comes next of a worker, and another cannot   *)
(* have dispatched it: it is the only one, unless one was outlived.        *)
LEMMA HandleUnderWay ==
  ASSUME RedisInv, NEW p \in Procs, NEW g \in Generations(p), HandleMessage(p, g)
  PROVE  UnderWay'
<1> USE DEF RedisInv
<1> DEFINE e == Head(buffer[p][g])
           b == buffer[p][g]
<1>1. /\ UNCHANGED <<published, sending, outlived>>
      /\ \/ got' = [got EXCEPT ![p] = Append(got[p], e)] /\ Foreign(p, e)
         \/ UNCHANGED got
      /\ got \in [Procs -> Seq(Event)] /\ published \in [Workers -> Nat]
  BY DEF HandleMessage, OutsideListener, Dispatched, RedisTypes
<1>2. /\ b \in Seq(Event) /\ b # <<>> /\ e \in Event /\ e = b[1] /\ Len(b) \in Nat \ {0}
      /\ Len(Tail(b)) = Len(b) - 1 /\ \A i \in 1..Len(Tail(b)) : Tail(b)[i] = b[i + 1]
  <2>1. b \in Seq(Event) /\ b # <<>>
    BY DEF HandleMessage, RedisTypes, PerListener, Connections, Connected
  <2> QED BY <2>1, HeadAndTail
<1>3. /\ buffer'[p][g] = Tail(b)
      /\ \A q \in Procs : \A k \in Generations(q) :
           q # p \/ k # g => buffer'[q][k] = buffer[q][k]
  <2>1. ListenerStep(p, g)
    BY DEF ListenerStep
  <2>2. buffer'[p][g] = Tail(b)
    BY DEF HandleMessage, RedisTypes, PerListener
  <2> QED BY <2>1, <2>2, OthersStay
<1> HIDE DEF e, b
<1>4. Queued(p, g) /\ 1 \in 1..Len(b) /\ buffer[p][g] = b
  BY <1>2 DEF UnderWay, b
<1>5. e[2] >= 1 /\ Sent(e) /\ e[2] <= published[e[1]]
  BY <1>2, <1>4 DEF Queued, Sent
<1>6. ASSUME NEW q \in Procs, NEW k \in Generations(q), NEW j \in 1..Len(buffer'[q][k])
      PROVE  \/ /\ q = p /\ k = g /\ j + 1 \in 1..Len(b) /\ buffer'[q][k][j] = b[j + 1]
                /\ j \in Nat \ {0}
             \/ j \in 1..Len(buffer[q][k]) /\ buffer'[q][k] = buffer[q][k] /\ (q # p \/ k # g)
  <2>1. CASE q = p /\ k = g
    BY <1>2, <1>3, <2>1
  <2>2. CASE q # p \/ k # g
    BY <1>3, <2>2
  <2> QED BY <2>1, <2>2
<1>7. ASSUME NEW q \in Procs, NEW k \in Generations(q) PROVE Queued(q, k)'
  <2>1. Queued(q, k)
    BY DEF UnderWay
  <2>2. CASE q = p /\ k = g
    <3>1. \A i \in 1..Len(buffer'[p][g]) :
            i + 1 \in 1..Len(b) /\ buffer'[p][g][i] = b[i + 1]
      BY <1>2, <1>3
    <3>2. \A i, j \in 1..Len(buffer'[p][g]) : i < j => i + 1 < j + 1
      BY <1>2, <1>3
    <3>3. ASSUME NEW i \in 1..Len(buffer'[p][g])
          PROVE  buffer'[p][g][i][2] >= 1 /\ \A f : f = buffer'[p][g][i] => Sent(f)'
      <4>1. i + 1 \in 1..Len(b) /\ buffer'[p][g][i] = b[i + 1]
        BY <3>1
      <4>2. b[i + 1][2] >= 1 /\ Sent(b[i + 1])
        BY <1>4, <4>1 DEF Queued
      <4>3. UNCHANGED published /\ UNCHANGED sending
        BY <1>1
      <4> QED BY <4>1, <4>2, <4>3 DEF Sent
    <3>4. ASSUME NEW i \in 1..Len(buffer'[p][g]), NEW j \in 1..Len(buffer'[p][g]), i < j
          PROVE  Before(buffer'[p][g][i], buffer'[p][g][j])
      BY <1>4, <3>1, <3>2, <3>4 DEF Queued
    <3> QED BY <2>2, <3>3, <3>4 DEF Queued
  <2>3. CASE q # p \/ k # g
    BY <1>1, <1>3, <2>1, <2>3 DEF Queued, Sent
  <2> QED BY <2>2, <2>3
<1>8. ASSUME NEW q \in Procs
      PROVE  /\ Len(got[q]) \in Nat /\ \A i \in 1..Len(got[q]) : got[q][i] \in Event
             /\ \/ got'[q] = got[q]
                \/ /\ q = p /\ Foreign(p, e)
                   /\ Len(got'[q]) = Len(got[q]) + 1
                   /\ \A i \in 1..Len(got[q]) : got'[q][i] = got[q][i]
                   /\ got'[q][Len(got[q]) + 1] = e
  <2>1. got[q] \in Seq(Event)
    BY <1>1
  <2>2. got'[q] = got[q] \/ (q = p /\ Foreign(p, e) /\ got'[q] = Append(got[q], e))
    BY <1>1
  <2> QED BY <1>2, <2>1, <2>2, AppendedEvents
<1>9. ASSUME NEW q \in Procs, NEW i \in 1..Len(got'[q])
      PROVE  \/ i \in 1..Len(got[q]) /\ got'[q][i] = got[q][i] /\ got[q][i] \in Event
             \/ q = p /\ Foreign(p, e) /\ i = Len(got[q]) + 1 /\ got'[q][i] = e
  BY <1>8
<1>10. ASSUME NEW q \in Procs PROVE Handled(q)' /\ AllOwn(q)'
  <2>1. Handled(q) /\ AllOwn(q)
    BY DEF UnderWay
  <2>2. Handled(q)'
    <3> SUFFICES ASSUME NEW i \in 1..Len(got'[q])
                 PROVE  /\ got'[q][i][2] >= 1 /\ got'[q][i][2] <= published[got'[q][i][1]]
                        /\ Foreign(q, got'[q][i]) => Sent(got'[q][i])
      BY <1>1 DEF Handled, Sent
    <3> QED BY <1>5, <1>9, <2>1 DEF Handled
  <2>3. AllOwn(q)'
    <3>1. \A i \in 1..Len(got[q]) : i \in 1..Len(got'[q]) /\ got'[q][i] = got[q][i]
      BY <1>8
    <3> QED BY <1>1, <2>1, <3>1 DEF AllOwn
  <2> QED BY <1>1, <2>1, <2>2, <2>3
<1>11. ASSUME NEW q \in Procs \ outlived', NEW i \in 1..Len(got[q]), q = p, Foreign(p, e)
       PROVE  Before(got[q][i], e)
  <2>1. ToCome(p, g)
    BY <1>1, <1>11 DEF UnderWay
  <2> QED BY <1>2, <1>4, <1>11, <2>1 DEF ToCome
<1>12. ASSUME NEW q \in Procs \ outlived' PROVE InOrder(q)'
  <2>1. InOrder(q)
    BY <1>1 DEF UnderWay
  <2> SUFFICES ASSUME NEW i \in 1..Len(got'[q]), NEW j \in 1..Len(got'[q]), i < j
               PROVE  Before(got'[q][i], got'[q][j])
    BY DEF InOrder
  <2>2. i \in 1..Len(got[q]) /\ got'[q][i] = got[q][i]
    BY <1>8, <1>9
  <2>3. CASE j \in 1..Len(got[q]) /\ got'[q][j] = got[q][j]
    BY <2>1, <2>2, <2>3 DEF InOrder
  <2>4. CASE q = p /\ Foreign(p, e) /\ got'[q][j] = e
    BY <1>11, <2>2, <2>4
  <2> QED BY <1>9, <2>3, <2>4
<1>13. ASSUME NEW q \in Procs \ outlived', NEW k \in Generations(q) PROVE ToCome(q, k)'
  <2>1. ToCome(q, k) /\ Alone(q)
    BY <1>1 DEF UnderWay, Connections
  <2> SUFFICES ASSUME NEW i \in 1..Len(got'[q]), NEW j \in 1..Len(buffer'[q][k]),
                      Foreign(q, buffer'[q][k][j])
               PROVE  Before(got'[q][i], buffer'[q][k][j])
    BY DEF ToCome
  <2>2. CASE q = p /\ k = g /\ j + 1 \in 1..Len(b) /\ buffer'[q][k][j] = b[j + 1] /\ j \in Nat \ {0}
    <3>1. CASE i \in 1..Len(got[q]) /\ got'[q][i] = got[q][i]
      BY <1>4, <2>1, <2>2, <3>1 DEF ToCome
    <3>2. CASE got'[q][i] = e
      <4>1. 1 < j + 1
        BY <2>2
      <4> QED BY <1>2, <1>4, <2>2, <3>2, <4>1 DEF Queued
    <3> QED BY <1>9, <3>1, <3>2
  <2>3. CASE j \in 1..Len(buffer[q][k]) /\ buffer'[q][k] = buffer[q][k] /\ (q # p \/ k # g)
    <3>1. CASE i \in 1..Len(got[q]) /\ got'[q][i] = got[q][i]
      BY <2>1, <2>3, <3>1 DEF ToCome
    <3>2. CASE q = p
      <4>1. k # g /\ listener[p][g] = "handling"
        BY <2>3, <3>2 DEF HandleMessage
      <4>2. listener[p][k] \in Dead
        BY <2>1, <3>2, <4>1 DEF Alone, Dead
      <4>3. buffer[p][k] = <<>>
        BY <3>2, <4>2 DEF Connections, Connected, Dead, Receiving
      <4> QED BY <2>3, <3>2, <4>3
    <3> QED BY <1>9, <3>1, <3>2
  <2> QED BY <1>6, <2>2, <2>3
<1>14. \A w \in Workers : sending'[w] => published'[w] >= 1
  BY <1>1 DEF UnderWay
<1> QED BY <1>7, <1>10, <1>12, <1>13, <1>14 DEF UnderWay

(* Every step of the bus keeps its invariant.                              *)
LEMMA RedisStep == RedisInv /\ [RedisNext]_redisVars => RedisInv'
<1> SUFFICES ASSUME RedisInv, [RedisNext]_redisVars PROVE RedisInv'
  OBVIOUS
<1> USE DEF RedisInv
<1>1. RedisTypes' /\ Connections'
  BY RedisTypesStep, ConnectionsStep
<1>2. ASSUME UNCHANGED <<buffer, got, published, sending>>, outlived \subseteq outlived'
      PROVE  UnderWay'
  <2>1. \A p \in Procs : \A g \in Generations(p) :
          Len(buffer[p][g]) \in Nat /\ Len(buffer[p][g]) <= Len(buffer[p][g])
    BY DEF RedisTypes, PerListener
  <2> QED BY <1>2, <2>1, ShorterBuffers
<1>3. CASE RedisFails
  <2>1. UNCHANGED <<got, published, sending>> /\ UNCHANGED outlived
    BY <1>3 DEF RedisFails
  <2>2. ASSUME NEW p \in Procs, NEW g \in Generations(p)
        PROVE  /\ Len(buffer'[p][g]) \in Nat /\ Len(buffer'[p][g]) <= Len(buffer[p][g])
               /\ \A i \in 1..Len(buffer'[p][g]) : buffer'[p][g][i] = buffer[p][g][i]
    <3>1. buffer[p][g] \in Seq(Event) /\ (listener[p][g] = "handling" => buffer[p][g] # <<>>)
      BY DEF RedisTypes, PerListener, Connections, Connected
    <3>2. buffer'[p][g] = IF listener[p][g] = "handling" THEN <<Head(buffer[p][g])>> ELSE <<>>
      BY <1>3 DEF RedisFails
    <3> QED BY <3>1, <3>2, HeadAndTail
  <2>3. outlived \subseteq outlived'
    BY <2>1
  <2> QED BY <1>1, <2>1, <2>2, <2>3, ShorterBuffers
<1>4. ASSUME NEW p \in Procs, NEW g \in Generations(p), StopConsuming(p, g) PROVE UnderWay'
  <2>1. UNCHANGED <<got, published, sending, outlived>>
    BY <1>4 DEF StopConsuming, OutsideListener
  <2>2. buffer'[p][g] = <<>>
    BY <1>4 DEF StopConsuming, Emptied, RedisTypes, PerListener
  <2>3. \A q \in Procs : \A k \in Generations(q) :
          Len(buffer[q][k]) \in Nat /\ (q # p \/ k # g => buffer'[q][k] = buffer[q][k])
    BY <1>4, OthersStay DEF ListenerStep, RedisTypes, PerListener
  <2> QED BY <2>1, <2>2, <2>3, ShorterBuffers
<1>5. ASSUME NEW w \in Workers, PublishRedis(w) PROVE UnderWay'
  BY <1>5, PublishUnderWay
<1>6. ASSUME NEW w \in Workers, Send(w) PROVE UnderWay'
  <2>1. CASE buffer' = Pushed(Message(w))
    BY <1>6, <2>1, SendUnderWay
  <2>2. CASE UNCHANGED buffer
    <3>1. UNCHANGED <<got, published, outlived>>
          /\ sending' = [sending EXCEPT ![w] = FALSE] /\ DOMAIN sending = Workers
          /\ got \in [Procs -> Seq(Event)]
      BY <1>6 DEF Send, RedisTypes
    <3>2. \A f \in Event : Sent(f) => Sent(f)'
      BY <3>1 DEF Sent, Event
    <3>3. ASSUME NEW q \in Procs, NEW g \in Generations(q) PROVE Queued(q, g)'
      <4>1. Queued(q, g) /\ \A i \in 1..Len(buffer[q][g]) : buffer[q][g][i] \in Event
        BY DEF UnderWay, RedisTypes, PerListener
      <4> QED BY <2>2, <3>2, <4>1 DEF Queued
    <3>4. ASSUME NEW q \in Procs PROVE Handled(q)'
      <4>1. Handled(q) /\ \A i \in 1..Len(got[q]) : got[q][i] \in Event
        BY <3>1 DEF UnderWay
      <4> QED BY <3>1, <3>2, <4>1 DEF Handled
    <3>5. ASSUME NEW q \in Procs PROVE AllOwn(q)'
      <4>1. AllOwn(q) /\ got' = got /\ published' = published
        BY <3>1 DEF UnderWay
      <4> QED BY <4>1 DEF AllOwn
    <3>6. ASSUME NEW q \in Procs \ outlived'
          PROVE  InOrder(q)' /\ \A g \in Generations(q) : ToCome(q, g)'
      BY <2>2, <3>1 DEF UnderWay, InOrder, ToCome
    <3>7. \A v \in Workers : sending'[v] => published'[v] >= 1
      BY <3>1 DEF UnderWay
    <3> QED BY <3>3, <3>4, <3>5, <3>6, <3>7 DEF UnderWay
  <2> QED BY <1>6, <2>1, <2>2 DEF Send
<1>7. ASSUME NEW p \in Procs, NEW g \in Generations(p), HandleMessage(p, g) PROVE UnderWay'
  BY <1>7, HandleUnderWay
<1>8. ASSUME NEW p \in Procs, Subscribe(p) PROVE UnderWay'
  <2>1. UNCHANGED <<buffer, got, published, sending>> /\ outlived \subseteq outlived'
    BY <1>8 DEF Subscribe, StartListener
  <2> QED BY <1>2, <2>1
<1>9. CASE \/ RedisReturns \/ UNCHANGED redisVars
           \/ \E p \in Procs : CloseBus(p) \/ CloseJoined(p)
  <2>1. UNCHANGED <<buffer, got, published, sending>> /\ UNCHANGED outlived
    BY <1>9 DEF RedisReturns, CloseBus, CloseJoined, redisVars, threadVars
  <2>2. outlived \subseteq outlived'
    BY <2>1
  <2> QED BY <1>1, <1>2, <2>1, <2>2
<1>10. ASSUME NEW p \in Procs, NEW g \in Generations(p), ListenerStep(p, g) PROVE UnderWay'
  <2>1. \/ HandleMessage(p, g) \/ StopConsuming(p, g)
        \/ UNCHANGED <<buffer, got, published, sending, outlived>>
    BY <1>10 DEF ListenerStep, LoopTest, OpenConnection, ReadLost, ReadMessage, Backoff,
                 OutsideListener
  <2> QED BY <1>2, <1>4, <1>7, <2>1
<1>11. UnderWay'
  BY <1>3, <1>5, <1>6, <1>8, <1>9, <1>10 DEF RedisNext
<1> QED BY <1>1, <1>11

(* Each event at most once, in the order of its worker, and all of one's   *)
(* own, for any number of processes, of workers that publish at once, of   *)
(* listeners, outages and restarts.                                        *)
THEOREM RedisOnceInOrder == RedisSpec => []OnceInOrder
<1>1. ASSUME RedisInit PROVE RedisInv
  <2> USE <1>1 DEF RedisInit
  <2>1. RedisTypes
    BY DEF RedisTypes, PerListener, States
  <2>2. Connections
    BY DEF Connections, Connected, Alone, Dead, Receiving
  <2>3. /\ \A p \in Procs : Len(got[p]) = 0
        /\ \A w \in Workers : published[w] = 0 /\ ~sending[w]
    OBVIOUS
  <2>4. \A p \in Procs : \A g \in Generations(p) : Len(buffer[p][g]) = 0
    OBVIOUS
  <2>5. UnderWay
    BY <2>3, <2>4 DEF UnderWay, Queued, Handled, AllOwn, InOrder, ToCome
  <2> QED BY <2>1, <2>2, <2>5 DEF RedisInv
<1>2. ASSUME RedisInv PROVE OnceInOrder
  <2> SUFFICES ASSUME NEW p \in Procs \ outlived
               PROVE  /\ \A i \in 1..Len(got[p]) : got[p][i][2] \in 1..published[got[p][i][1]]
                      /\ InOrder(p) /\ AllOwn(p)
    BY DEF OnceInOrder, InOrder, AllOwn
  <2>1. Handled(p) /\ InOrder(p) /\ AllOwn(p) /\ got[p] \in Seq(Event)
    BY <1>2 DEF RedisInv, UnderWay, RedisTypes
  <2>2. \A i \in 1..Len(got[p]) : got[p][i] \in Event
    BY <2>1
  <2>3. published \in [Workers -> Nat]
    BY <1>2 DEF RedisInv, RedisTypes
  <2> QED BY <2>1, <2>2, <2>3 DEF Handled, Event
<1> QED
  BY <1>1, <1>2, RedisStep, PTL DEF RedisSpec

-----------------------------------------------------------------------------
(* The manager: for any number of HTTP threads, edits, PATCHes and failed  *)
(* starts one engine, and a mode that tells what it runs. Both rest on     *)
(* LockInv, which says what the holder of the manager's lock may rely on,  *)
(* the second also on Planned.                                             *)

(* The lock is held by the one caller inside _apply, and while it is held  *)
(* there is no engine.                                                     *)
LockInv ==
  /\ \A p \in Callers : pc[p] \in {"build", "start"} <=> lock = p
  /\ lock # Nobody => engine = {} /\ engineUp = FALSE
  /\ ~engineUp => engine = {}

(* What a call resolved outside the lock, and what it built inside, fits a *)
(* row that it has witnessed.                                              *)
PlanOf(k) ==
  /\ k.scope # "all" =>
       \A v \in 0..MaxVersion : \A c \in k.ids : Fitted(c, k.scope, v, k.seen)
  /\ \A c \in k.cameras : Fitted(c, k.scope, k.built, k.seen)

(* Until it ends, a call has witnessed the registry as it is now.          *)
UpToDate(rows) == \A c \in Registered : CurrentRow(c) \in rows

Planned ==
  \A p \in Callers : PlanOf(call[p]) /\ (pc[p] # "idle" => UpToDate(call[p].seen))

ManagerInv == ManagerTypeOK /\ OneEngine /\ LockInv /\ Planned /\ ModeTellsScope

(* What a row holds.                                                       *)
LEMMA RowFacts ==
  ASSUME NEW c \in Registered, NEW on \in BOOLEAN, NEW R \in SUBSET Roles
  PROVE  /\ Row(c, on, R) \in Rows
         /\ Row(c, on, R).camera = c /\ Row(c, on, R).enabled = on /\ Row(c, on, R).roles = R
BY DEF Row, Rows

LEMMA CurrentRowFacts ==
  ASSUME ManagerTypeOK, NEW c \in Registered
  PROVE  /\ CurrentRow(c) \in Rows
         /\ CurrentRow(c).camera = c /\ CurrentRow(c).roles = roles[c]
         /\ c \in enabled => CurrentRow(c).enabled = TRUE
<1>1. roles[c] \in SUBSET Roles
  BY DEF ManagerTypeOK
<1>2. CASE c \in enabled
  <2>1. CurrentRow(c) = Row(c, TRUE, roles[c])
    BY <1>2 DEF CurrentRow, Row
  <2>2. /\ Row(c, TRUE, roles[c]) \in Rows /\ Row(c, TRUE, roles[c]).camera = c
        /\ Row(c, TRUE, roles[c]).roles = roles[c] /\ Row(c, TRUE, roles[c]).enabled = TRUE
    BY <1>1 DEF Row, Rows
  <2> QED BY <2>1, <2>2
<1>3. CASE c \notin enabled
  <2>1. CurrentRow(c) = Row(c, FALSE, roles[c])
    <3>1. (c \in enabled) = FALSE
      BY <1>3
    <3> QED BY <3>1, Zenon DEF CurrentRow
  <2>2. /\ Row(c, FALSE, roles[c]) \in Rows /\ Row(c, FALSE, roles[c]).camera = c
        /\ Row(c, FALSE, roles[c]).roles = roles[c]
    BY <1>1 DEF Row, Rows
  <2> QED BY <1>3, <2>1, <2>2
<1> QED BY <1>2, <1>3

(* An enabled camera in the scope of a mode fits it now.                   *)
LEMMA FitsNow ==
  ASSUME ManagerTypeOK, NEW rows, UpToDate(rows), NEW m \in Modes, NEW v \in 0..MaxVersion,
         NEW c \in enabled, c \in InScope(m),
         m = "all" /\ v \in GateOff => c \notin Carriers("entry_exit")
  PROVE  Fitted(c, m, v, rows)
<1>1. c \in Registered
  BY DEF ManagerTypeOK
<1>2. CurrentRow(c) \in rows
  BY <1>1 DEF UpToDate
<1>3. /\ CurrentRow(c).camera = c /\ CurrentRow(c).roles = roles[c]
      /\ CurrentRow(c).enabled = TRUE
  BY <1>1, CurrentRowFacts
<1>4. m \in Roles => m \in roles[c]
  <2>1. m \in Roles => m # "all"
    BY DEF Roles
  <2> QED BY <2>1 DEF InScope, Carriers
<1>5. m = "all" /\ v \in GateOff => "entry_exit" \notin roles[c]
  BY <1>1 DEF Carriers
<1>6. Fits(CurrentRow(c), m, v)
  BY <1>3, <1>4, <1>5 DEF Fits
<1> QED BY <1>2, <1>3, <1>6 DEF Fitted

(* Witnessing more rows disturbs no plan.                                  *)
LEMMA MoreWitnessed ==
  ASSUME NEW k \in Calls, NEW row \in Rows, PlanOf(k)
  PROVE  /\ [k EXCEPT !.seen = @ \union {row}] \in Calls
         /\ PlanOf([k EXCEPT !.seen = @ \union {row}])
         /\ [k EXCEPT !.seen = @ \union {row}].seen = k.seen \union {row}
<1> DEFINE more == [k EXCEPT !.seen = @ \union {row}]
<1>1. /\ more \in Calls /\ more.seen = k.seen \union {row}
      /\ more.ids = k.ids /\ more.cameras = k.cameras
      /\ more.scope = k.scope /\ more.built = k.built
  BY DEF Calls
<1> HIDE DEF more
<1>2. \A c, m, v : Fitted(c, m, v, k.seen) => Fitted(c, m, v, more.seen)
  BY <1>1 DEF Fitted
<1>3. PlanOf(more)
  BY <1>1, <1>2 DEF PlanOf
<1> QED BY <1>1, <1>3 DEF more

(* A call that begins has no plan yet, and one that is over has none.      *)
LEMMA FreshCall ==
  ASSUME ManagerTypeOK, NEW m \in Modes
  PROVE  /\ NoCall \in Calls /\ PlanOf(NoCall)
         /\ [NoCall EXCEPT !.scope = m, !.seen = Registry] \in Calls
         /\ PlanOf([NoCall EXCEPT !.scope = m, !.seen = Registry])
         /\ [NoCall EXCEPT !.seen = Registry] \in Calls
         /\ PlanOf([NoCall EXCEPT !.seen = Registry])
         /\ [NoCall EXCEPT !.seen = Registry].seen = Registry
         /\ [NoCall EXCEPT !.scope = m, !.seen = Registry].seen = Registry
         /\ UpToDate(Registry)
<1>1. Registry \subseteq Rows
  BY CurrentRowFacts DEF Registry
<1>2. 0 \in 0..MaxVersion /\ "all" \in Modes
  BY ManagerAssumption DEF Modes
<1> HIDE DEF Registry
<1>3. /\ NoCall \in Calls
      /\ [NoCall EXCEPT !.scope = m, !.seen = Registry] \in Calls
      /\ [NoCall EXCEPT !.seen = Registry] \in Calls
  BY <1>1, <1>2 DEF NoCall, Calls
<1>4. /\ PlanOf(NoCall) /\ PlanOf([NoCall EXCEPT !.scope = m, !.seen = Registry])
      /\ PlanOf([NoCall EXCEPT !.seen = Registry])
  BY DEF NoCall, PlanOf
<1>5. /\ [NoCall EXCEPT !.scope = m, !.seen = Registry].seen = Registry
      /\ [NoCall EXCEPT !.seen = Registry].seen = Registry
  BY DEF NoCall
<1>6. UpToDate(Registry)
  BY DEF UpToDate, Registry
<1> QED BY <1>3, <1>4, <1>5, <1>6

(* A step of one call leaves the plans of the others alone.                *)
LEMMA PlansKept ==
  ASSUME Planned, enabled' = enabled, roles' = roles, NEW p \in Callers,
         \A q \in Callers \ {p} : call'[q] = call[q] /\ pc'[q] = pc[q],
         PlanOf(call'[p]), pc'[p] # "idle" => UpToDate(call'[p].seen)
  PROVE  Planned'
<1>1. \A rows : UpToDate(rows) => \A c \in Registered : CurrentRow(c)' \in rows
  BY DEF UpToDate, CurrentRow
<1>2. ASSUME NEW q \in Callers
      PROVE  PlanOf(call'[q]) /\ (pc'[q] # "idle" => UpToDate(call'[q].seen))
  BY DEF Planned
<1> QED BY <1>1, <1>2 DEF Planned, UpToDate, PlanOf

(* Stopping the old engine leaves the leaked pipelines and no others.      *)
LEMMA OldEngineStops ==
  ASSUME ManagerInv
  PROVE  /\ AfterOldEngine \in [Registered -> Nat]
         /\ \A c \in Registered : AfterOldEngine[c] = leaked[c]
BY DEF ManagerInv, ManagerTypeOK, OneEngine, AfterOldEngine

(* get_settings() keeps the cache and the pending reads typed.             *)
LEMMA SettingsType ==
  ASSUME ManagerTypeOK, NEW p \in Callers, NEW v \in 0..MaxVersion, GetSettings(p, v)
  PROVE  /\ cache' \subseteq 0..MaxVersion
         /\ reading' \in [Callers -> SUBSET (0..MaxVersion)]
BY DEF ManagerTypeOK, GetSettings

(* Editing the configuration disturbs no call.                             *)
LEMMA EditStep == ManagerInv /\ Edit => ManagerInv'
<1> SUFFICES ASSUME ManagerInv, Edit PROVE ManagerInv'
  OBVIOUS
<1> USE ManagerAssumption DEF ManagerInv, live
<1>1. ManagerTypeOK'
  BY DEF ManagerTypeOK, Edit
<1>2. Planned'
  BY DEF Planned, UpToDate, CurrentRow, Edit
<1> QED
  BY <1>1, <1>2 DEF OneEngine, LockInv, ModeTellsScope, Edit

(* Nor does a PATCH: who is inside a call witnesses the new row.           *)
LEMMA PatchStep ==
  ASSUME ManagerInv, NEW c \in Registered, UpdateCamera(c) PROVE ManagerInv'
<1> USE ManagerAssumption DEF ManagerInv, live
<1>1. PICK on \in BOOLEAN, R \in SUBSET Roles :
        /\ patches' = patches \/ (patches < MaxPatches /\ patches' = patches + 1)
        /\ enabled' = IF on THEN enabled \union {c} ELSE enabled \ {c}
        /\ roles' = [roles EXCEPT ![c] = R]
        /\ call' = Witness(Row(c, on, R))
  <2>1. RoleSets \union {roles[c]} \subseteq SUBSET Roles
    BY DEF ManagerTypeOK
  <2> QED BY <2>1 DEF UpdateCamera
<1>2. UNCHANGED <<version, cache, lock, engine, engineUp, engineCfg, witnessed, mode, running,
                  leaked, pc, reading>>
  BY DEF UpdateCamera
<1>3. Row(c, on, R) \in Rows
  BY RowFacts
<1>6. ASSUME NEW d \in Registered PROVE CurrentRow(d)' \in {CurrentRow(d), Row(c, on, R)}
  <2>1. CASE d = c
    <3>1. (c \in enabled' <=> on) /\ roles'[c] = R
      BY <1>1 DEF ManagerTypeOK
    <3>2. CASE on
      <4>1. CurrentRow(c)' = Row(c, TRUE, R) /\ Row(c, on, R) = Row(c, TRUE, R)
        BY <3>1, <3>2 DEF CurrentRow, Row
      <4> QED BY <2>1, <4>1
    <3>3. CASE ~on
      <4>1. CurrentRow(c)' = Row(c, FALSE, R) /\ Row(c, on, R) = Row(c, FALSE, R)
        BY <3>1, <3>3 DEF CurrentRow, Row
      <4> QED BY <2>1, <4>1
    <3> QED BY <3>2, <3>3
  <2>2. CASE d # c
    <3>1. (d \in enabled' <=> d \in enabled) /\ roles'[d] = roles[d]
      BY <1>1, <2>2 DEF ManagerTypeOK
    <3>2. CurrentRow(d)' = CurrentRow(d)
      BY <3>1 DEF CurrentRow, Row
    <3> QED BY <3>2
  <2> QED BY <2>1, <2>2
<1> DEFINE row == Row(c, on, R)
<1>8. row \in Rows /\ call' = Witness(row)
  BY <1>1, <1>3
<1>9. \A d \in Registered : CurrentRow(d)' \in {CurrentRow(d), row}
  BY <1>6
<1> HIDE DEF row
<1>4. ASSUME NEW p \in Callers
      PROVE  /\ call'[p] \in Calls /\ PlanOf(call'[p])
             /\ pc[p] # "idle" => call'[p].seen = call[p].seen \union {row}
  <2>1. call[p] \in Calls /\ PlanOf(call[p])
    BY DEF ManagerTypeOK, Planned
  <2>2. call'[p] = IF pc[p] = "idle" THEN call[p]
                   ELSE [call[p] EXCEPT !.seen = @ \union {row}]
    BY <1>8 DEF Witness
  <2> QED BY <1>8, <2>1, <2>2, MoreWitnessed
<1>5. ManagerTypeOK'
  <2>1. call' \in [Callers -> Calls]
    BY <1>4, <1>8 DEF Witness
  <2>2. /\ enabled' \subseteq Registered /\ roles' \in [Registered -> SUBSET Roles]
        /\ patches' \in 0..MaxPatches
    BY <1>1 DEF ManagerTypeOK
  <2> QED BY <1>2, <2>1, <2>2 DEF ManagerTypeOK
<1>7. Planned'
  <2>1. ASSUME NEW p \in Callers, pc[p] # "idle"
        PROVE  \A d \in Registered : CurrentRow(d)' \in call'[p].seen
    <3>1. UpToDate(call[p].seen) /\ call'[p].seen = call[p].seen \union {row}
      BY <1>4, <2>1 DEF Planned
    <3> QED BY <1>9, <3>1 DEF UpToDate
  <2>2. pc' = pc
    BY <1>2
  <2> QED BY <1>4, <2>1, <2>2 DEF Planned, PlanOf, UpToDate
<1> QED
  BY <1>2, <1>5, <1>7 DEF OneEngine, LockInv, ModeTellsScope

(* The steps of a call outside the lock.                                   *)
LEMMA OutsideStep ==
  ASSUME ManagerInv, NEW p \in Callers,
         \/ Miss(p) \/ (\E m \in Modes : Switch(p, m)) \/ Guard(p)
         \/ Resolve(p) \/ Reset(p)
  PROVE  ManagerInv'
<1> USE ManagerAssumption DEF ManagerInv, live, config
<1>0. /\ call \in [Callers -> Calls] /\ PlanOf(call[p])
      /\ pc \in [Callers -> {"idle", "guard", "resolve", "wait", "build", "start"}]
      /\ pc[p] # "idle" => UpToDate(call[p].seen)
  BY DEF ManagerTypeOK, Planned
<1>1. CASE Miss(p)
  <2>1. ManagerTypeOK'
    BY <1>1 DEF ManagerTypeOK, Miss
  <2>2. Planned'
    BY <1>1 DEF Planned, UpToDate, CurrentRow, Miss
  <2> QED BY <1>1, <2>1, <2>2 DEF OneEngine, LockInv, ModeTellsScope, Miss
<1>2. CASE \E m \in Modes : Switch(p, m)
  <2> PICK m \in Modes : Switch(p, m)
    BY <1>2
  <2> DEFINE fresh == [NoCall EXCEPT !.scope = m, !.seen = Registry]
  <2>0. /\ call' = [call EXCEPT ![p] = fresh] /\ fresh \in Calls /\ PlanOf(fresh)
        /\ fresh.seen = Registry /\ UpToDate(Registry)
    BY FreshCall DEF Switch
  <2> HIDE DEF fresh
  <2>1. ManagerTypeOK'
    <3>1. call' \in [Callers -> Calls]
      BY <1>0, <2>0
    <3> QED BY <3>1 DEF ManagerTypeOK, Switch, Modes, Roles
  <2>2. OneEngine' /\ ModeTellsScope'
    BY DEF OneEngine, ModeTellsScope, Switch
  <2>3. LockInv'
    BY DEF ManagerTypeOK, LockInv, Switch, Modes, Roles
  <2>4. Planned'
    <3>1. /\ enabled' = enabled /\ roles' = roles
          /\ \A q \in Callers \ {p} : call'[q] = call[q] /\ pc'[q] = pc[q]
      BY <1>0, <2>0 DEF Switch
    <3>2. call'[p] = fresh
      BY <1>0, <2>0
    <3> QED BY <2>0, <3>1, <3>2, PlansKept
  <2> QED BY <2>1, <2>2, <2>3, <2>4
<1>3. CASE Guard(p)
  <2> PICK v \in 0..MaxVersion : GetSettings(p, v)
    BY <1>3 DEF Guard
  <2>0. \/ call' = [call EXCEPT ![p] = NoCall] /\ pc' = [pc EXCEPT ![p] = "idle"]
        \/ call' = call /\ pc' = [pc EXCEPT ![p] = "resolve"]
    BY <1>3 DEF Guard
  <2>1. ManagerTypeOK'
    <3>1. pc' \in [Callers -> {"idle", "guard", "resolve", "wait", "build", "start"}]
      BY <1>0, <2>0
    <3>2. call' \in [Callers -> Calls]
      <4>1. NoCall \in Calls
        BY FreshCall DEF Modes
      <4> QED BY <1>0, <2>0, <4>1
    <3> QED BY <1>3, <3>1, <3>2, SettingsType DEF ManagerTypeOK, Guard
  <2>2. OneEngine' /\ ModeTellsScope'
    BY <1>3 DEF OneEngine, ModeTellsScope, Guard
  <2>3. LockInv'
    BY <1>3 DEF ManagerTypeOK, LockInv, Guard
  <2>4. Planned'
    <3>1. /\ enabled' = enabled /\ roles' = roles
          /\ \A q \in Callers \ {p} : call'[q] = call[q] /\ pc'[q] = pc[q]
      BY <1>0, <1>3, <2>0 DEF Guard
    <3>2. PlanOf(NoCall) /\ pc[p] = "guard"
      BY <1>3, FreshCall DEF Modes, Guard
    <3>3. PlanOf(call'[p]) /\ (pc'[p] # "idle" => UpToDate(call'[p].seen))
      BY <1>0, <2>0, <3>2
    <3> QED BY <3>1, <3>3, PlansKept
  <2> QED BY <2>1, <2>2, <2>3, <2>4
<1>4. CASE Resolve(p)
  <2> PICK v \in 0..MaxVersion : GetSettings(p, v)
    BY <1>4 DEF Resolve
  <2> DEFINE found == enabled \intersect InScope(call[p].scope)
             resolved == [call[p] EXCEPT !.ids = found]
  <2>0. /\ call' = [call EXCEPT ![p] = resolved] /\ call[p] \in Calls /\ found \subseteq Registered
        /\ pc' = [pc EXCEPT ![p] = "wait"] /\ pc[p] = "resolve"
    BY <1>0, <1>4 DEF Resolve, ManagerTypeOK
  <2>5. /\ resolved \in Calls /\ resolved.ids = found /\ resolved.cameras = call[p].cameras
        /\ resolved.scope = call[p].scope /\ resolved.built = call[p].built
        /\ resolved.seen = call[p].seen
    BY <2>0 DEF Calls
  <2> HIDE DEF resolved
  <2>1. ManagerTypeOK'
    <3>1. call' \in [Callers -> Calls]
      BY <1>0, <2>0, <2>5
    <3> QED BY <1>4, <3>1, SettingsType DEF ManagerTypeOK, Resolve
  <2>2. OneEngine' /\ ModeTellsScope'
    BY <1>4 DEF OneEngine, ModeTellsScope, Resolve
  <2>3. LockInv'
    BY <1>4 DEF ManagerTypeOK, LockInv, Resolve
  <2>4. Planned'
    <3>1. /\ enabled' = enabled /\ roles' = roles
          /\ \A q \in Callers \ {p} : call'[q] = call[q] /\ pc'[q] = pc[q]
      BY <1>0, <1>4, <2>0 DEF Resolve
    <3>2. call[p].scope \in Modes /\ UpToDate(call[p].seen)
      BY <1>0, <2>0 DEF Calls
    <3>3. ASSUME call[p].scope # "all", NEW w \in 0..MaxVersion, NEW c \in found
          PROVE  Fitted(c, call[p].scope, w, call[p].seen)
      BY <3>2, <3>3, FitsNow
    <3>4. PlanOf(resolved)
      BY <1>0, <2>5, <3>2, <3>3 DEF PlanOf
    <3>5. call'[p] = resolved
      BY <1>0, <2>0
    <3> QED BY <2>5, <3>1, <3>2, <3>4, <3>5, PlansKept
  <2> QED BY <2>1, <2>2, <2>3, <2>4
<1>5. CASE Reset(p)
  <2> DEFINE fresh == [NoCall EXCEPT !.seen = Registry]
  <2>0. /\ call' = [call EXCEPT ![p] = fresh] /\ fresh \in Calls /\ PlanOf(fresh)
        /\ fresh.seen = Registry /\ UpToDate(Registry)
    BY <1>5, FreshCall DEF Reset, Modes
  <2> HIDE DEF fresh
  <2>1. ManagerTypeOK'
    <3>1. call' \in [Callers -> Calls]
      BY <1>0, <2>0
    <3> QED BY <1>5, <3>1 DEF ManagerTypeOK, Reset
  <2>2. OneEngine' /\ ModeTellsScope'
    BY <1>5 DEF OneEngine, ModeTellsScope, Reset
  <2>3. LockInv'
    BY <1>5 DEF ManagerTypeOK, LockInv, Reset
  <2>4. Planned'
    <3>1. /\ enabled' = enabled /\ roles' = roles
          /\ \A q \in Callers \ {p} : call'[q] = call[q] /\ pc'[q] = pc[q]
      BY <1>0, <1>5, <2>0 DEF Reset
    <3>2. call'[p] = fresh
      BY <1>0, <2>0
    <3> QED BY <2>0, <3>1, <3>2, PlansKept
  <2> QED BY <2>1, <2>2, <2>3, <2>4
<1> QED
  BY <1>1, <1>2, <1>3, <1>4, <1>5

(* The steps of a call under the lock, or on its way out of an exception.  *)
LEMMA InsideStep ==
  ASSUME ManagerInv, NEW p \in Callers,
         StopOld(p) \/ Build(p) \/ CallRaises(p) \/ Start(p) \/ StartFails(p) \/ Stop(p)
  PROVE  ManagerInv'
<1> USE ManagerAssumption DEF ManagerInv, live, config, Release
<1>0. /\ call \in [Callers -> Calls] /\ PlanOf(call[p])
      /\ pc \in [Callers -> {"idle", "guard", "resolve", "wait", "build", "start"}]
      /\ pc[p] # "idle" => UpToDate(call[p].seen)
      /\ NoCall \in Calls /\ PlanOf(NoCall) /\ 0 \in 0..MaxVersion
  <2>1. NoCall \in Calls /\ PlanOf(NoCall)
    BY FreshCall DEF Modes
  <2> QED BY <2>1 DEF ManagerTypeOK, Planned
<1>1. CASE StopOld(p)
  <2>1. ManagerTypeOK'
    BY <1>0, <1>1, OldEngineStops DEF ManagerTypeOK, StopOld, Lock, EngineGone
  <2>2. OneEngine'
    BY <1>1, OldEngineStops DEF ManagerTypeOK, OneEngine, StopOld, EngineGone
  <2>3. LockInv'
    BY <1>1 DEF ManagerTypeOK, LockInv, StopOld, Lock, EngineGone
  <2>4. Planned'
    <3>1. /\ enabled' = enabled /\ roles' = roles /\ call' = call /\ pc[p] = "wait"
          /\ \A q \in Callers \ {p} : pc'[q] = pc[q]
      BY <1>0, <1>1 DEF StopOld
    <3> QED BY <1>0, <3>1, PlansKept
  <2>5. ModeTellsScope'
    BY <1>1 DEF ModeTellsScope, StopOld, EngineGone
  <2> QED BY <2>1, <2>2, <2>3, <2>4, <2>5
<1>2. CASE Build(p)
  <2> PICK v \in 0..MaxVersion : \E usable \in Loadable(p, v) :
        /\ GetSettings(p, v)
        /\ call' = [call EXCEPT ![p] = [@ EXCEPT !.cameras = usable, !.built = v]]
    BY <1>2 DEF Build
  <2> PICK usable \in Loadable(p, v) :
        /\ GetSettings(p, v)
        /\ call' = [call EXCEPT ![p] = [@ EXCEPT !.cameras = usable, !.built = v]]
    OBVIOUS
  <2>0. /\ pc[p] = "build" /\ UpToDate(call[p].seen) /\ call[p] \in Calls
        /\ call[p].scope \in Modes /\ call[p].ids \subseteq Registered
        /\ enabled \subseteq Registered
    BY <1>0, <1>2 DEF Build, Calls, ManagerTypeOK
  <2>1. usable \subseteq Registered /\ \A c \in usable : Fitted(c, call[p].scope, v, call[p].seen)
    <3>1. CASE call[p].scope # "all"
      <4>1. usable \subseteq call[p].ids
        BY <3>1 DEF TargetCameras, Loadable
      <4> QED BY <1>0, <2>0, <3>1, <4>1 DEF PlanOf
    <3>2. CASE call[p].scope = "all"
      <4>1. /\ usable \subseteq enabled
            /\ v \in GateOff => usable \intersect Carriers("entry_exit") = {}
        BY <3>2 DEF TargetCameras, Loadable
      <4>2. \A c \in usable : c \in enabled /\ c \in InScope("all")
        BY <2>0, <4>1 DEF InScope
      <4>3. ASSUME NEW c \in usable PROVE Fitted(c, call[p].scope, v, call[p].seen)
        <5>1. v \in GateOff => c \notin Carriers("entry_exit")
          BY <4>1
        <5> QED BY <2>0, <3>2, <4>2, <5>1, FitsNow
      <4> QED BY <2>0, <4>1, <4>3
    <3> QED BY <3>1, <3>2
  <2> DEFINE planned == [call[p] EXCEPT !.cameras = usable, !.built = v]
  <2>2. call' = [call EXCEPT ![p] = planned]
    OBVIOUS
  <2>3. /\ planned \in Calls /\ planned.seen = call[p].seen
        /\ planned.cameras = usable /\ planned.built = v
        /\ planned.ids = call[p].ids /\ planned.scope = call[p].scope
    BY <2>0, <2>1 DEF Calls
  <2> HIDE DEF planned
  <2>4. ManagerTypeOK'
    <3>1. call' \in [Callers -> Calls]
      BY <1>0, <2>2, <2>3
    <3>2. pc' \in [Callers -> {"idle", "guard", "resolve", "wait", "build", "start"}]
      BY <1>2 DEF ManagerTypeOK, Build
    <3> QED BY <1>2, <3>1, <3>2, SettingsType DEF ManagerTypeOK, Build
  <2>5. OneEngine' /\ ModeTellsScope'
    BY <1>2 DEF OneEngine, ModeTellsScope, Build
  <2>6. LockInv'
    BY <1>2 DEF ManagerTypeOK, LockInv, Build
  <2>7. Planned'
    <3>1. /\ enabled' = enabled /\ roles' = roles
          /\ \A q \in Callers \ {p} : call'[q] = call[q] /\ pc'[q] = pc[q]
      BY <1>0, <1>2, <2>2 DEF Build
    <3>2. PlanOf(planned)
      BY <1>0, <2>1, <2>3 DEF PlanOf
    <3>3. call'[p] = planned
      BY <1>0, <2>2
    <3> QED BY <2>0, <2>3, <3>1, <3>2, <3>3, PlansKept
  <2> QED BY <2>4, <2>5, <2>6, <2>7
<1>7. ASSUME call' = [call EXCEPT ![p] = NoCall], pc' = [pc EXCEPT ![p] = "idle"],
             enabled' = enabled, roles' = roles
      PROVE  Planned' /\ call' \in [Callers -> Calls]
  <2>1. \A q \in Callers \ {p} : call'[q] = call[q] /\ pc'[q] = pc[q]
    BY <1>0, <1>7
  <2>2. call'[p] = NoCall /\ pc'[p] = "idle"
    BY <1>0, <1>7
  <2> QED BY <1>0, <1>7, <2>1, <2>2, PlansKept
<1>3. CASE CallRaises(p)
  <2>1. Planned' /\ call' \in [Callers -> Calls]
    BY <1>3, <1>7 DEF CallRaises
  <2>2. ManagerTypeOK'
    BY <1>3, <2>1 DEF ManagerTypeOK, CallRaises
  <2>3. OneEngine' /\ ModeTellsScope'
    BY <1>3 DEF OneEngine, ModeTellsScope, CallRaises
  <2>4. LockInv'
    BY <1>3 DEF ManagerTypeOK, LockInv, CallRaises
  <2> QED BY <2>1, <2>2, <2>3, <2>4
<1>4. CASE Start(p)
  <2>1. lock = p /\ engine = {}
    BY <1>4 DEF LockInv, Start
  <2>2. Planned' /\ call' \in [Callers -> Calls]
    BY <1>4, <1>7 DEF Start
  <2>3. /\ call[p].cameras \subseteq Registered /\ call[p].seen \subseteq Rows
        /\ call[p].scope \in Modes /\ call[p].built \in 0..MaxVersion
    BY <1>0 DEF Calls
  <2>4. ManagerTypeOK'
    BY <1>4, <2>2, <2>3 DEF ManagerTypeOK, Start
  <2>5. OneEngine'
    BY <1>4, <2>1 DEF ManagerTypeOK, OneEngine, Start
  <2>6. ModeTellsScope'
    BY <1>0, <1>4, <2>3 DEF PlanOf, ModeTellsScope, Start
  <2>7. LockInv'
    BY <1>4, <2>1 DEF ManagerTypeOK, LockInv, Start
  <2> QED BY <2>2, <2>4, <2>5, <2>6, <2>7
<1>5. CASE StartFails(p)
  <2>1. lock = p /\ engine = {} /\ ~engineUp
    BY <1>5 DEF ManagerTypeOK, LockInv, StartFails
  <2>2. Planned' /\ call' \in [Callers -> Calls]
    BY <1>5, <1>7 DEF StartFails
  <2>3. ManagerTypeOK'
    BY <1>5, <2>2 DEF ManagerTypeOK, StartFails
  <2>4. OneEngine'
    BY <1>5, <2>1 DEF ManagerTypeOK, OneEngine, StartFails
  <2>5. ModeTellsScope' /\ LockInv'
    BY <1>5, <2>1 DEF ManagerTypeOK, LockInv, ModeTellsScope, StartFails
  <2> QED BY <2>2, <2>3, <2>4, <2>5
<1>6. CASE Stop(p)
  <2>1. ManagerTypeOK'
    BY <1>0, <1>6, OldEngineStops DEF ManagerTypeOK, Stop, EngineGone
  <2>2. OneEngine'
    BY <1>6, OldEngineStops DEF ManagerTypeOK, OneEngine, Stop, EngineGone
  <2>3. Planned'
    BY <1>6 DEF Planned, UpToDate, CurrentRow, Stop
  <2> QED BY <1>6, <2>1, <2>2, <2>3 DEF LockInv, ModeTellsScope, Stop, EngineGone
<1> QED
  BY <1>1, <1>2, <1>3, <1>4, <1>5, <1>6

-----------------------------------------------------------------------------
(* Every step of the manager keeps the inductive invariant.                *)
LEMMA ManagerStep == ManagerInv /\ [ManagerNext]_managerVars => ManagerInv'
<1> SUFFICES ASSUME ManagerInv, [ManagerNext]_managerVars PROVE ManagerInv'
  OBVIOUS
<1>1. CASE UNCHANGED managerVars
  <2>1. ManagerTypeOK'
    BY <1>1 DEF ManagerInv, ManagerTypeOK, managerVars, config, live
  <2>2. OneEngine' /\ LockInv' /\ ModeTellsScope'
    BY <1>1 DEF ManagerInv, OneEngine, LockInv, ModeTellsScope, managerVars, config, live
  <2>3. Planned'
    BY <1>1 DEF ManagerInv, Planned, UpToDate, CurrentRow, managerVars, config
  <2> QED BY <2>1, <2>2, <2>3 DEF ManagerInv
<1> QED
  BY <1>1, EditStep, PatchStep, OutsideStep, InsideStep DEF ManagerNext, Call, Proceed

(* The manager starts with nothing running and nobody inside.              *)
LEMMA InitManager == ManagerInit => ManagerInv
<1> SUFFICES ASSUME ManagerInit PROVE ManagerInv
  OBVIOUS
<1> USE ManagerAssumption DEF ManagerInit
<1>1. NoCall \in Calls /\ PlanOf(NoCall)
  <2>1. NoCall \in Calls
    BY DEF NoCall, Calls, Modes
  <2>2. PlanOf(NoCall)
    BY DEF NoCall, PlanOf
  <2> QED BY <2>1, <2>2
<1>2. ManagerTypeOK
  <2>1. 0 \in 0..MaxVersion /\ 0 \in 0..MaxPatches
    OBVIOUS
  <2> QED BY <1>1, <2>1 DEF ManagerTypeOK
<1>3. OneEngine /\ LockInv /\ ModeTellsScope
  BY DEF OneEngine, LockInv, ModeTellsScope
<1>4. Planned
  BY <1>1 DEF Planned
<1> QED
  BY <1>2, <1>3, <1>4 DEF ManagerInv

(* The variables of the manager keep their types; in particular no         *)
(* pipeline is stopped twice.                                              *)
THEOREM ManagerTypes == ManagerSpec => []ManagerTypeOK
<1>1. ManagerInv => ManagerTypeOK
  BY DEF ManagerInv
<1> QED
  BY <1>1, InitManager, ManagerStep, PTL DEF ManagerSpec

(* However many threads press however many buttons, and whatever fails:    *)
(* one engine.                                                             *)
THEOREM OneEngineEver == ManagerSpec => []OneEngine
<1>1. ManagerInv => OneEngine
  BY DEF ManagerInv
<1> QED
  BY <1>1, InitManager, ManagerStep, PTL DEF ManagerSpec

(* While an engine is up the mode tells what it runs, although guard and   *)
(* cameras were decided outside the lock and a PATCH may have changed what *)
(* they were decided on.                                                   *)
THEOREM ModeTellsScopeEver == ManagerSpec => []ModeTellsScope
<1>1. ManagerInv => ModeTellsScope
  BY DEF ManagerInv
<1> QED
  BY <1>1, InitManager, ManagerStep, PTL DEF ManagerSpec
=============================================================================
