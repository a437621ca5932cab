----------------------------- MODULE MCServices -----------------------------
(* What the threads of a process share: the engine's table of pipelines,   *)
(* the gallery of identities, the round timer and the Redis bus, each      *)
(* under a lock of its own.  None of them calls another, so a behaviour is *)
(* one of them at work; `part' says which. The bus is two parts, as its    *)
(* workers' publishes and its restarts together are too many states:       *)
(* in "redis" one worker publishes while buses are closed and started      *)
(* again, in "burst" two of a process publish and nobody closes.           *)
EXTENDS EngineSupervisor, RedisBus, SharedGallery, RoundTimer

(* Two workers of one process, and an API that is restarted beside them. *)
MCHome == [w \in Workers |-> "worker"]
MCMaxMessages == [w \in Workers |-> IF w = "cam1" THEN 2 ELSE 1]
MCMaxListeners == [p \in Procs |-> IF p = "worker" THEN 1 ELSE 2]

(* Two people who look alike, and one whose look varies. *)
MCLooksOf == [p \in People |-> IF p = "alone" THEN {0, 1} ELSE {3}]
MCSimilarity ==
  [a \in Looks |-> [b \in Looks |-> 10 - (IF a > b THEN a - b ELSE b - a)]]

VARIABLE part

BusParts == {"redis", "burst"}

servicesVars == <<part, vars, redisVars, galleryVars, roundVars>>

ServicesInit ==
  /\ part \in {"engine", "gallery", "rounds"} \union BusParts
  /\ Init /\ RedisInit /\ GalleryInit /\ RoundInit
  /\ part \notin BusParts => redis = "up"

ServicesNext ==
  /\ UNCHANGED part
  /\ \/ part = "engine" /\ Next /\ UNCHANGED <<redisVars, galleryVars, roundVars>>
     \/ /\ part \in BusParts /\ RedisNext /\ UNCHANGED <<vars, galleryVars, roundVars>>
        /\ part = "redis" => published'["cam2"] = 0
        /\ part = "burst" => \A p \in Procs : ~closing'[p]
     \/ part = "gallery" /\ GalleryNext /\ UNCHANGED <<vars, redisVars, roundVars>>
     \/ part = "rounds" /\ RoundNext /\ UNCHANGED <<vars, redisVars, galleryVars>>

(* The fairness of each part, while it is the one at work. *)
EngineOn(A) == part = "engine" /\ A
RedisOn(A)  == part \in BusParts /\ A
RoundsOn(A) == part = "rounds" /\ A

ServicesFairness ==
  /\ WF_vars(EngineOn(Supervise)) /\ WF_vars(EngineOn(JoinSupervisor \/ StopPipelines))
  /\ \A p \in Procs : \A g \in Generations(p) : WF_redisVars(RedisOn(ListenerStep(p, g)))
  /\ \A c \in ExpectedCameras : WF_roundVars(RoundsOn(Record(c)))

ServicesSpec == ServicesInit /\ [][ServicesNext]_servicesVars /\ ServicesFairness

(* RoundTimer's property, of the part that closes rounds: they go on closing
   whichever cameras fail, as long as one reports (round_timer.py:53). *)
RoundsOnClose == part = "rounds" => RoundsClose
=============================================================================
