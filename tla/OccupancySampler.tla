-------------------------- MODULE OccupancySampler ---------------------------
(***************************************************************************)
(* The occupancy sampler: a thread that samples the read model at 1 Hz and *)
(* writes a row per space and minute, the process around it that stops,    *)
(* crashes and restarts, and the read model it samples, which the cameras' *)
(* workers fill.                                                           *)
(*                                                                         *)
(* Time is the minute of the clock; the 60 samples of a minute are at most *)
(* MaxTicks.  MaxFaults bounds what goes wrong or changes from outside:    *)
(* failed transactions and reads, stops and crashes of the process, ends   *)
(* of workers, edits of zones.                                             *)
(***************************************************************************)
EXTENDS RollupRow

CONSTANTS Zones, Cameras, Spaces,
          CameraOf, SpaceOf,      \* zone -> camera, zone -> space
          Counts,                 \* the people counts of a zone
          MaxMinute, MaxTicks, MaxFaults,
          None

ASSUME SamplerConstants ==
    /\ CameraOf \in [Zones -> Cameras] /\ SpaceOf \in [Zones -> Spaces]
    /\ IsFiniteSet(Zones)
    /\ Counts \subseteq Nat
    /\ MaxMinute \in Nat /\ MaxTicks \in Nat /\ MaxFaults \in Nat
    /\ None \notin Int /\ None \notin BOOLEAN

Minutes == 0 .. MaxMinute
Keys    == Spaces \X Minutes

VARIABLES
    \* the clock, and the samples begun in this minute
    now, ticks,
    \* the database: the zones with a space, and the table of minutes
    assigned, minutes,
    \* the read model: zone -> count or None, the cameras with a healthy record
    occupancy, healthy,
    \* the minute in which the camera's worker ended, None while it runs
    ended,
    \* the process: its main thread, the stop flag
    main, stopping,
    \* the sampler thread: where it is in tick(), and the minute the tick is for
    pc, at,
    \* _zone_map, _map_loaded_at, _buckets, _bucket_ts
    zoneMap, mapAt, buckets, bucketTs,
    \* the rows of a _flush() in flight, of the thread and of the main thread
    writing, closing,
    \* ghosts: every sample taken, the keys that lost some, faults so far
    taken, lost, faults

clock   == <<now, ticks>>
db      == <<assigned, minutes>>
store   == <<occupancy, healthy, ended>>
process == <<main, stopping>>
thread  == <<pc, at>>
open    == <<buckets, bucketTs>>
map     == <<zoneMap, mapAt>>
vars    == <<clock, db, store, process, thread, map, open, writing, closing,
             taken, lost, faults>>

Init ==
    /\ now = 0 /\ ticks = 0
    /\ assigned = Zones /\ minutes = EmptyTable
    /\ occupancy = [z \in Zones |-> None]
    /\ healthy = {}
    /\ ended = [c \in Cameras |-> None]
    /\ main = "run" /\ stopping = FALSE
    /\ pc = "wait" /\ at = 0
    /\ zoneMap = {} /\ mapAt = None
    /\ buckets = EmptyTable /\ bucketTs = None
    /\ writing = EmptyTable /\ closing = EmptyTable
    /\ taken = EmptyTable /\ lost = {} /\ faults = 0

(***************************************************************************)
(* The clock, the zones and the workers.  The sampler reads the zones and  *)
(* the read model in one place each, so whatever changes there at any time *)
(* may as well change just before: these actions wait for that.            *)
(***************************************************************************)

Fault == faults < MaxFaults /\ faults' = faults + 1

Tick ==
    /\ now < MaxMinute
    /\ now' = now + 1 /\ ticks' = 0
    /\ UNCHANGED <<db, store, process, thread, map, open, writing, closing,
                   taken, lost, faults>>

(* A zone is deleted, or loses its space, or gets it back. *)
EditZone(z) ==
    /\ pc = "map" /\ Fault
    /\ assigned' = IF z \in assigned THEN assigned \ {z} ELSE assigned \cup {z}
    /\ UNCHANGED <<clock, minutes, store, process, thread, map, open, writing,
                   closing, taken, lost>>

(* The worker of a running camera publishes the count of a zone, when it changed. *)
Count(z, n) ==
    /\ pc = "sample" /\ ended[CameraOf[z]] = None
    /\ occupancy[z] # n
    /\ occupancy' = [occupancy EXCEPT ![z] = n]
    /\ UNCHANGED <<clock, db, healthy, ended, process, thread, map, open, writing,
                   closing, taken, lost, faults>>

(* It publishes its health: a fresh feed, or a silent one. *)
Heartbeat(c, ok) ==
    /\ pc = "sample" /\ ended[c] = None
    /\ healthy' = IF ok THEN healthy \cup {c} ELSE healthy \ {c}
    /\ UNCHANGED <<clock, db, occupancy, ended, process, thread, map, open, writing,
                   closing, taken, lost, faults>>

(* It ends, with its engine or alone: the records it published stay. *)
WorkerEnds(c) ==
    /\ pc = "sample" /\ ended[c] = None /\ Fault
    /\ ended' = [ended EXCEPT ![c] = now]
    /\ UNCHANGED <<clock, db, occupancy, healthy, process, thread, map, open, writing,
                   closing, taken, lost>>

(***************************************************************************)
(* tick(), step by step: the flush of the minute before, the zone map, the *)
(* sample.  A step that raises ends the tick.                              *)
(***************************************************************************)

RolledOver == bucketTs # None /\ bucketTs # now

(* The rows of _flush(): an accumulator per space, for the minute of the buckets. *)
Rows == [k \in (DOMAIN buckets) \X {bucketTs} |-> buckets[k[1]]]

Wake ==
    /\ pc = "wait" /\ ~ stopping /\ main # "down"
    /\ ticks < MaxTicks /\ ticks' = ticks + 1
    /\ at' = now
    /\ IF RolledOver
       THEN /\ buckets' = EmptyTable
            /\ writing' = Rows
            /\ pc' = IF buckets = EmptyTable THEN "map" ELSE "flush"
            /\ bucketTs' = IF buckets = EmptyTable THEN now ELSE bucketTs
       ELSE /\ pc' = "map" /\ bucketTs' = now
            /\ UNCHANGED <<buckets, writing>>
    /\ UNCHANGED <<now, db, store, process, map, closing, taken, lost, faults>>

FlushCommits_Overwrites ==
    /\ pc = "flush"
    /\ minutes' = Overwrite(minutes, writing)
    /\ writing' = EmptyTable
    /\ bucketTs' = at /\ pc' = "map"
    /\ UNCHANGED <<clock, assigned, store, process, at, map, buckets, closing,
                   taken, lost, faults>>

FlushCommits ==
    /\ pc = "flush"
    /\ minutes' = Fold(minutes, writing)
    /\ writing' = EmptyTable
    /\ bucketTs' = at /\ pc' = "map"
    /\ UNCHANGED <<clock, assigned, store, process, at, map, buckets, closing,
                   taken, lost, faults>>

(* The transaction is rolled back; bucketTs keeps the old minute. *)
FlushFails ==
    /\ pc = "flush" /\ Fault
    /\ lost' = lost \cup DOMAIN writing
    /\ writing' = EmptyTable
    /\ pc' = "wait"
    /\ UNCHANGED <<clock, db, store, process, at, map, open, closing, taken>>

(* 60 s passed since the last load: surely so two minutes later, surely not
   within the minute. *)
MapDue(due) ==
    IF mapAt = None THEN due
    ELSE IF at - mapAt = 1 THEN due \in BOOLEAN ELSE due = (at > mapAt)

RefreshZoneMap ==
    /\ pc = "map"
    /\ \E due \in BOOLEAN :
         /\ MapDue(due)
         /\ IF due THEN zoneMap' = assigned /\ mapAt' = at ELSE UNCHANGED map
    /\ pc' = "sample"
    /\ UNCHANGED <<clock, db, store, process, at, open, writing, closing,
                   taken, lost, faults>>

(* The map cannot be loaded, or the read model cannot be read. *)
TickFails ==
    /\ pc \in {"map", "sample"} /\ Fault
    /\ pc' = "wait"
    /\ UNCHANGED <<clock, db, store, process, at, map, open, writing, closing,
                   taken, lost>>

Seen      == {z \in zoneMap : occupancy[z] # None}
SeenBy(s) == {CameraOf[z] : z \in {y \in Seen : SpaceOf[y] = s}}
LiveIn(s) == SeenBy(s) \cap healthy
Summed(s) == {z \in Seen : SpaceOf[z] = s /\ CameraOf[z] \in healthy}

(* One sample per space that some healthy camera sees: none for a blind one. *)
Samples ==
    [s \in {r \in Spaces : LiveIn(r) # {}} |->
        Sample(MapThenSumSet(LAMBDA z : occupancy[z], Summed(s)),
               Cardinality(LiveIn(s)), Cardinality(SeenBy(s)))]

TakeSample ==
    /\ pc = "sample"
    /\ buckets' = Fold(buckets, Samples)
    /\ taken' = Fold(taken, [k \in (DOMAIN Samples) \X {at} |-> Samples[k[1]]])
    /\ pc' = "wait"
    /\ UNCHANGED <<clock, db, store, process, at, map, bucketTs, writing, closing,
                   lost, faults>>

(* The stop flag ends the loop between two ticks. *)
Exit ==
    /\ pc = "wait" /\ stopping
    /\ pc' = "off"
    /\ UNCHANGED <<clock, db, store, process, at, map, open, writing, closing,
                   taken, lost, faults>>

(***************************************************************************)
(* The process: stop() joins the thread for five seconds and flushes what  *)
(* is open; then, or at a crash, everything in memory is gone.             *)
(***************************************************************************)

Stop ==
    /\ main = "run" /\ Fault
    /\ main' = "join" /\ stopping' = TRUE
    /\ UNCHANGED <<clock, db, store, thread, map, open, writing, closing,
                   taken, lost>>

(* The join returns because the thread ended, or because it is stuck. *)
CloseFlush ==
    /\ main = "join" /\ pc # "wait"
    /\ closing' = Rows
    /\ buckets' = EmptyTable
    /\ main' = "flush"
    /\ UNCHANGED <<clock, db, store, stopping, thread, map, bucketTs, writing,
                   taken, lost, faults>>

CloseCommits ==
    /\ main = "flush"
    /\ minutes' = Fold(minutes, closing)
    /\ closing' = EmptyTable
    /\ main' = "closed"
    /\ UNCHANGED <<clock, assigned, store, stopping, thread, map, open, writing,
                   taken, lost, faults>>

(* The keys whose samples are in memory only. *)
Unwritten == DOMAIN Rows \cup DOMAIN writing \cup DOMAIN closing

(* The process ends, after stop() or in a crash.  The daemon thread ends with
   it, and so does a transaction in flight. *)
ProcessEnds ==
    /\ main # "down"
    /\ main = "closed" \/ faults < MaxFaults
    /\ faults' = IF main = "closed" THEN faults ELSE faults + 1
    /\ main' = "down" /\ stopping' = FALSE
    /\ pc' = "off"
    /\ lost' = lost \cup Unwritten
    /\ zoneMap' = {} /\ mapAt' = None
    /\ buckets' = EmptyTable /\ bucketTs' = None
    /\ writing' = EmptyTable /\ closing' = EmptyTable
    /\ occupancy' = [z \in Zones |-> None]
    /\ healthy' = {}
    /\ ended' = [c \in Cameras |-> IF ended[c] = None THEN now ELSE ended[c]]
    /\ UNCHANGED <<clock, db, at, taken>>

(* A new process, with an empty read model, and its workers. *)
ProcessStarts ==
    /\ main = "down"
    /\ main' = "run" /\ pc' = "wait"
    /\ ended' = [c \in Cameras |-> None]
    /\ UNCHANGED <<clock, db, occupancy, healthy, stopping, at, map, open, writing,
                   closing, taken, lost, faults>>

Thread == Wake \/ FlushCommits \/ FlushFails \/ RefreshZoneMap \/ TickFails
          \/ TakeSample \/ Exit
Process == Stop \/ CloseFlush \/ CloseCommits \/ ProcessEnds \/ ProcessStarts
Camera == \/ \E z \in Zones, n \in Counts : Count(z, n)
          \/ \E c \in Cameras : WorkerEnds(c) \/ \E ok \in BOOLEAN : Heartbeat(c, ok)

Next == Tick \/ Thread \/ Process \/ Camera \/ \E z \in Zones : EditZone(z)

Spec == Init /\ [][Next]_vars

------------------------------------------------------------------------------
(* The table of minutes as it would be with all that is still in memory. *)
Everything == Fold(Fold(Fold(minutes, writing), closing), Rows)

TypeOK ==
    /\ now \in Minutes /\ ticks \in 0 .. MaxTicks /\ at \in Minutes
    /\ assigned \subseteq Zones /\ zoneMap \subseteq Zones
    /\ mapAt \in Minutes \cup {None} /\ bucketTs \in Minutes \cup {None}
    /\ occupancy \in [Zones -> Counts \cup {None}]
    /\ healthy \subseteq Cameras
    /\ ended \in [Cameras -> Minutes \cup {None}]
    /\ main \in {"run", "join", "flush", "closed", "down"} /\ stopping \in BOOLEAN
    /\ pc \in {"wait", "flush", "map", "sample", "off"}
    /\ DOMAIN buckets \subseteq Spaces /\ buckets \in [DOMAIN buckets -> Row]
    /\ \A table \in {minutes, writing, closing, taken} :
         DOMAIN table \subseteq Keys /\ table \in [DOMAIN table -> Row]
    /\ lost \subseteq Keys /\ faults \in 0 .. MaxFaults
    /\ buckets # EmptyTable => bucketTs # None

(* Every sample is accounted for, once: through flushes, failed writes, a stop in
   the middle of a minute and the process that takes the minute up again, a row
   never holds a sample twice, nor a sample of another minute; and only a failed
   write or a lost process leaves samples out.  A minute nobody saw has no row. *)
Exact ==
    /\ DOMAIN Everything \subseteq DOMAIN taken
    /\ \A k \in DOMAIN Everything : Everything[k].n <= taken[k].n
    /\ \A k \in DOMAIN taken \ lost : k \in DOMAIN Everything /\ Everything[k] = taken[k]

(* Whoever reads the table sees rows arrive in the order of time: the sampler
   implements the abstract series, with the newest minute of the table for its
   newest minute. *)
Newest == IF minutes = EmptyTable THEN -1 ELSE Max({k[2] : k \in DOMAIN minutes})

Series == INSTANCE MinuteSeries WITH newest <- Newest

ImplementsSeries == Series!SeriesSpec

(* A minute is in the table, unless its write failed or its process was lost,
   before a later one is sampled and once the process is gone. *)
Written ==
    \A k \in DOMAIN taken :
        main = "down" \/ (pc = "sample" /\ k[2] < at) => k \in DOMAIN minutes \cup lost

(* occupancy_sampler.py:24-25: "A dead camera's last count would otherwise sit in
   the read model forever, silently frozen. Only zones whose camera is currently
   healthy are summed": no sample counts a camera whose worker has been gone for
   a whole minute. *)
NoFrozenCount ==
    [][TakeSample => \A s \in Spaces : \A z \in Summed(s) :
           ended[CameraOf[z]] = None \/ ended[CameraOf[z]] >= at - 1]_vars
==============================================================================
