# Verification of the crowd-management backend

TLA+ models of the parts of this repository that run concurrently, fail, or keep
history from one frame, minute, request or restart to the next; the TLC runs that
check them; and TLAPS proofs of what they have most to get right. Every definition
that stands for code is listed in `PROJECT.json` under `map`, with the lines it stands
for; `hazards` lists what can go wrong there and which property watches it.

1. [The system](#1-the-system)
2. [Modules](#2-modules)
3. [Runs, bounds, fairness](#3-runs-bounds-fairness)
4. [Proofs](#4-proofs)
5. [Findings](#5-findings)
6. [What is not modelled](#6-what-is-not-modelled)
7. [Plan](#7-plan)

## 1. The system

The backend turns cameras into people counts. Per camera, a **pipeline** pulls
frames, detects and tracks people and publishes events; the **engine** holds the
pipelines and replaces the dead ones; the **engine manager** swaps engines over
HTTP. Events go over a **bus** to **projectors**, which write a read model and
the database, and to SSE clients. A **sampler** and a **history worker** turn the
read model into minute rows and hour rows. The **registry** keeps cameras, zones,
lines and configuration overrides; **queries** join all of it for the API; **tools**
draw zones and carry them into the registry.

    tools -> registry -> engine manager > engine > supervisor thread
                             |
    camera -> capture thread -> frame queue -> worker thread -> event bus (-> Redis bus)
                                                                  |
                                                     projectors, SSE clients
                                                                  |
    queries <- hour rows <- history worker <- minute rows <- sampler <- read model

| Part (under `src/app` unless said) | State | Operations | Hard about it |
|---|---|---|---|
| Frame queue `ingestion/frame_queue.py` | deque, drop counter, lock and condition | `put`, `get`, `get_latest`, `clear` | consumers of three kinds on one condition; overflow |
| Capture threads `ingestion/capture.py`, `clip_source.py` | source handle, backoff, last frame and emit times | open, read, reconnect, stop | failures of the source; a clock that is set back; joins that time out |
| Pipeline `engine/camera_pipeline.py` | stop event, two threads, last heartbeat | `start`, worker loop, heartbeat, `stop` | a worker that must report silence; two threads to stop |
| Zone presence `localisation/state_machine.py`, `zones.py` | streaks per zone and track | `update` | flicker, tracks that vanish |
| Line crossing `localisation/lines.py`, `geometry.py` | last point and misses per track | `update` | gaps, reused identities, the line's ends |
| Calculators `analytics/*.py` | last emitted counts, totals per area | `process`, `process_counts` | change-only emission against a bus that swallows errors |
| Re-identification `inference/reid.py` | gallery, next identity, lock | `assign_global_ids` | expiry by the time of late frames; one gallery for all cameras |
| Engine `engine/engine.py` | pipelines, backoff and restart time per camera | `start`, `stop`, supervise | a pass of the supervisor beside `stop()`; a `start()` that raises |
| Round timer `engine/round_timer.py` | who reported in the open round | `record` | cameras that never report |
| Engine manager `engine/manager.py` | engine, mode, lock | `switch`, `reset`, `stop` | decisions taken outside the lock |
| Bus, projectors, wiring `events/event_bus.py`, `services/projectors.py`, `runtime_wiring.py` | handlers, subscribers, queue of crossings | `publish`, `subscribe`, attach, detach | unsubscribe against a publish in flight; a stop that drains |
| Subscriptions, SSE `events/subscription.py`, `publish/sse.py` | callbacks, bounded queue, generator | `offer`, `aclose`, stream | slow clients, clients that leave early |
| Redis bus `events/redis_bus.py` | listener thread, stop flag, connection | `publish`, `subscribe`, `start`, `close` | outages; a close that gives up |
| State stores `services/state_store.py`, `redis_state_store.py` | last count per zone and area, last health per camera | set, get | entries outlive those who wrote them |
| Sampler `services/occupancy_sampler.py` | zone map, open minute, its accumulators | tick, flush, `stop` | partial minutes, failed writes, restarts |
| History worker `services/history_worker.py`, `retention.py` | last prune; the watermark is in the table | `run_once`, `prune_if_due` | late minutes, downtime, retention beside roll-up |
| Registry `services/camera_service.py`, repositories, routers | rows with foreign keys | requests | edits under a running engine |
| Configuration `config/*.py`, `services/config_service.py`, `credentials.py` | file, overrides, cached settings, key | `PUT /config`, reset | two copies of the truth; a key that changed |
| Queries `services/occupancy_service.py`, `entryexit_service.py`, `routers/*` | none | windows, buckets, days | boundaries, offsets, blind cameras |
| Tools `src/scripts/*.py`, `main.py` | the drawing, the file | draw, ingest, register, update, prune | names, repeated imports, order of start and stop |

What makes each of them correct:

- **Frame queue**: no packet vanishes uncounted, order holds, no consumer sleeps
  beside a packet; to its users it is a lossy stream that keeps the newest frame.
- **Pipeline**: one connection at most, silence is reported, `stop()` ends both
  threads, the newest frame is processed, a snapshot is never stale.
- **Analytics**: presence is a function of the last frames; crossings of a path
  add up to its side of the line; the read model equals the last frame although
  only changes are sent. Two people in a frame are two identities.
- **Engine**: one feed per camera, none after `stop()`, exponential backoff,
  every dead worker replaced; rounds go on closing.
- **Manager**: one engine, a mode that tells what it runs, a lock that comes back.
- **Events**: a row per crossing, in order, none lost by a stop; a slow client loses
  the oldest; handlers see an event once, and a listener comes back after an outage.
- **Sampler**: each sample in one row once, or lost with a failed write or a crash.
- **History**: an hour behind the watermark is exact, retention never eats a
  minute whose hour is not; windows, days and floors add up to what happened.
- **Registry and tools**: no orphaned row, no zone on two floors, one row per drawn
  shape however often it is imported.

## 2. Modules

| Module | Models | State and actions against the code |
|---|---|---|
| `LossyStream` | abstract | what a frame hand-off promises: any frame may be lost but the newest, at most `Depth` wait, receipts only get newer |
| `FrameQueue` | `BoundedFrameQueue` | `buffer`, `dropped` are the fields; `blocked`, `waiters`, `expired` are `threading.Condition`: who is inside `wait_for`, who is on its list, whose deadline passed. A lock-held section is one action; waking up is another, so a third thread can take the packet in between |
| `CameraPipeline` | both threads of a pipeline and the caller of `stop()` | instance of `FrameQueue` with one consumer; `source` is the kind of capture thread (RTSP, snapshot, clip); `capture`, `worker`, `stopper` are program counters; times are ages saturating at the threshold they are compared with, and below zero after the clock was set back |
| `ZonePresence` | `_TrackCounters`, `_advance_zone` | operators on the counters of one track in one zone |
| `LineCrossing` | `geometry.py` for lines, the memory of `LineCrossingDetector` | operators on integer points; shapely's `intersects` is external and given by sides of a line |
| `FrameAnalytics` | `_process_frame`, the calculators, the read model | extends the two above; a frame is one action, `TrackedFrame` or `DetectedFrame`, and each write to the read model may fail; `Restart` is a new pipeline with the old read model |
| `SharedGallery` | `ReIDManager` | a call is `BeginFrame` (lock, evict), `AssignOne` or `KeepUnembedded` per person, `EndFrame`; embeddings are members of a set with any similarity |
| `RoundTimer` | `RoundTimer` | `Record` is one call under its lock; `FetchesFail` is a camera that stops reporting |
| `EngineSupervisor` | `Engine` | `pipelines`, `feeds` (capture threads), `backoff`, `due` per camera; the supervisor's pass is `Poll`, then one action per `_check_runtime`; `stop()` is `SignalStop`, `JoinSupervisor`, `StopPipelines` |
| `EngineManager` | `EngineManager`, `get_settings` | per HTTP thread: guard, resolve, lock, build, start; a settings cache that loads outside its lock; `roles` and `enabled` are the cameras' rows, which `UpdateCamera` (a `PATCH`) may change between any two steps; `witnessed` (history) are the rows there were while the engine's switch ran |
| `EventStream` | `AsyncSubscription`, `sse_stream` | `callbacks` are the puts scheduled on the API loop, `pending` the bounded queue, `stream` where the generator is; `Abandon` is a client gone before the generator's `try` |
| `EventDelivery` | `InMemoryEventBus`, the projectors, `RuntimeWiring`, the order of things in `main.py` | extends `EventStream`; a publish copies the handlers and then calls them one action at a time; the projector's thread, its queue and `unfinished_tasks`; `close_sync()` in its steps |
| `RedisBus` | `RedisEventBus` in several processes, the Redis server as it uses it | per process `thread` and `stop`; per listener thread a program counter, whether it is subscribed, and what its connection holds; per camera worker `sending`: `PublishRedis` dispatches and `Send` sends, and those of two workers interleave; `RedisFails` and `RedisReturns` at any moment |
| `RollupRow` | `_SpaceAccumulator`, `upsert`, `_aggregate_to_hours` | rows and how they merge, aggregate and fold into a table |
| `MinuteSeries` | abstract | what readers of the minute table rely on: rows only arrive at the newest minute and only grow |
| `OccupancySampler` | sampler thread and the process around it | program counter through `tick()`: flush, map, sample; `writing` and `closing` are the rows of a flush in flight, of the thread and of `stop()` |
| `HistoryRollup` | `HistoryWorker`, `prune` | one turn of the loop: read (`RunOnce`), `Commit`, `Prune`, each may fail; the writer of minutes is `MinuteSeries` |
| `Registry` | cameras, zones, lines, overrides; their readers | a request is a transaction, an action; `engine` is the copy an engine was built from, `live` the read model it fills; `BuildEngine` may raise on a missing key; `OnFloor`, `BySpace` are the queries |
| `CrossingHistory` | table of crossings, entry/exit queries | rows arrive late, `PruneCrossings` deletes the old ones and `DeleteLineRows` those of a line or a camera's lines; window, bounds with a UTC offset, bucket and day are operators as in `_timeparse.py` and the service |
| `FloorHistory` | occupancy queries | rows per space and bucket, the sums per floor with `spaces_reporting` and `spaces_expected` |
| `ZoneEditor` | `draw_zones.py` | each mouse or key event is an action; `file` is what was saved |
| `ZoneFiles` | `ingest_drawn.py`, `register_zones.py`, `update_zones.py`, `prune_unassigned_zones.py` | extends `ZoneEditor`; `rows` are the camera's zones and lines |
| `MC*` | | bounded instances |
| `*Proofs` | | theorems, see section 4 |

Composition: `CameraPipeline` instantiates `FrameQueue`; `FrameQueue` is checked and
proved to implement `LossyStream` under

    sent <- produced,  received <- last,  waiting <- the numbers in buffer

`OccupancySampler` is checked and proved to implement `MinuteSeries` with `newest` mapped to the
newest minute in the table, and `HistoryRollup` uses `MinuteSeries` as its
environment: what it shows holds for the sampler, and for any other writer of that
kind. `EventDelivery` extends `EventStream`: the bus offers to subscriptions what it
hands to projectors. `ZoneFiles` extends `ZoneEditor` and `MCRecords` joins what
works on the database.

`MCServices` and `MCRecords` hold parts that share no state (each under a lock of its
own, or with tables of its own). A behaviour is one part at work, `part`, and the
others rest in one initial state: the states of the parts are added, not multiplied,
and their properties speak of each part as a specification of its own would.

Choices worth knowing:

- *Ghosts.* Variables marked "history" or "ghost" are read by properties and never
  by an action's guard, except where they carry a bound. In `FrameAnalytics`
  `ago`, `trail`, `present`, `crossed`, `shown` and `ledger` say in terms of frames alone
  what the code keeps counters for.
- *Places.* In `FrameAnalytics` a track stands at a point, which decides the zones it
  is a member of; polygons and overlap ratios are behind `ZonesAt`. `Zones` are the
  occupancy zones, the only ones a calculator publishes. The worker is the
  only thread that touches the collaborators, so a frame is one step.
- *Saturation.* `present_streak` is kept up to `EnterFrames`, the one value it is
  compared with. `handles`, `backoff` and ages in the other models likewise.
- *Time* is in units that matter to the code at hand: polls of the supervisor, minutes
  of the sampler, hours (of which a day has three) of the crossings.
- *Mutants.* Some definitions stand beside a `Name_Variant`: a plausible slip, not
  used by the specification. Each property is violated by one of them.

## 3. Runs, bounds, fairness

| Run | Instance | Shows |
|---|---|---|
| `frame_queue` | 2 slots, 4 packets, three consumers: no deadline, deadline, draining | `Accounted`, `NoLostWakeup`, `ImplementsStream`, `Delivered` |
| `pipeline` | each of the three sources, 2 slots, 3 frames; reads fail, hang and raise, the store fails, joins time out, the clock is set back once | `HandlesBounded`, `FreshEnough`, `SilenceReported`, `StopEnds`, `NewestProcessed` |
| `analytics` | 2 people, before, behind and beside a door, 1 zone; enter 2, leave 2, gap 1 | `Debounced`, `Remembered`, `ReadModel`, `NetTellsSide` |
| `manager` | 2 HTTP threads, a gate and a counting camera, one edit of the configuration, one `PATCH` that enables, disables or makes a camera a gate, starts raise | `OneEngine`, `ModeTellsScope`, `LockReleased` |
| `services`, part engine | 2 cameras, backoff 1 to 4 polls, passes up to 2 polls; starts raise, the join times out | `OneFeed`, `NothingAfterStop`, `BacksOff`, `Restarted`, `StopReturns` |
| `services`, part redis | a worker that publishes twice, a process that is closed and started again; outages at any time | `OnceInOrder`, `ListensAgain` |
| `services`, part burst | two workers of one process that publish at once, two events and one, and a process that hears them; outages at any time | `OnceInOrder`, `ListensAgain` |
| `services`, part gallery | 3 people, two of whom look alike and one whose look drifts; frames up to a second late | `OneIdentityEach`, `RecentKept` |
| `services`, part rounds | 2 snapshot cameras, one of which fails for good | `RoundsOnClose` |
| `delivery` | 2 workers with 3 and 1 events, one may outlast the engine; a client with a queue of one; both entry points | `RowsInOrder`, `NoneLost`, `StreamFresh`, `CloseReturns` |
| `sampler` | 2 cameras in one space, 3 minutes of up to 2 samples, 2 faults | `Exact`, `ImplementsSeries` |
| `records`, part rollup | 2 spaces, 8 minutes, hours of 2 minutes, retention 5 and 6 minutes, 1 fault | `FinalHoursExact`, `PrunedOnlyWhenFinal`, `CatchesUp` |
| `records`, part registry | up to 2 rows of a kind, 4 requests or restarts | `NoOrphans`, `FloorsWithinSpaces` |
| `records`, part crossings | 2 areas, 2 lines created and deleted, 2 crossings up to an hour late, 7 hours, days of 3 hours that start an hour before the UTC day, retention of 4 hours | `HistoryAddsUp` |
| `records`, part floors | 2 spaces, 2 floors and none, 3 buckets, one move, at most 5 rows to an answer | `FloorsTellWhole` |
| `records`, part drawing | 2 shapes, one name an operator may type, 2 rows | `ImportsOnce` |
| `config_ignored`, `space_stripped`, `sampler_frozen`, `rollup_pruned` | | section 5 |

**Why the bounds are enough to see the interesting cases.**
Two slots tell oldest from newest and let `get_latest()` skip; four packets overflow
them twice. `MaxBackoff` 4 is two doublings and a cap. In `analytics` two frames to
enter and two to leave give every flicker a partial streak both ways, a gap of one
tells "missed once" from "forgotten", and three places give passing, staying and
walking round; two tracks make counts that stay equal while people swap.
Two cameras let a pass of the supervisor be in the middle when `stop()` comes.
Two callers are what the manager's lock is for; one edit makes every version
stale once, and one `PATCH` every row. The Redis bus is two parts because its restarts and
its simultaneous publishes together are too many states; two workers of which one publishes
twice are the least that can be out of order either way. A process of the Redis bus that is started twice has two listener
threads, of which the older may still be at work. A gallery needs two people who look
alike to offer one identity twice, and a frame one time to live late to expire someone
who was just seen. Three events of a worker are a crossing, its count and another
crossing, so that a stop can come between any two; a queue of one is full at once.
Two faults let a failed flush be followed by a crash.
Two-minute hours with a retention of five put the cutoff inside an hour and the watermark
hour one and two hours behind. In the rollup, `Quiet` 1 says that new minutes keep
coming and `Lag` 1 that the worker's turn is not delayed by more than a minute:
without the first, `rollup_pruned` shows what happens. These
bounds satisfy `RetentionOutlasts`, and the door of `analytics` `InwardIsNormal` (section 4). Four requests are a camera, a zone,
an engine built from them (a step of its own), and two edits under it. Two crossings are one on each side of
any boundary. Two shapes are what a name can be shared by, and two rows what an import
can double.
Symmetry is used for the tracks of `analytics` only, which has no liveness property.
Models that end at a bound (a clock, a number of rows or requests, a stopped engine) do
not check deadlock; the others do.

**Fairness.**
`FrameQueue`: each consumer that can run after a wakeup does (a condition variable
hands over its lock). `CameraPipeline`: threads that can run do, deadlines pass, time
passes and a blocking read ends one way or another; nobody has to call `stop()` and no
read has to succeed. `EngineSupervisor`: the supervisor thread is scheduled and a
`stop()` that was called goes on. `EngineManager`: a thread inside a call goes on;
waiting for the lock is only weakly fair, as `threading.Lock` is. `RedisBus`: the
listener threads run; Redis may stay down and nobody has to publish, subscribe or close.
`RoundTimer`: a camera that can fetch goes on reporting. `EventDelivery`: the projector's thread, a
`close_sync()` under way, publishes under way and the API loop go on; a worker publishes finitely
often, which is the bound of the model and what the engine's stop brings about. In `MCServices` the same
actions are fair while their part is the one at work. The sampler, the
history worker, the analytics and the rest of `MCRecords` have safety properties only:
`CatchesUp` and `Exact` say in terms of steps what a liveness property would say with
fairness.

## 4. Proofs

TLC checks the instances above; the theorems hold for every value of the constants
that satisfies the assumptions named in the modules (sizes and thresholds are
naturals, sets of cameras, tracks and lines are finite, and so on). Every safety
invariant, every action property and the two refinements that the runs check are
theorems; two rest on a hypothesis of their own, named below.

| Module | Theorem | Establishes |
|---|---|---|
| `FrameQueueProofs` | `TypeCorrect`, `PacketsSafe`, `NoWakeupLost`, `QueueImplementsStream` | `TypeOK`; `Accounted` and `Ordered`; `NoLostWakeup`; the refinement of `LossyStream` |
| `PipelineProofs` | `HandlesBoundedEver`, `FreshEnoughEver`, `QueueUsedAsSpecified`, `FramesSafe` | `HandlesBounded`; `FreshEnough`; the pipeline's queue behaves as `FrameQueue` says, and so keeps its invariants |
| `FrameAnalyticsProofs` | `AnalyticsTypes`, `DebounceCorrect`, `GapsBridged`, `ReadModelTrue`, `NetTellsSideEver` | `TypeOK`; `Debounced`; `Remembered`; `ReadModel`; `NetTellsSide` if IN sides are normals |
| `ServiceProofs` | `SupervisorTypes`, `OneFeedEver`, `NothingAfterStopEver`, `RestartsBackOff` | `TypeOK`; `OneFeed`; `NothingAfterStop`; `BacksOff` of the engine |
| | `ManagerTypes`, `OneEngineEver`, `ModeTellsScopeEver` | `TypeOK`; `OneEngine`; `ModeTellsScope` of the manager |
| | `IdentitiesDistinct`, `RecentlyMetKept` | `OneIdentityEach`; `RecentKept` of the gallery |
| | `RedisOnceInOrder` | `OnceInOrder` of the Redis bus |
| `DeliveryProofs` | `RowsInOrderEver`, `NoneLostEver`, `StreamFreshEver` | `RowsInOrder`; `NoneLost`; `StreamFresh` |
| `RowProofs` | `MergeCommutes`, `MergeAssociates` | partial rows may be merged in any order and grouping; lemmas on sums, largest and least members of finite sets |
| `SamplerProofs` | `SamplerTypes`, `ExactEver`, `WrittenEver`, `WriteGrows`, `SamplerImplementsSeries` | `TypeOK`; `Exact`; what is in the table was sampled; a transaction is a step of the abstract series, and the sampler implements it |
| `RecordProofs` | `RollupInvariant`, `FinalHoursExactEver`, `PrunedWhenFinal`, `TurnCatchesUp` | the inductive invariant; `FinalHoursExact`; `PrunedOnlyWhenFinal`; `CatchesUp`, if retention outlasts the roll-up |
| | `NoOrphansEver`, `FloorsWithinSpacesEver` | `NoOrphans`; `FloorsWithinSpaces` of the registry |
| | `HistoryAddsUpEver`, `FloorsTellWholeEver`, `ImportedOnce` | `HistoryAddsUp`; `FloorsTellWhole`; `ImportsOnce` |

**Hypotheses.** They are definitions beside the models, not assumptions on constants, and
the instances TLC checks satisfy them (`MCRecords` and `MCFrameAnalytics` assert it).

- `RetentionOutlasts` (`RollupInvariant` and the three theorems after it): a cold start
  looks back over an hour, the quiet time and a worker's turn per fault; a retention window is either
  off or longer than what the watermark can lag behind. The code's numbers do so by far:
  windows count days, the look-back is a week, the pause a minute. Without it
  the properties are false, and `rollup_pruned` is the kind of loss that follows.
- `InwardIsNormal` (`NetTellsSideEver`): the IN side of a line is a normal of
  it, as `draw_zones.py:154-167` computes. The API accepts any direction
  (`schemas/geometry.py:61`); with a slanting one, a slanting path may be counted the
  wrong way round.

**Arguments.** Each invariant below is proved from the initial states and kept by
every action, and has the properties as conjuncts or consequences.

- **Frame queue.** Packets carry consecutive numbers, so `PacketInv` (the buffer is
  increasing, above `last` and ends at `produced`; drops, receipts and clears add up)
  gives accounting and order. `NoLostWakeup` counts: while a consumer sleeps with no
  deadline behind it, at least as many others are on their way to the lock as packets
  wait; that number is what `put` and `take` keep in step. The refinement takes one step
  per action under `PacketInv`.
- **Pipeline.** `CaptureInv` is that a thread that has ended holds no handle and
  that its backoff stays within its cap. Every step of the pipeline is a step of the queue or leaves it alone,
  which is a refinement (`QueueUsedAsSpecified`), so the queue's theorems carry over
  (`FramesSafe`). Freshness is a property of steps: the queue ends with the newest
  frame (`NewestLast`), so a take that skips to its end takes that one.
- **Analytics.** `AnalyticsInv` is `TypeOK`, that the counters of a pair measure the run at
  the front of its history (`Streaking`), that a track's misses are the empty places at
  the front of its trail (`Keeping`), and that what was last emitted is what was last
  shown (`Sent`). `Streaking` is the reason why counters may be dropped: the run of absent
  frames is then long enough that nothing is lost. `NetTellsSide` adds plane
  geometry: along a step that does not touch the line's ends or stop on it, the segments meet
  exactly if the sides change, and the movement has the sign of the change.
- **Engine.** `SafeInv` is `OneFeed`, `NothingAfterStop` and two facts they need: a running
  feed without a pipeline is a leaked one (`Owned`), and where the controlling thread is
  decides what the stop event and supervisor may be (`Phases`). The crux is that every check reads
  the stop event under the lock under which `stop()` takes the pipelines away. Backoff needs
  `OwesDelay`: `backoff` is at least the doublings that the streak of deaths calls for, or the cap,
  and once a restart is scheduled, the time already spent down and the time still due
  make up that delay. `2^n` has no facts in the prover's library, so the streak's delay
  is a recursive function, whose existence is proved by a least counterexample.
- **Manager.** `ManagerInv` adds that only the holder of the lock builds or starts (`LockInv`)
  and that each camera a call carries had, in a row the call could have seen, the role of its
  scope (`Planned`). The property is about those rows, `witnessed`, since a `PATCH`
  may change the registry's between the ids' resolution and the build.
- **Gallery.** `GalleryInv`: who is still to be matched in a frame has no identity in it, and
  nothing is claimed between frames (`FrameState`); an identity met recently enough has an
  entry, marked with a time at most a worker's lag older (`Marked`), so that an eviction by the time
  of a late frame passes it by.
- **Redis bus.** `RedisInv`: a process has one live listener, unless a `close()` gave up on an older
  one, a case the property excepts (`Connections`); what a connection holds
  comes after what was handled, ascending per worker (`UnderWay`). Between two workers there is
  no order to prove, see `LocalOrderKept` in section 5.
- **Delivery.** `DeliveryInv`: the phase of the wiring decides which handlers are attached, and
  `unfinished_tasks` is what is queued and being written (`Attached`); rows, the row
  being written and the queue are one ascending line (`InLine`); an event that is owed is a
  row, a failed write, in that line, or in a publish under way, and once the stop has drained, only the
  events of workers that outlast it still are (`Owed`). `StreamFresh` needs the same of a
  subscription: what is scheduled on the loop comes after what is pending (`InStream`).
- **Rows and sampler.** `Merge` is pointwise addition, maximum and minimum; `Extends`, which
  readers see, is what any sequence of folds preserves. The sampler's `Inv` has `Exact` (every sample
  is in one place: accumulator, flush in flight, table, or lost by a counted fault) and
  `Control` (which thread holds which rows where). The refinement adds `Ahead`: no
  minute in the table is ahead of the rows in flight, nor those of the open minute, nor that of the
  clock.
- **Rollup.** `RollupInv`: the newest minute and the watermark are within `Slack` plus `Lag`
  per failed turn of the clock (`InTime`); hours from the watermark on still have all
  their minutes, and hours behind it are exact or past retention (`InFull`). `InTime` with
  `RetentionOutlasts` is why `prune` cannot reach a minute that is still needed.
- **Registry.** `NoOrphans` is inductive once a zone's row is known to go on naming a camera when
  it is updated (`NamesCamera`). The crux is that a deleted camera takes its lines'
  crossings with it in the same transaction, and that an engine that still knows a deleted
  line cannot write to it. `FloorsWithinSpaces` needs that counts are naturals of finitely many zones
  (`Counted`): each zone is on one floor, so the floors' sums are over disjoint parts of the
  space's zones.
- **Queries.** What was stored and is gone went with its line or is older than the retention window
  (`CrossingInv`); each row
  of a window falls in one bucket, so the sum over buckets is the sum over rows. A row of the
  occupancy rollup is one space in one bucket, on the floor the space was on then (`FloorInv`),
  which makes the sum of a floor's rows a count of its spaces.
- **Tools.** `EditorInv`, of the editor and the file alike: every shape was drawn once and a
  zone has three points. Two shapes that share a name have one key; the one with the
  least index is new and the others are skipped, and new rows get ids
  above the highest by their rank, so no two share one (`FilesInv`).

**Only model-checked.** Liveness under fairness, and `ENABLED`, are out of the prover's reach:
`Delivered`, `SilenceReported`, `StopEnds`, `NewestProcessed`, `Restarted`, `StopReturns`,
`ListensAgain`, `RoundsOnClose`, `LockReleased` and `CloseReturns`. So is induction over data in the
form of the library's induction theorems, which take an operator as a parameter; where a proof
needs one (sums over sets, the backoff's delay), it takes the least element of the set of
counterexamples instead.

## 5. Findings

Each of these is a run that TLC ends with a counterexample.

- `config_ignored`: "Workers therefore pick up a change only on their next rebuild (when
  they re-read the config)" (`config_service.py:10-11`), but `build_engine` takes
  `get_settings()`, which is the file; a stored override reaches `GET /config` and no engine.
- `space_stripped`: "there is deliberately no way to strip a zone's space"
  (`schemas/geometry.py:41`), but a `PATCH` whose body names `dt_space_id` as null keeps
  the field as set and writes the null.
- `sampler_frozen`: the sampler trusts the last health record of a camera. Only the
  camera's worker writes it, so when the worker is gone a healthy record stays, and the
  frozen count that `occupancy_sampler.py:24-25` wants out is summed for ever.
- `rollup_pruned`: retention cuts at a minute, not at an hour. When no newer hour has
  data, the watermark hour is rolled up again from what the cut left, and a
  complete row is overwritten by a partial one ("re-running only improves it",
  `history_worker.py:119-120`).

Stated in a module, and violated in the model, without a run of their own:

- `StopStopsEverything` (`EngineSupervisor`): a pipeline is entered in the dictionary after
  its `start()` returned. If the second of its threads cannot start, the first one
  runs on and `stop()` ("blocking until all have stopped", `engine.py:161`) does not
  know it (`engine.py:199`).
- `GateHonoursSwitch` (`EngineManager`): a scope passes explicit camera ids,
  which skip the master switch of the gate pipeline (`engine.py:334-335`); a camera that has
  the gate's role besides the one asked for, or is given it before the build, is started
  although the configuration switches gates off (`manager.py:49-53`, `:106`).
- `RunsOnlyItsRole` (`EngineManager`): "run only the cameras for mode" (`manager.py:85`), but
  the ids are resolved before the lock is taken (`:105`) and `build_engine` does not
  look at roles again when it reads the cameras (`engine.py:285`): a `PATCH` that takes the role
  away in between leaves an engine that runs the camera without it. `ModeTellsScope` is what
  holds: the camera had the role at some moment of the switch.
- `LocalOrderKept` (`RedisBus`): no lock is held between `_dispatch()` and the send
  (`redis_bus.py:124-127`), and every camera worker publishes. The events of two workers may reach
  another process in the reverse of the order in which their own process handled them; those of
  one worker keep theirs (`OnceInOrder`).
- `OneListener` (`RedisBus`): a `close()` whose join times out, followed by a `start()`, clears
  the stop flag before the old listener has seen it (`redis_bus.py:195`): two listeners of one
  process dispatch every message ("a single background listener thread", `:10`).
- `AlwaysClosed` (`EventStream`): the stream yields its first comment before its `try`, so a
  client that is gone by then leaves its subscription on the bus (`sse.py:57` against `:72-74`).

Seen while modelling:

- `RtspCaptureThread.run` calls `capture.read()` outside any `except`, so an exception
  ends the thread although `capture.py:228` says it never crashes on a stream fault,
  and the supervisor looks at workers only. `pipeline` has that step
  (`ReadRaised`) and shows that the connection is let go and the silence reported.
- `CameraPipeline.stop()` "blocks until both threads have exited" (`:230`) but returns
  after five seconds each; a worker "runs until stop is signalled" (`:362`) but ends when
  the health write raises.
- `switch()` decides guard and camera ids before it takes the lock, so a `reset()` in
  between changes the configuration under it; a settings load that is overtaken by a clear
  of the cache leaves the old configuration in it (`settings.py:82`).
- After a failed start the manager reports the old mode with nothing running, and the
  pipelines that did start are known to nobody.
- A camera that cannot be resolved is skipped (`engine.py:266-267`), but an unset
  `CAMERA_CREDENTIALS_KEY` raises a `RuntimeError` that is not caught there (`:294`), and no
  camera starts.
- Touching counts as crossing (`geometry.py:107`): a ground point that lands exactly on a
  line is counted as it arrives and again as it leaves, and standing there counts OUT with
  every frame, since the movement is zero. `NetTellsSide` therefore speaks of paths
  that do not stop on the line.
- Deleting a line, or a camera, deletes its crossings (`db/models/timeseries.py:91`, enforced by
  `session.py:34-38`): the daily totals and the history of days past lose them. `HistoryAddsUp`
  excepts exactly these.
- `history.py:42-45` says that the cap on rows "degrades into a truncated answer"; the code
  refuses the request (`ResultTooLargeError`, `_too_large`), as its test expects. `FloorHistory` has
  the refusal.
- `OccupancySampler.stop()` flushes beside a thread that outlasted its join
  (`occupancy_sampler.py:130-131`). A flush copies its rows and then empties the buckets (`:205-209`)
  without a lock: two that both copied before either emptied would write a row twice. The model takes
  the two as one step, so `Exact` does not see it.
- Two cameras with lines in one area keep separate totals and overwrite each other's in
  the read model, which has one entry per area.
- The sums per space of live occupancy include zones that were deleted under a running
  engine (`routers/occupancy.py:55-57`); the sums per floor do not.
- A crossing that arrives after its line was deleted and its id given to a new line is
  stored for the new line.
- A `PUT /config` that names a section replaces that section's whole override.
- A day is resolved with the UTC offset of this moment, which is another one across a change to
  or from summer time.
- In `draw_zones.py` a mode change keeps `_drag`, so a later mouse move may drag a shape
  (`:196`, `:369-372`); a dragged line keeps the IN side it was given (`:261`); default names number
  the shapes that are there (`:279`), so two shapes may share a name after a removal, and
  `ingest_drawn.py:92-95` skips the second.
- `prune_unassigned_zones.py` "Refuses to delete a zone that has ever produced history"
  (`:12-13`), but its code looks at the zone's space only; a second `--apply` overwrites the
  backup of the first.
- In a deployment with several processes each one that is wired persists the events it hears.

## 6. What is not modelled

- Threads of a replaced engine that outlast their join and write late to the read model.
- Two processes that sample the same space, and the unique-key race in
  `occupancy_repo.py:127`; the deployment runs one.
- `cameras_total`, latency figures, dataset capture, logging.
- Polygons, overlap ratios and floating point: the models take their answers as given.
  Counts and coordinates are integers.
- Neural networks and ByteTrack: their outputs are inputs. A tracker's number appears once per
  frame.
- Transitions, zone states and per-line totals: computed, but nothing publishes them.
- A retry of a publish inside the Redis client library: a publish is taken to be delivered at
  its moment or not at all.
- The form of events on Redis and of timestamps in answers, statistics, exports of single
  rows, authentication, the probe of a stream, the cipher.
- Validation of configuration: an override is well formed or not.
- One-off scripts (rename, scale, seed, migrate, automatic zones) and `visualize.py`.

## 7. Plan

Modelling follows the order of importance and is done but for section 6; what would come
next there is late writes of a replaced engine, and two processes that sample.

The safety properties of all runs are proved. What is left to prove: the type invariants of the
gallery, the Redis bus, the delivery, the registry and the queries as theorems of their own (they are
conjuncts of the invariants above); the remarks of section 5 that are violated in the
model, under the assumption that makes each of them true (no thread fails to start, no camera is
given another role, no join times out, one worker per process); and the operators that stand for pure algorithms, such as the line
test, apart from the actions that use them.
