---------------------------- MODULE EngineManager ----------------------------
(***************************************************************************)
(* EngineManager (app/engine/manager.py): HTTP threads swap the one live   *)
(* engine for another scope, reload the configuration, or stop it. What    *)
(* each call decides outside self._lock (the gate guard, the camera ids,   *)
(* the reload) is a step of its own, and a PATCH may change a camera's row *)
(* between any two.                                                        *)
(*                                                                         *)
(* A configuration is its version: processing.entry_exit_enabled may       *)
(* change with each edit of the file. get_settings() is an lru_cache: on a *)
(* miss it reads the file outside the cache's lock and stores the result   *)
(* later, unless another thread stored one meanwhile.                      *)
(***************************************************************************)
EXTENDS Naturals, FiniteSets

Roles == {"entry_exit", "occupancy"}
Modes == {"all"} \union Roles

CONSTANTS
  Callers,        \* threads that serve the engine endpoints
  Registered,     \* ids of the cameras in the registry
  FirstRoles,     \* the roles of each at first
  RoleSets,       \* the roles a PATCH may give a camera
  GateOff,        \* versions whose entry_exit_enabled is false
  MaxVersion,     \* bound of the model: edits of the configuration file
  MaxPatches,     \* bound of the model: PATCHes of cameras
  MaxLeaks,       \* bound of the model: pipelines leaked per camera
  StartMayRaise,  \* whether Engine.start() may raise
  Nobody          \* not a caller

ASSUME ManagerAssumption ==
  /\ Registered \subseteq Nat /\ IsFiniteSet(Registered)
  /\ FirstRoles \in [Registered -> SUBSET Roles] /\ RoleSets \subseteq SUBSET Roles
  /\ MaxVersion \in Nat /\ MaxPatches \in Nat /\ MaxLeaks \in Nat /\ GateOff \subseteq 0..MaxVersion
  /\ StartMayRaise \in BOOLEAN
  /\ Nobody \notin Callers

VARIABLES
  version,    \* of the configuration in .env and YAML
  cache,      \* the settings cache: {}, or one version
  enabled,    \* cameras enabled in the registry
  roles,      \* the roles of each camera there
  patches,    \* PATCHes so far
  lock,       \* who holds self._lock
  engine,     \* cameras of self._engine
  engineUp,   \* whether self._engine is not None
  engineCfg,  \* the version it was built from
  witnessed,  \* history: rows the registry held while its switch ran
  mode,       \* self._mode
  running,    \* pipelines per camera that were started and not stopped
  leaked,     \* history: those of them whose engine failed to start
  pc,         \* where each caller is
  call,       \* its arguments and what it has built (see NoCall)
  reading     \* the version it read on a cache miss, {} when it is not in one

config == <<version, enabled, roles, patches>>
live == <<engine, engineUp, engineCfg, witnessed, mode, running, leaked>>
managerVars == <<config, cache, lock, live, pc, call, reading>>

Carriers(role) == {c \in Registered : role \in roles[c]}
InScope(m) == IF m = "all" THEN Registered ELSE Carriers(m)

Row(c, on, R) == [camera |-> c, enabled |-> on, roles |-> R]
CurrentRow(c) == Row(c, c \in enabled, roles[c])
Registry == {CurrentRow(c) : c \in Registered}

(* The mode a call wants, the camera ids it resolved ({} for "all"), the   *)
(* cameras and the version of the engine it built; and, for the history,   *)
(* the rows the registry held at some moment since the call began.         *)
NoCall == [scope |-> "all", ids |-> {}, cameras |-> {}, built |-> 0, seen |-> {}]

ManagerInit ==
  /\ version = 0 /\ cache = {0}
  /\ enabled = Registered /\ roles = FirstRoles /\ patches = 0
  /\ lock = Nobody
  /\ engine = {} /\ engineUp = FALSE /\ engineCfg = 0 /\ mode = "stopped" /\ witnessed = {}
  /\ running = [c \in Registered |-> 0] /\ leaked = [c \in Registered |-> 0]
  /\ pc = [p \in Callers |-> "idle"] /\ call = [p \in Callers |-> NoCall]
  /\ reading = [p \in Callers |-> {}]

-----------------------------------------------------------------------------
(* The operator edits the configuration file.                              *)
Edit ==
  /\ version < MaxVersion /\ version' = version + 1
  /\ UNCHANGED <<enabled, roles, patches, cache, lock, live, pc, call, reading>>

(* PATCH /cameras/{id}: sets enabled, roles or both. The calls that are    *)
(* under way may see the new row.                                          *)
Witness(row) ==
  [p \in Callers |->
     IF pc[p] = "idle" THEN call[p] ELSE [call[p] EXCEPT !.seen = @ \union {row}]]

UpdateCamera(c) ==
  /\ \E on \in BOOLEAN, R \in RoleSets \union {roles[c]} :
       /\ \/ Row(c, on, R) \in Registry /\ UNCHANGED patches
          \/ patches < MaxPatches /\ patches' = patches + 1
       /\ enabled' = IF on THEN enabled \union {c} ELSE enabled \ {c}
       /\ roles' = [roles EXCEPT ![c] = R]
       /\ call' = Witness(Row(c, on, R))
  /\ UNCHANGED <<version, cache, lock, live, pc, reading>>

(* get_settings(): a miss reads the file ...                               *)
Miss(p) ==
  /\ pc[p] \in {"guard", "resolve", "build"} /\ reading[p] = {} /\ cache = {}
  /\ reading' = [reading EXCEPT ![p] = {version}]
  /\ UNCHANGED <<config, cache, lock, live, pc, call>>

(* ... and the call returns v, from the cache or from what it read.        *)
GetSettings(p, v) ==
  \/ /\ reading[p] = {v}
     /\ cache' = IF cache = {} THEN {v} ELSE cache
     /\ reading' = [reading EXCEPT ![p] = {}]
  \/ reading[p] = {} /\ cache = {v} /\ UNCHANGED <<cache, reading>>

-----------------------------------------------------------------------------
(* switch(), outside the lock.                                             *)
Switch(p, m) ==
  /\ pc[p] = "idle"
  /\ call' = [call EXCEPT ![p] = [NoCall EXCEPT !.scope = m, !.seen = Registry]]
  /\ pc' = [pc EXCEPT ![p] = CASE m = "entry_exit" -> "guard"
                               [] m = "occupancy" -> "resolve"
                               [] m = "all" -> "wait"]
  /\ UNCHANGED <<config, cache, lock, live, reading>>

(* The guard refuses the entry_exit scope (EntryExitDisabledError), or     *)
(* lets it pass.                                                           *)
Guard(p) ==
  /\ pc[p] = "guard"
  /\ \E v \in 0..MaxVersion :
       /\ GetSettings(p, v)
       /\ IF v \in GateOff
          THEN pc' = [pc EXCEPT ![p] = "idle"] /\ call' = [call EXCEPT ![p] = NoCall]
          ELSE pc' = [pc EXCEPT ![p] = "resolve"] /\ UNCHANGED call
  /\ UNCHANGED <<config, lock, live>>

\* Mutant: the new mode is announced before the lock is taken.
Resolve_SetsMode(p) ==
  /\ pc[p] = "resolve" /\ pc' = [pc EXCEPT ![p] = "wait"]
  /\ \E v \in 0..MaxVersion : GetSettings(p, v)
  /\ call' = [call EXCEPT ![p].ids = enabled \intersect InScope(call[p].scope)]
  /\ mode' = call[p].scope
  /\ UNCHANGED <<config, lock, engine, engineUp, engineCfg, witnessed, running, leaked>>

(* camera_ids_for_role(): reads the allowlist and the registry.            *)
Resolve(p) ==
  /\ pc[p] = "resolve" /\ pc' = [pc EXCEPT ![p] = "wait"]
  /\ \E v \in 0..MaxVersion : GetSettings(p, v)
  /\ call' = [call EXCEPT ![p].ids = enabled \intersect InScope(call[p].scope)]
  /\ UNCHANGED <<config, lock, live>>

(* reset(), outside the lock: re-read .env, drop the cached settings.      *)
Reset(p) ==
  /\ pc[p] = "idle" /\ pc' = [pc EXCEPT ![p] = "wait"]
  /\ cache' = {}
  /\ call' = [call EXCEPT ![p] = [NoCall EXCEPT !.seen = Registry]]
  /\ UNCHANGED <<config, lock, live, reading>>

-----------------------------------------------------------------------------
(* _apply() and stop(), under the lock.                                    *)

AfterOldEngine ==
  [c \in Registered |-> IF c \in engine THEN running[c] - 1 ELSE running[c]]

EngineGone == engine' = {} /\ engineUp' = FALSE /\ engineCfg' = 0 /\ witnessed' = {}

\* Mutant: _apply runs without the lock.
Lock_Ignored(p) == lock' = p

Lock(p) == lock = Nobody /\ lock' = p

StopOld(p) ==
  /\ pc[p] = "wait" /\ pc' = [pc EXCEPT ![p] = "build"]
  /\ Lock(p)
  /\ running' = AfterOldEngine
  /\ EngineGone
  /\ UNCHANGED <<config, cache, mode, leaked, call, reading>>

(* _resolve_target_ids(): explicit ids win and are not filtered.           *)
TargetCameras(p, v) ==
  IF call[p].scope # "all" THEN call[p].ids
  ELSE IF v \in GateOff THEN enabled \ Carriers("entry_exit") ELSE enabled

(* Cameras without a usable credential are skipped, and without a          *)
(* perception backend all of them are.                                     *)
Loadable(p, v) == SUBSET TargetCameras(p, v)

(* build_engine().                                                         *)
Build(p) ==
  /\ pc[p] = "build" /\ pc' = [pc EXCEPT ![p] = "start"]
  /\ \E v \in 0..MaxVersion : \E usable \in Loadable(p, v) :
       /\ GetSettings(p, v)
       /\ call' = [call EXCEPT ![p] = [@ EXCEPT !.cameras = usable, !.built = v]]
  /\ UNCHANGED <<config, lock, live>>

-----------------------------------------------------------------------------
\* Mutant: the lock is not released on the way out of an exception.
Release_Never(p) == UNCHANGED lock

Release(p) == lock' = IF lock = p THEN Nobody ELSE lock

(* The configuration is invalid, or the database is down.                  *)
CallRaises(p) ==
  /\ pc[p] \in {"guard", "resolve", "build"} /\ pc' = [pc EXCEPT ![p] = "idle"]
  /\ Release(p)
  /\ reading' = [reading EXCEPT ![p] = {}]
  /\ call' = [call EXCEPT ![p] = NoCall]
  /\ UNCHANGED <<config, cache, live>>

Start(p) ==
  /\ pc[p] = "start" /\ pc' = [pc EXCEPT ![p] = "idle"]
  /\ Release(p)
  /\ engine' = call[p].cameras /\ engineUp' = TRUE
  /\ engineCfg' = call[p].built /\ mode' = call[p].scope /\ witnessed' = call[p].seen
  /\ running' = [c \in Registered |->
       IF c \in call[p].cameras THEN running[c] + 1 ELSE running[c]]
  /\ call' = [call EXCEPT ![p] = NoCall]
  /\ UNCHANGED <<config, cache, leaked, reading>>

(* start() takes the cameras in the order of their ids.                    *)
StartedBefore(p, k) == {c \in call[p].cameras : c < k}

(* start() raises at one camera: those before it run, in an engine that    *)
(* nobody refers to.                                                       *)
StartFails(p) ==
  /\ StartMayRaise
  /\ pc[p] = "start" /\ pc' = [pc EXCEPT ![p] = "idle"]
  /\ Release(p)
  /\ \E k \in call[p].cameras : \E orphans \in {StartedBefore(p, k)} :
       /\ \A c \in orphans : leaked[c] < MaxLeaks
       /\ leaked' = [c \in Registered |-> IF c \in orphans THEN leaked[c] + 1 ELSE leaked[c]]
       /\ running' = [c \in Registered |-> IF c \in orphans THEN running[c] + 1 ELSE running[c]]
  /\ call' = [call EXCEPT ![p] = NoCall]
  /\ UNCHANGED <<config, cache, engine, engineUp, engineCfg, witnessed, mode, reading>>

Stop(p) ==
  /\ pc[p] = "idle" /\ lock = Nobody
  /\ running' = AfterOldEngine
  /\ EngineGone /\ mode' = "stopped"
  /\ UNCHANGED <<config, cache, lock, leaked, pc, call, reading>>

Call(p) == (\E m \in Modes : Switch(p, m)) \/ Reset(p) \/ Stop(p)
Proceed(p) ==
  \/ Miss(p) \/ Guard(p) \/ Resolve(p) \/ StopOld(p) \/ Build(p) \/ CallRaises(p)
  \/ Start(p) \/ StartFails(p)

ManagerNext ==
  \/ Edit \/ \E c \in Registered : UpdateCamera(c)
  \/ \E p \in Callers : Call(p) \/ Proceed(p)

ManagerSpec == ManagerInit /\ [][ManagerNext]_managerVars

(* A thread inside a call is scheduled; nobody has to call anything. A     *)
(* thread that waits for the lock may be overtaken for ever, as with a     *)
(* threading.Lock.                                                         *)
ManagerFairness == \A p \in Callers : WF_managerVars(Proceed(p))
ManagerFairSpec == ManagerSpec /\ ManagerFairness

-----------------------------------------------------------------------------
Rows == [camera : Registered, enabled : BOOLEAN, roles : SUBSET Roles]

Calls ==
  [scope : Modes, ids : SUBSET Registered, cameras : SUBSET Registered, built : 0..MaxVersion,
   seen : SUBSET Rows]

ManagerTypeOK ==
  /\ version \in 0..MaxVersion /\ patches \in 0..MaxPatches
  /\ enabled \subseteq Registered /\ roles \in [Registered -> SUBSET Roles]
  /\ cache \subseteq 0..MaxVersion
  /\ lock \in Callers \union {Nobody}
  /\ engine \subseteq Registered /\ engineUp \in BOOLEAN
  /\ witnessed \subseteq Rows
  /\ engineCfg \in 0..MaxVersion /\ mode \in Modes \union {"stopped"}
  /\ running \in [Registered -> Nat] /\ leaked \in [Registered -> Nat]
  /\ pc \in [Callers -> {"idle", "guard", "resolve", "wait", "build", "start"}]
  /\ call \in [Callers -> Calls]
  /\ reading \in [Callers -> SUBSET (0..MaxVersion)]

(* "Owns the single live engine" (manager.py:3): whoever presses what at   *)
(* the same time, a camera has one pipeline if the live engine runs it and *)
(* none otherwise, apart from those leaked by a start that raised.         *)
OneEngine ==
  \A c \in Registered : running[c] = leaked[c] + (IF c \in engine THEN 1 ELSE 0)

(* A row that lets a camera into an engine of mode m and version v.        *)
Fits(row, m, v) ==
  /\ row.enabled
  /\ m \in Roles => m \in row.roles
  /\ m = "all" /\ v \in GateOff => "entry_exit" \notin row.roles

Fitted(c, m, v, rows) == \E row \in rows : row.camera = c /\ Fits(row, m, v)

(* While an engine is up, the mode status() reports tells what it runs:    *)
(* each of its cameras was, at some moment of the switch that started it,  *)
(* enabled and of that role, and in the "all" scope no gate camera that    *)
(* the configuration it was built from switches off. (At which moment, a   *)
(* PATCH during the switch decides, see RunsOnlyItsRole.)                  *)
ModeTellsScope ==
  engineUp =>
    /\ mode \in Modes
    /\ \A c \in engine : Fitted(c, mode, engineCfg, witnessed)

(* A switch that failed, in whatever way, does not lock the operator out.  *)
LockReleased == \A p \in Callers : (lock = p) ~> (lock # p)

(* "Stop the current engine and run only the cameras for mode"             *)
(* (manager.py:85): not when a PATCH takes the role away between           *)
(* camera_ids_for_role() and build_engine(), which does not look at it.    *)
RunsOnlyItsRole ==
  [][\A p \in Callers : Build(p) => call'[p].cameras \subseteq InScope(call[p].scope)]_managerVars

(* "the master switch ... Without this guard, one HTTP call would silently *)
(* start the pipeline the config says is off" (manager.py:49-53): a        *)
(* configuration that switches gate cameras off builds none. (It does when *)
(* the ids were resolved for a scope, which it takes as they are.)         *)
GateHonoursSwitch ==
  [][\A p \in Callers : Build(p) /\ call'[p].built \in GateOff
       => call'[p].cameras \intersect Carriers("entry_exit") = {}]_managerVars
==============================================================================
