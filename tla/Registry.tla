------------------------------ MODULE Registry ------------------------------
(***************************************************************************)
(* The registry of cameras, zones, lines and configuration overrides       *)
(* (app/services/camera_service.py, config_service.py and the routers and  *)
(* repositories around them), with its two readers: the engine, which      *)
(* takes a copy when it is built and runs on that copy while the rows      *)
(* change, and the queries (occupancy_service.py), which join the read     *)
(* model to the rows of the moment.                                        *)
(*                                                                         *)
(* A request is one transaction (db/session.py get_session): an action     *)
(* here. A row is [ip, floor, enabled, gate, sealed] for a camera, where   *)
(* sealed is the key its password was encrypted with; [camera, space] for  *)
(* a zone; [camera] for a line. A crossing row is kept as its line.        *)
(***************************************************************************)
EXTENDS Integers, FiniteSetsExt, Functions

CONSTANTS
  Ips, Floors, DtSpaces, CipherKeys,
  Allowlist,    \* processing.camera_allowlist_ips
  Sections,     \* the sections of the configuration that can be overridden
  Baseline,     \* section -> its setting in the file
  MaxId,        \* bound: the highest row id
  MaxEdits,     \* bound: requests and restarts
  MaxCount,     \* bound: people in a zone
  NoValue, Malformed

ASSUME RegistryConstants == IsFiniteSet(Floors) /\ MaxCount \in Nat

VARIABLES
  cameras, zones, lines,    \* id -> row
  crossings,                \* the lines that have rows in crossing_events
  overrides,                \* section -> stored override
  key,                      \* CAMERA_CREDENTIALS_KEY of the running process
  engine,                   \* what the running engine was built from
  live,                     \* the read model: zone -> [space, count]
  edits

tables == <<cameras, zones, lines, crossings>>
registryVars == <<tables, overrides, key, engine, live, edits>>

NoRows == [id \in {} |-> NoValue]

NoEngine == [cameras |-> {}, zones |-> NoRows, lines |-> {}, config |-> NoValue]

RegistryInit ==
  /\ cameras = NoRows /\ zones = NoRows /\ lines = NoRows /\ crossings = {}
  /\ overrides \in [Sections -> {NoValue, Malformed}]
  /\ key \in CipherKeys
  /\ engine = NoEngine /\ live = NoRows
  /\ edits = 0

Edit == edits < MaxEdits /\ edits' = edits + 1

(* SQLite gives a new row the id after the highest in the table, so the id *)
(* of the last row is given again once the row is deleted.                 *)
NextId(table) == IF DOMAIN table = {} THEN 1 ELSE Max(DOMAIN table) + 1

Insert(table, row) == [id \in DOMAIN table \union {NextId(table)} |->
                         IF id \in DOMAIN table THEN table[id] ELSE row]

Changed(row, change) ==
  [f \in DOMAIN row |-> IF f \in DOMAIN change THEN change[f] ELSE row[f]]

Update(table, id, change) == [table EXCEPT ![id] = Changed(@, change)]

Without(table, ids) == Restrict(table, DOMAIN table \ ids)

Of(table, c) == {id \in DOMAIN table : table[id].camera = c}

-----------------------------------------------------------------------------
(* Cameras. from_env() raises when the key is unset: the request fails and *)
(* leaves nothing behind, although the columns were written first.         *)
CreateCamera(ip, floor, enabled, gate) ==
  /\ Edit /\ key # NoValue /\ NextId(cameras) <= MaxId
  /\ cameras' = Insert(cameras, [ip |-> ip, floor |-> floor, enabled |-> enabled,
                                 gate |-> gate, sealed |-> key])
  /\ UNCHANGED <<zones, lines, crossings, overrides, key, engine, live>>

(* change holds the columns the request sets; the password is one of them  *)
(* only when it is given and not null.                                     *)
UpdateCamera(c, change) ==
  /\ Edit /\ c \in DOMAIN cameras
  /\ "sealed" \in DOMAIN change => key # NoValue
  /\ cameras' = Update(cameras, c, change)
  /\ UNCHANGED <<zones, lines, crossings, overrides, key, engine, live>>

CameraChanges ==
  [{"enabled"} -> BOOLEAN] \union [{"floor"} -> Floors] \union [{"sealed"} -> {key}]

(* The rows that hang on a camera go with it, and the crossings with their *)
(* line (relationship cascade and ON DELETE CASCADE).                      *)
DeleteCamera(c) ==
  /\ Edit /\ c \in DOMAIN cameras
  /\ cameras' = Without(cameras, {c})
  /\ zones' = Without(zones, Of(zones, c))
  /\ lines' = Without(lines, Of(lines, c))
  /\ crossings' = crossings \ Of(lines, c)
  /\ UNCHANGED <<overrides, key, engine, live>>

-----------------------------------------------------------------------------
CreateZone(c, space) ==
  /\ Edit /\ c \in DOMAIN cameras /\ NextId(zones) <= MaxId
  /\ zones' = Insert(zones, [camera |-> c, space |-> space])
  /\ UNCHANGED <<cameras, lines, crossings, overrides, key, engine, live>>

(* _to_columns() keeps every field the body names, one that is null too.   *)
UpdateZone(z, change) ==
  /\ Edit /\ z \in DOMAIN zones
  /\ zones' = Update(zones, z, change)
  /\ UNCHANGED <<cameras, lines, crossings, overrides, key, engine, live>>

ZoneChanges == [{"space"} -> DtSpaces \union {NoValue}]

DeleteZone(z) ==
  /\ Edit /\ z \in DOMAIN zones
  /\ zones' = Without(zones, {z})
  /\ UNCHANGED <<cameras, lines, crossings, overrides, key, engine, live>>

CreateLine(c) ==
  /\ Edit /\ c \in DOMAIN cameras /\ NextId(lines) <= MaxId
  /\ lines' = Insert(lines, [camera |-> c])
  /\ UNCHANGED <<cameras, zones, crossings, overrides, key, engine, live>>

DeleteLine(l) ==
  /\ Edit /\ l \in DOMAIN lines
  /\ lines' = Without(lines, {l})
  /\ crossings' = crossings \ {l}
  /\ UNCHANGED <<cameras, zones, overrides, key, engine, live>>

-----------------------------------------------------------------------------
(* A section's row is replaced, or inserted.                               *)
Upserted(provided) ==
  [s \in Sections |-> IF s \in DOMAIN provided THEN provided[s] ELSE overrides[s]]

(* PUT /config writes the row of every section it names.                   *)
PutConfig(provided) ==
  /\ Edit
  /\ overrides' = Upserted(provided)
  /\ UNCHANGED <<tables, key, engine, live>>

(* GET /config: a row that no longer validates degrades to the baseline.   *)
RuntimeConfig ==
  [s \in Sections |->
     IF overrides[s] \in {NoValue, Malformed} THEN Baseline[s] ELSE overrides[s]]

-----------------------------------------------------------------------------
Settings == Baseline

TargetIds ==
  {c \in DOMAIN cameras :
     /\ cameras[c].enabled
     /\ Allowlist # {} => cameras[c].ip \in Allowlist
     /\ cameras[c].gate => Settings["processing"]}

HasPassword(c) == cameras[c].sealed # NoValue

(* With no key the cipher raises RuntimeError, which the loop that skips   *)
(* cameras does not catch.                                                 *)
LoadRaises(targets) == key = NoValue /\ \E c \in targets : HasPassword(c)

Resolvable(c) == HasPassword(c) /\ cameras[c].sealed = key

(* The value objects of a camera: its row and its zones and lines as they  *)
(* are now; of a line the model keeps the id.                              *)
ToCameraSpec(c) == [id |-> c, zones |-> Restrict(zones, Of(zones, c)), lines |-> Of(lines, c)]

BuildCameraSpecs(ids) == {ToCameraSpec(c) : c \in ids}

(* A reset: the old engine is stopped before the new one is loaded.        *)
BuildEngine ==
  LET specs == BuildCameraSpecs({c \in TargetIds : Resolvable(c)})
  IN  /\ engine' = IF LoadRaises(TargetIds) THEN NoEngine ELSE
                   [cameras |-> {spec.id : spec \in specs},
                    zones |-> Restrict(zones, UNION {DOMAIN spec.zones : spec \in specs}),
                    lines |-> UNION {spec.lines : spec \in specs},
                    config |-> Settings]
      /\ UNCHANGED <<tables, overrides, key, live, edits>>

(* The process ends and another one starts, perhaps with another key; the  *)
(* read model was in its memory.                                           *)
RestartProcess(k) ==
  /\ Edit
  /\ key' = k /\ engine' = NoEngine /\ live' = NoRows
  /\ UNCHANGED <<tables, overrides>>

(* A worker reports a count of a zone of the copy it runs on.              *)
PublishCount(z, n) ==
  /\ z \in DOMAIN engine.zones
  /\ live' = [y \in DOMAIN live \union {z} |->
                IF y = z THEN [space |-> engine.zones[z].space, count |-> n]
                ELSE live[y]]
  /\ UNCHANGED <<tables, overrides, key, engine, edits>>

\* Mutant: SQLite without PRAGMA foreign_keys.
Accepted_Any(l) == TRUE

(* An insert whose line is gone fails on the foreign key.                  *)
Accepted(l) == l \in DOMAIN lines

(* The crossing of a line the engine knows is written by the projector;    *)
(* one the database refuses is logged and lost.                            *)
AddCrossing(l) ==
  /\ l \in engine.lines
  /\ crossings' = IF Accepted(l) THEN crossings \union {l} ELSE crossings
  /\ UNCHANGED <<cameras, zones, lines, overrides, key, engine, live, edits>>

-----------------------------------------------------------------------------
CameraRequests ==
  \/ \E ip \in Ips, floor \in Floors, enabled, gate \in BOOLEAN :
       CreateCamera(ip, floor, enabled, gate)
  \/ \E c \in DOMAIN cameras : \/ \E change \in CameraChanges : UpdateCamera(c, change)
                               \/ DeleteCamera(c)

ZoneRequests ==
  \/ \E c \in DOMAIN cameras, s \in DtSpaces : CreateZone(c, s)
  \/ \E z \in DOMAIN zones : \/ \E change \in ZoneChanges : UpdateZone(z, change)
                             \/ DeleteZone(z)

LineRequests ==
  \/ \E c \in DOMAIN cameras : CreateLine(c)
  \/ \E l \in DOMAIN lines : DeleteLine(l)

RegistryNext ==
  \/ CameraRequests \/ ZoneRequests \/ LineRequests
  \/ \E some \in (SUBSET Sections) \ {{}} : \E provided \in [some -> BOOLEAN] :
       PutConfig(provided)
  \/ BuildEngine
  \/ \E k \in CipherKeys \union {NoValue} : RestartProcess(k)
  \/ \E z \in DOMAIN engine.zones, n \in 0..MaxCount : PublishCount(z, n)
  \/ \E l \in engine.lines : AddCrossing(l)

RegistrySpec == RegistryInit /\ [][RegistryNext]_registryVars

-----------------------------------------------------------------------------
(* What the requests answer.                                               *)
Count(zs) == MapThenSumSet(LAMBDA z : live[z].count, zs)

BySpace(s) == Count({z \in DOMAIN live : live[z].space = s})

\* Mutant: zones are resolved to a floor through their space.
OnFloor_BySpace(f) ==
  {z \in DOMAIN live :
     \E y \in DOMAIN zones : /\ zones[y].space = live[z].space
                             /\ cameras[zones[y].camera].floor = f}

(* The zones counted on a floor: those whose row exists, on the floor of   *)
(* the camera that row names.                                              *)
OnFloor(f) ==
  {z \in DOMAIN live : z \in DOMAIN zones /\ cameras[zones[z].camera].floor = f}

FloorSpace(f, s) == Count({z \in OnFloor(f) : live[z].space = s})

-----------------------------------------------------------------------------
(* Deleting cameras, zones and lines while an engine built from them runs  *)
(* on leaves no row that points at a row that is gone (session.py:26-29).  *)
NoOrphans ==
  /\ \A z \in DOMAIN zones : zones[z].camera \in DOMAIN cameras
  /\ \A l \in DOMAIN lines : lines[l].camera \in DOMAIN cameras
  /\ crossings \subseteq DOMAIN lines

(* The breakdown of the floors never holds more people of a space than the *)
(* space itself has: whatever was edited since the counts were written, no *)
(* zone is on two floors.                                                  *)
FloorsWithinSpaces ==
  \A s \in DtSpaces :
    MapThenSumSet(LAMBDA f : FloorSpace(f, s), Floors) <= BySpace(s)

(* "Workers therefore pick up a change only on their next rebuild (when    *)
(* they re-read the config)" (config_service.py:10-11).                    *)
RebuildTakesOverrides ==
  [][BuildEngine /\ engine' # NoEngine => engine'.config = RuntimeConfig]_registryVars

(* "there is deliberately no way to strip a zone's space and orphan it     *)
(* from history" (api/schemas/geometry.py:41).                             *)
SpaceNeverStripped ==
  [][\A z \in DOMAIN zones \intersect DOMAIN zones' :
       zones[z].space # NoValue => zones'[z].space # NoValue]_registryVars
=============================================================================
