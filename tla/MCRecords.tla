----------------------------- MODULE MCRecords -----------------------------
(* The tables of the database and who writes, prunes and reads them: the   *)
(* hourly rollup, the registry of cameras, zones and lines, the crossings, *)
(* the history queries, and the tools that draw and import zones.  Each    *)
(* has tables of its own here, so a behaviour is one of them at work;      *)
(* `part' says which, and the others rest in one initial state.            *)
EXTENDS MCHistoryRollup, MCRegistry, CrossingHistory, FloorHistory, ZoneFiles

(* The windows of this instance outlast the worker, as its theorems require. *)
ASSUME RetentionOutlasts

VARIABLE part

restVars == <<historyVars, floorVars, drawingVars>>
recordsVars == <<part, vars, registryVars, restVars>>

RecordsInit ==
  /\ part \in {"rollup", "registry", "crossings", "floors", "drawing"}
  /\ Init /\ RegistryInit /\ CrossingInit /\ FloorHistoryInit /\ DrawingInit
  /\ part # "registry" => overrides = [s \in Sections |-> NoValue]
  /\ part # "floors" => floorNow = [s \in SpaceIds |-> "B1"]

RecordsNext ==
  /\ UNCHANGED part
  /\ \/ part = "rollup" /\ Next /\ UNCHANGED <<registryVars, restVars>>
     \/ part = "registry" /\ RegistryNext /\ UNCHANGED <<vars, restVars>>
     \/ /\ UNCHANGED <<vars, registryVars>>
        /\ \/ /\ part = "crossings" /\ CrossingNext
              /\ UNCHANGED <<floorVars, drawingVars>>
           \/ /\ part = "floors" /\ FloorHistoryNext
              /\ UNCHANGED <<historyVars, drawingVars>>
           \/ /\ part = "drawing" /\ DrawingNext
              /\ UNCHANGED <<historyVars, floorVars>>

RecordsSpec == RecordsInit /\ [][RecordsNext]_recordsVars
=============================================================================
