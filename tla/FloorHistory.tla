---------------------------- MODULE FloorHistory ----------------------------
(***************************************************************************)
(* Occupancy history as the API reads it from the rollup table: one series *)
(* per space, or the spaces of a floor summed bucket by bucket.  A space   *)
(* that no camera saw for a whole bucket has no row there; a row keeps the *)
(* floor its space was on when it was written.  Bounds: MaxBucket buckets, *)
(* MaxMoves changes of a space's floor; every space holds one person.      *)
(***************************************************************************)
EXTENDS Integers, FiniteSetsExt

CONSTANTS SpaceIds, FloorNames, NoFloor, RowLimit, MaxBucket, MaxMoves

ASSUME FloorConstants ==
  IsFiniteSet(SpaceIds) /\ RowLimit \in Nat /\ MaxBucket \in Nat /\ MaxMoves \in Nat

VARIABLES bucket,        \* the bucket being written
          table,         \* the rollup rows: [space_id, floor, bucket_ts, avg]
          floorNow,      \* the floor the zones give each space
          floorThen,     \* ghost: floorNow as it was when a bucket was written
          moves

floorVars == <<bucket, table, floorNow, floorThen, moves>>

FloorHistoryInit ==
  /\ bucket = 0 /\ table = {} /\ moves = 0
  /\ floorNow \in [SpaceIds -> FloorNames]
  /\ floorThen = [b \in 0 .. MaxBucket - 1 |-> floorNow]

(* A bucket ends: a row of each space that was seen in it. *)
WriteBucket(seen) ==
  /\ bucket < MaxBucket /\ bucket' = bucket + 1
  /\ table' = table \cup {[space_id |-> s, floor |-> floorNow[s],
                           bucket_ts |-> bucket, avg |-> 1] : s \in seen}
  /\ floorThen' = [floorThen EXCEPT ![bucket] = floorNow]
  /\ UNCHANGED <<floorNow, moves>>

MoveSpace(s, f) ==
  /\ moves < MaxMoves /\ moves' = moves + 1
  /\ f # floorNow[s]
  /\ floorNow' = [floorNow EXCEPT ![s] = f]
  /\ UNCHANGED <<bucket, table, floorThen>>

FloorHistoryNext ==
  \/ \E seen \in SUBSET SpaceIds : WriteBucket(seen)
  \/ \E s \in SpaceIds, f \in FloorNames \cup {NoFloor} : MoveSpace(s, f)

FloorHistorySpec == FloorHistoryInit /\ [][FloorHistoryNext]_floorVars

------------------------------------------------------------------------------
(* OccupancyRepository.query: an empty filter means no filter. *)
Query(frm, to, floors) ==
  {r \in table : /\ frm <= r.bucket_ts /\ r.bucket_ts < to
                 /\ floors # {} => r.floor \in floors}

(* More rows than the cap are refused (422), not cut off. *)
TooLarge(frm, to, floors) == Cardinality(Query(frm, to, floors)) > RowLimit

(* OccupancyService.history: the points of a space. *)
SeriesOf(rows) ==
  [s \in {r.space_id : r \in rows} |-> {r \in rows : r.space_id = s}]

Expected_InBucket(rows, f, b) == {r.space_id : r \in {q \in rows : q.floor = f /\ q.bucket_ts = b}}

(* Every space that reported anywhere on this floor in the window. *)
Expected(rows, f, b) == {r.space_id : r \in {q \in rows : q.floor = f}}

Averages(rows) == MapThenSumSet(LAMBDA r : r.avg, rows)

(* OccupancyService.history_by_floor: a row of no floor is left out. *)
ByFloor(rows) ==
  [f \in {r.floor : r \in rows} \ {NoFloor} |->
     LET on == {r \in rows : r.floor = f}
     IN  [b \in {r.bucket_ts : r \in on} |->
            LET members == {r \in on : r.bucket_ts = b}
            IN  [avg |-> Averages(members),
                 spaces_reporting |-> Cardinality(members),
                 spaces_expected |-> Cardinality(Expected(rows, f, b))]]]

------------------------------------------------------------------------------
(* The requests.  One is refused (422) for an empty window or too many rows. *)

Refuses(frm, to, floors) == frm >= to \/ TooLarge(frm, to, floors)

OccupancyHistory(frm, to, floors) == SeriesOf(Query(frm, to, floors))

OccupancyHistoryByFloor(frm, to, floors) == ByFloor(Query(frm, to, floors))

------------------------------------------------------------------------------
(* A floor's bucket never counts a person twice or on the wrong floor, and when it
   is not flagged (spaces_reporting = spaces_expected) it is the whole floor, but
   for spaces blind over the whole window: so a blind camera does not read as
   people leaving (history_by_floor).  A filter changes nothing in what it
   keeps, and the per-space answer sums to the same. *)
FloorsTellWhole ==
  \A frm, to \in 0 .. bucket :
    LET rows == Query(frm, to, {})
        series == OccupancyHistory(frm, to, {})
        answer == OccupancyHistoryByFloor(frm, to, {})
    IN  ~Refuses(frm, to, {}) =>
          /\ \A f \in DOMAIN answer :
               /\ ~Refuses(frm, to, {f})
               /\ OccupancyHistoryByFloor(frm, to, {f}) = [g \in {f} |-> answer[f]]
               /\ \A b \in DOMAIN answer[f] :
                    LET point == answer[f][b]
                        there == {s \in SpaceIds : floorThen[b][s] = f}
                        sometime == {s \in there : \E r \in rows : r.space_id = s /\ r.floor = f}
                    IN  /\ point.avg <= Cardinality(there)
                        /\ point.spaces_reporting = point.spaces_expected
                             => point.avg = Cardinality(sometime)
          /\ MapThenSumSet(LAMBDA s : Averages(series[s]), DOMAIN series) = Averages(rows)
==============================================================================
