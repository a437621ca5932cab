--------------------------- MODULE FrameAnalytics ----------------------------
(***************************************************************************)
(* What a camera pipeline does with a frame: from the tracks in it to the  *)
(* zone counts and line crossings it publishes, and on to the read model   *)
(* that the state projector writes.  A tracked camera debounces the zones  *)
(* and watches the lines; a snapshot camera counts the people it detects.  *)
(*                                                                         *)
(* Everything happens in the worker thread of one pipeline, so a frame is  *)
(* one step.  The bus swallows what a handler raises: any of the writes to *)
(* the read model may fail (RedisStateStore raises while Redis is away).   *)
(***************************************************************************)
EXTENDS ZonePresence, LineCrossing, FiniteSets

CONSTANTS Tracks, Zones,
          Points,               \* where a track can stand: pairs of integers
          ZonesAt,              \* the zones a track is a member of there
          Lines, Areas,
          LineAt, AreaOf,       \* line -> its geometry, line -> its area
          MaxPeople,            \* in a zone of a snapshot
          MaxCrossings          \* the bound on the crossings of an area

ASSUME AnalyticsConstants ==
    /\ IsFiniteSet(Tracks) /\ IsFiniteSet(Lines)
    /\ Zones \cap Areas = {}
    /\ Points \subseteq Int \X Int /\ Nowhere \notin Points
    /\ ZonesAt \in [Points -> SUBSET Zones]
    /\ LineAt \in [Lines -> [a : Int \X Int, b : Int \X Int, inward : Int \X Int]]
    /\ AreaOf \in [Lines -> Areas]
    /\ MaxPeople \in Nat /\ MaxCrossings \in Nat
    /\ Nowhere \notin Nat

VARIABLES
    \* _occ_from_detections
    fromDetections,
    \* ZonePresenceTracker._counters
    counters,
    \* LineCrossingDetector._last_point, _misses
    lastPoint, misses,
    \* OccupancyCalculator._last_count, EntryExitCalculator._area_counts
    lastCount, areaCounts,
    \* the read model: StateStore._occupancy, _counts
    occupancy, counts,
    \* ghosts: the last frames, newest first, as the pairs of a zone and a
    \* track in it; whether those frames make the pair present; the last
    \* places of each track, newest first
    ago, present, trail,
    \* ghosts: what the newest frame shows, the crossings in the areas since
    \* the pipeline started, and the zones and areas whose last write failed
    shown, crossed, missed,
    \* ghost: per line and track, the side that the crossings counted put it
    \* on; empty while it is not remembered, and once it has stood on the
    \* line or gone round its end
    ledger

inputs == <<ago, trail>>
model  == <<occupancy, counts>>
ghosts == <<inputs, present, shown, crossed, missed, ledger>>
vars   == <<fromDetections, counters, lastPoint, misses, lastCount, areaCounts,
            model, ghosts>>

Pairs  == Zones \X Tracks
Window == IF EnterFrames > LeaveFrames THEN EnterFrames ELSE LeaveFrames
None   == Nowhere
Nobody == [in |-> 0, out |-> 0]

(* What the collaborators of a new CameraPipeline know: nothing. *)
NoCounters  == [q \in Pairs |-> NoTrack]
NoPoints    == [t \in Tracks |-> Nowhere]
NoMisses    == [t \in Tracks |-> 0]
NothingSent == [z \in Zones |-> None]
NoCrossings == [a \in Areas |-> Nobody]

NoFrames    == [i \in 1 .. Window |-> {}]
NoPresence  == [q \in Pairs |-> FALSE]
NoTrail     == [t \in Tracks |-> [i \in 1 .. MaxGap + 1 |-> Nowhere]]
NoLedger    == [q \in Lines \X Tracks |-> {}]

Init ==
    /\ fromDetections \in BOOLEAN
    /\ counters = NoCounters
    /\ lastPoint = NoPoints /\ misses = NoMisses
    /\ lastCount = NothingSent /\ areaCounts = NoCrossings
    /\ occupancy = [z \in Zones |-> None]
    /\ counts = [a \in Areas |-> None]
    /\ ago = NoFrames /\ present = NoPresence /\ trail = NoTrail
    /\ shown = NothingSent /\ crossed = NoCrossings
    /\ missed = {} /\ ledger = NoLedger

(***************************************************************************)
(* The zones.  seen[t] is the point of a track in the frame, or Nowhere.   *)
(***************************************************************************)

Membership(seen) ==
    {q \in Pairs : IF seen[q[2]] = Nowhere THEN FALSE
                                           ELSE q[1] \in ZonesAt[seen[q[2]]]}

AdvanceZones(here) ==
    counters' = [q \in Pairs |-> IF q \in here THEN StepPresent(counters[q])
                                               ELSE StepAbsent(counters[q])]

Confirmed(z) == {t \in Tracks : IsConfirmed(counters[<<z, t>>])}

(* process_counts(): a zone whose count is not the last one emitted is     *)
(* published; failing are the zones and areas whose write to the read      *)
(* model fails.                                                            *)
Changed(count) == {z \in Zones : lastCount[z] # count[z]}

ProcessCounts(count, failing) ==
    /\ lastCount' = [z \in Zones |-> IF z \in Changed(count) THEN count[z]
                                                             ELSE lastCount[z]]
    /\ occupancy' = [z \in Zones |-> IF z \in Changed(count) \ failing
                                     THEN count[z] ELSE occupancy[z]]

(***************************************************************************)
(* The lines.                                                              *)
(***************************************************************************)

(* crossing_direction() for every movement between two points. *)
Movement == [l \in Lines |-> [p \in Points |-> [q \in Points |->
                CrossingDirection(p, q, LineAt[l])]]]

(* The crossings of a frame, as triples of line, track and direction, if   *)
(* before[t] is the point each track is joined with.                       *)
CrossingsFrom(before, seen) ==
    LET moved == {t \in Tracks : before[t] # Nowhere /\ seen[t] # Nowhere}
    IN {<<l, t, Movement[l][before[t]][seen[t]]>> : l \in Lines, t \in moved}
           \ (Lines \X Tracks \X {"none"})

Affected(cs) == {AreaOf[c[1]] : c \in cs}

InArea(cs, a, dir) == Cardinality({c \in cs : AreaOf[c[1]] = a /\ c[3] = dir})

Added(tally, cs) ==
    [a \in Areas |-> [in  |-> tally[a].in + InArea(cs, a, "in"),
                      out |-> tally[a].out + InArea(cs, a, "out")]]

DetectLines(seen) ==
    /\ lastPoint' = [t \in Tracks |-> NextPoint(seen[t], lastPoint[t], misses[t])]
    /\ misses' = [t \in Tracks |-> NextMisses(seen[t], lastPoint[t], misses[t])]

\* Mutant: the table is filled anew for each frame.
ProcessCrossings_Frame(cs, failing) ==
    /\ areaCounts' = [a \in Areas |-> IF a \in Affected(cs)
                                      THEN Added([b \in Areas |-> Nobody], cs)[a]
                                      ELSE areaCounts[a]]
    /\ counts' = [a \in Areas |-> IF a \in Affected(cs) \ failing
                                  THEN areaCounts'[a] ELSE counts[a]]

ProcessCrossings(cs, failing) ==
    /\ areaCounts' = Added(areaCounts, cs)
    /\ counts' = [a \in Areas |-> IF a \in Affected(cs) \ failing
                                  THEN areaCounts'[a] ELSE counts[a]]

(***************************************************************************)
(* Ghosts: what the frames themselves say, with no counter kept.           *)
(***************************************************************************)

Held(k, frames, q)   == \A i \in 1 .. k : q \in frames[i]
Absent(k, frames, q) == \A i \in 1 .. k : q \notin frames[i]

Pushed(x, f) == [i \in DOMAIN f |-> IF i = 1 THEN x ELSE f[i - 1]]

WatchZones(here) ==
    /\ ago' = Pushed(here, ago)
    /\ present' = [q \in Pairs |-> IF Held(EnterFrames, ago', q) THEN TRUE
                                   ELSE IF Absent(LeaveFrames, ago', q) THEN FALSE
                                   ELSE present[q]]

Sightings(places) == {i \in DOMAIN places : places[i] # Nowhere}

(* The newest place of a track in the last MaxGap + 1 frames. *)
Previous(places) ==
    IF Sightings(places) = {} THEN Nowhere
    ELSE places[CHOOSE i \in Sightings(places) :
                    \A j \in Sightings(places) : i <= j]

Passages(seen) ==
    CrossingsFrom([t \in Tracks |-> Previous(trail[t])], seen)

WatchLines(seen) ==
    /\ trail' = [t \in Tracks |-> Pushed(seen[t], trail[t])]
    /\ crossed' = Added(crossed, Passages(seen))

Depth(l, p) ==
    LET a == LineAt[l].a v == LineAt[l].inward
    IN (p[1] - a[1]) * v[1] + (p[2] - a[2]) * v[2]
Inside(l, p) == IF Depth(l, p) > 0 THEN 1 ELSE 0

(* The lines as draw_zones.py makes them: the direction that counts as in  *)
(* is the normal of the line (line_in_direction).  The API takes any.      *)
InwardIsNormal ==
    \A l \in Lines :
        LET a == LineAt[l].a b == LineAt[l].b v == LineAt[l].inward
        IN /\ a # b /\ v # <<0, 0>>
           /\ (b[1] - a[1]) * v[1] + (b[2] - a[2]) * v[2] = 0

(* The movement leaves no doubt: it stays on one side, or passes the line  *)
(* between its ends.                                                       *)
Clean == [l \in Lines |-> [p \in Points |-> [q \in Points |->
    /\ Depth(l, p) # 0 /\ Depth(l, q) # 0
    /\ Apart(Depth(l, p), Depth(l, q)) =>
           Apart(PointSide(p, q, LineAt[l].a), PointSide(p, q, LineAt[l].b))]]]

Posted(l, t, p, cs) ==
    LET old == ledger[<<l, t>>] prev == lastPoint[t]
    IN IF p = Nowhere
       THEN IF NextPoint(p, prev, misses[t]) = Nowhere THEN {} ELSE old
       ELSE IF prev = Nowhere
       THEN IF Depth(l, p) = 0 THEN {} ELSE {Inside(l, p)}
       ELSE IF ~Clean[l][prev][p] THEN {}
       ELSE IF <<l, t, "in">> \in cs  THEN {n + 1 : n \in old}
       ELSE IF <<l, t, "out">> \in cs THEN {n - 1 : n \in old}
       ELSE old

Post(seen, cs) ==
    ledger' = [q \in Lines \X Tracks |-> Posted(q[1], q[2], seen[q[2]], cs)]

Missing(count, cs, failing) ==
    missed' = (missed \ (Changed(count) \cup Affected(cs))) \cup failing

(***************************************************************************)
(* _process_frame(), for the two kinds of cameras, and a new pipeline.     *)
(***************************************************************************)

TrackedFrame(seen) ==
    LET here == Membership(seen)
        cs   == CrossingsFrom(lastPoint, seen)
        \* counts come from presence.confirmed of this very frame
        count == [z \in Zones |-> Cardinality(Confirmed(z)')]
    IN /\ ~fromDetections
       /\ \A a \in Areas : areaCounts[a].in + areaCounts[a].out < MaxCrossings
       /\ AdvanceZones(here) /\ DetectLines(seen)
       /\ WatchZones(here) /\ WatchLines(seen) /\ Post(seen, cs)
       /\ shown' = [z \in Zones |->
                       Cardinality({t \in Tracks : present'[<<z, t>>]})]
       /\ \E failing \in SUBSET (Changed(count) \cup Affected(cs)) :
              /\ ProcessCounts(count, failing)
              /\ ProcessCrossings(cs, failing)
              /\ Missing(count, cs, failing)
       /\ UNCHANGED fromDetections

DetectedFrame(count) ==
    /\ fromDetections
    /\ shown' = count
    /\ \E failing \in SUBSET Changed(count) :
           /\ ProcessCounts(count, failing)
           /\ Missing(count, {}, failing)
    /\ UNCHANGED <<fromDetections, counters, lastPoint, misses, areaCounts,
                   counts, inputs, present, crossed, ledger>>

(* The supervisor or a switch replaces the pipeline: the read model stays. *)
Restart ==
    /\ counters' = NoCounters
    /\ lastPoint' = NoPoints /\ misses' = NoMisses
    /\ lastCount' = NothingSent /\ areaCounts' = NoCrossings
    /\ ago' = NoFrames /\ present' = NoPresence /\ trail' = NoTrail
    /\ shown' = NothingSent /\ crossed' = NoCrossings /\ ledger' = NoLedger
    /\ UNCHANGED <<fromDetections, model, missed>>

Next ==
    \/ \E seen \in [Tracks -> Points \cup {Nowhere}] : TrackedFrame(seen)
    \/ \E count \in [Zones -> 0 .. MaxPeople] : DetectedFrame(count)
    \/ Restart

Spec == Init /\ [][Next]_vars

(***************************************************************************)
(* Properties.                                                             *)
(***************************************************************************)

Tally == [in : Nat, out : Nat]

(* Every variable holds what it is declared to hold; counters that have    *)
(* waited LeaveFrames frames are gone, and an unconfirmed track has not    *)
(* been present for EnterFrames frames (state_machine.py:150-173).         *)
TypeOK ==
    /\ fromDetections \in BOOLEAN
    /\ counters \in [Pairs -> TrackCounters \cup {NoTrack}]
    /\ lastPoint \in [Tracks -> Points \cup {Nowhere}]
    /\ misses \in [Tracks -> 0 .. MaxGap]
    /\ lastCount \in [Zones -> Nat \cup {None}]
    /\ areaCounts \in [Areas -> Tally]
    /\ occupancy \in [Zones -> Nat \cup {None}]
    /\ counts \in [Areas -> Tally \cup {None}]
    /\ ago \in [1 .. Window -> SUBSET Pairs]
    /\ present \in [Pairs -> BOOLEAN]
    /\ trail \in [Tracks -> [1 .. MaxGap + 1 -> Points \cup {Nowhere}]]
    /\ missed \subseteq Zones \cup Areas

(* A track is confirmed in a zone exactly when the frames say so: it was   *)
(* in the zone on EnterFrames frames in a row and has not since been out   *)
(* of it on LeaveFrames frames in a row, however it flickers in between    *)
(* (state_machine.py:62-66).                                               *)
Debounced == \A q \in Pairs : IsConfirmed(counters[q]) = present[q]

(* A track is remembered at its newest place in the last MaxGap + 1 frames *)
(* and forgotten after: a crossing survives a gap of MaxGap frames, and a  *)
(* reused identity does not jump (lines.py:43-49).                         *)
Remembered == \A t \in Tracks : lastPoint[t] = Previous(trail[t])

(* The read model shows the people of the newest frame for every zone      *)
(* whose last write succeeded, although only changes are published, and    *)
(* the crossings since the pipeline started for every area whose last      *)
(* write succeeded, although earlier writes may have failed                *)
(* (occupancy.py:83-94, projectors.py:66-77).                              *)
ReadModel ==
    /\ \A z \in Zones \ missed : shown[z] # None => occupancy[z] = shown[z]
    /\ \A a \in Areas \ missed : crossed[a] # Nobody => counts[a] = crossed[a]

(* Along the whole path of a track, gaps included, the crossings counted   *)
(* add up to the side of the line it is on, whichever way it wanders, as   *)
(* long as it neither stops on the line nor walks round its end            *)
(* (geometry.py:107-141, lines.py:71-101).                                 *)
NetTellsSide ==
    \A l \in Lines, t \in Tracks :
        ledger[<<l, t>>] \subseteq IF lastPoint[t] = Nowhere THEN {}
                                   ELSE {Inside(l, lastPoint[t])}
==============================================================================
