-------------------------- MODULE CrossingHistory --------------------------
(***************************************************************************)
(* The table of line crossings as the history endpoints read it: bucketed  *)
(* net flow over a window, and the totals of one local day.  A crossing    *)
(* keeps the instant at which it happened, and the projector that stores   *)
(* it may be up to MaxLate late.  It also keeps the line it happened on,   *)
(* and goes when that line does.                                           *)
(*                                                                         *)
(* Time is in hours, a local day has DayLen of them and starts Offset      *)
(* before the UTC day; CrossingKeep is retention.crossing_days in hours, 0 *)
(* for ever.  A bound of a window is a text: epoch seconds, or a timestamp *)
(* that may carry a UTC offset.  A bucket width is a count and a unit; an  *)
(* hour is the finest one here.  A parameter that a request leaves out is  *)
(* the empty set.  Bounds: MaxClock ends the time, MaxCrossings the rows.  *)
(***************************************************************************)
EXTENDS Integers, FiniteSetsExt, Folds, Functions

CONSTANTS Areas, CountingLines, DayLen, Offset, WindowLen, CrossingKeep, MaxLate,
          MaxClock, MaxCrossings

(* The hours a day starts before the UTC day may be negative, west of it. *)
ASSUME HistoryConstants ==
  /\ DayLen \in Nat \ {0} /\ Offset \in Int /\ WindowLen \in Int
  /\ CrossingKeep \in Nat /\ MaxLate \in Nat

Directions == {"in", "out"}

VARIABLES clock,
          lineRows,      \* the ids in the table of lines
          events,        \* crossing_events: [id, line_id, area_id, ts, direction]
          happened,      \* ghost: every crossing ever stored
          cascaded       \* ghost: those whose line was deleted since

historyVars == <<clock, lineRows, events, happened, cascaded>>

CrossingInit == clock = 0 /\ lineRows = {} /\ events = {} /\ happened = {} /\ cascaded = {}

CreateLineRow(line) ==
  /\ line \notin lineRows /\ lineRows' = lineRows \cup {line}
  /\ UNCHANGED <<clock, events, happened, cascaded>>

(* A line is deleted, or a camera with its lines: their crossings go too,
   ON DELETE CASCADE.  The ids may be given again. *)
DeleteLineRows(gone) ==
  /\ lineRows' = lineRows \ gone
  /\ events' = {e \in events : e.line_id \notin gone}
  /\ cascaded' = cascaded \cup {e \in happened : e.line_id \in gone}
  /\ UNCHANGED <<clock, happened>>

(* The area is the one the engine knows the line by; a line that is not in the
   table is refused by the foreign key, and the crossing is lost. *)
PersistCrossing(line, area, direction) ==
  /\ line \in lineRows /\ Cardinality(happened) < MaxCrossings
  /\ \E late \in 0 .. MaxLate :
       LET e == [id |-> Cardinality(happened), line_id |-> line, area_id |-> area,
                 ts |-> clock - late, direction |-> direction]
       IN  /\ late <= clock
           /\ events' = events \cup {e}
           /\ happened' = happened \cup {e}
  /\ UNCHANGED <<clock, lineRows, cascaded>>

TickHour ==
  /\ clock < MaxClock /\ clock' = clock + 1
  /\ UNCHANGED <<lineRows, events, happened, cascaded>>

DeleteBefore(cutoff) == {e \in events : e.ts >= cutoff}

(* Retention: a window of 0 keeps the table. *)
PruneCrossings ==
  /\ CrossingKeep > 0
  /\ events' = DeleteBefore(clock - CrossingKeep)
  /\ UNCHANGED <<clock, lineRows, happened, cascaded>>

CrossingNext ==
  \/ \E line \in CountingLines : CreateLineRow(line)
  \/ \E gone \in (SUBSET lineRows) \ {{}} : DeleteLineRows(gone)
  \/ \E line \in CountingLines, area \in Areas, direction \in Directions :
       PersistCrossing(line, area, direction)
  \/ TickHour
  \/ PruneCrossings

CrossingSpec == CrossingInit /\ [][CrossingNext]_historyVars

------------------------------------------------------------------------------
(* The reads. *)

NetOf(rows) ==
  LET count(d) == Cardinality({e \in rows : e.direction = d})
  IN  [in |-> count("in"), out |-> count("out"), net |-> count("in") - count("out")]

Selected_ToInclusive(area, frm, to) ==
  {e \in events : e.area_id = area /\ frm <= e.ts /\ e.ts <= to}

(* The WHERE of both queries: [frm, to). *)
Selected(area, frm, to) ==
  {e \in events : e.area_id = area /\ frm <= e.ts /\ e.ts < to}

Totals(area, frm, to) == NetOf(Selected(area, frm, to))

FloorBucket(ts, seconds) == (ts \div seconds) * seconds

(* Only buckets that hold a row. *)
GroupByBucket(rows, seconds) ==
  [b \in {FloorBucket(e.ts, seconds) : e \in rows} |->
     {e \in rows : FloorBucket(e.ts, seconds) = b}]

QuerySeries(area, frm, to, seconds) ==
  LET buckets == GroupByBucket(Selected(area, frm, to), seconds)
  IN  [b \in DOMAIN buckets |-> NetOf(buckets[b])]

(* EntryExitService.history and daily. *)
History(area, frm, to, seconds) ==
  LET series == QuerySeries(area, frm, to, seconds)
  IN  [b \in DOMAIN series |-> series[b].net]

DailyTotals(area, day) == Totals(area, day.start, day.end)

------------------------------------------------------------------------------
(* The requests. *)

Given(param) == CHOOSE x \in param : TRUE

(* The digits of a text are taken back to UTC by the offset it carries. *)
ParseInstant(text) == text.digits - text.offset

Units == [h |-> 1, d |-> DayLen]

ParseBucketSeconds(text) == text.count * Units[text.unit]

(* By default the WindowLen up to now. *)
ResolveWindow(frm, to) ==
  LET end == IF to = {} THEN clock ELSE ParseInstant(Given(to))
  IN  [start |-> IF frm = {} THEN end - WindowLen ELSE ParseInstant(Given(frm)), end |-> end]

(* 422: an empty window, or a width of nothing. *)
Refused(frm, to, bucket) ==
  LET window == ResolveWindow(frm, to)
  IN  window.start >= window.end \/ ParseBucketSeconds(bucket) <= 0

EntryExitHistory(area, frm, to, bucket) ==
  LET window == ResolveWindow(frm, to)
  IN  History(area, window.start, window.end, ParseBucketSeconds(bucket))

(* By default today, by the local clock. *)
ResolveDay(date) ==
  LET day == IF date = {} THEN (clock + Offset) \div DayLen ELSE Given(date)
  IN  [start |-> day * DayLen - Offset, end |-> (day + 1) * DayLen - Offset]

EntryExitDaily(area, date) == DailyTotals(area, ResolveDay(date))

SumNets(points) == FoldFunction(+, 0, points)

------------------------------------------------------------------------------
Days == 0 .. (MaxClock + Offset) \div DayLen

DayOf(ts) == (ts + Offset) \div DayLen

Written(instant, offset) == {[digits |-> instant + offset, offset |-> offset]}

Buckets == [count : {0, 2}, unit : {"h"}] \union [count : {1}, unit : {"d"}]

(* What the history answers is what happened, whatever the window, the way its
   bounds are written and the bucket width, across late rows, retention and deleted
   lines: a day that began within retention has each of its crossings, but those
   whose line was deleted since, once and in no other day (entry_exit_daily), and
   the buckets of a window sum to its net flow (entry_exit_history; "a bound of
   13:00+02:00 must become 11:00 UTC, or it would select the wrong hour",
   _timeparse.py:50-53). *)
HistoryAddsUp ==
  \A area \in Areas :
    /\ \A date \in {{}} \union {{day} : day \in Days} :
         LET day == IF date = {} THEN DayOf(clock) ELSE Given(date)
             real == {e \in happened \ cascaded : e.area_id = area /\ DayOf(e.ts) = day}
         IN  CrossingKeep = 0 \/ ResolveDay(date).start >= clock - CrossingKeep
             => EntryExitDaily(area, date) = NetOf(real)
    /\ \A b \in Buckets, ahead \in {0, Offset} :
         \A start \in 0 .. clock, end \in 1 .. clock + 1 :
           LET frm == Written(start, ahead)
               to == Written(end, Offset - ahead)
           IN  ~Refused(frm, to, b) =>
                 SumNets(EntryExitHistory(area, frm, to, b)) = Totals(area, start, end).net
    /\ \A b \in Buckets :
         ~Refused({}, {}, b) =>
           SumNets(EntryExitHistory(area, {}, {}, b)) = Totals(area, clock - WindowLen, clock).net
==============================================================================
