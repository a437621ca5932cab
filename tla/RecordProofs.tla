---------------------------- MODULE RecordProofs ----------------------------
(***************************************************************************)
(* What the tables of the database hold, part by part as in MCRecords: the *)
(* hourly rollup (an hour behind the watermark is exact, retention deletes *)
(* no minute still needed, a turn of the loop catches up), the registry,   *)
(* the crossings, the floors, and the tools that draw and import zones.    *)
(***************************************************************************)
EXTENDS HistoryRollup, Registry, CrossingHistory, FloorHistory, ZoneFiles, RowProofs

Begin(h) == h * HourLen

LEMMA ProductsOrdered ==
  ASSUME NEW n \in Nat, NEW a \in Int, NEW b \in Int, a <= b
  PROVE  a * n <= b * n
<1>1. (b - a) * n >= 0
  OBVIOUS
<1> QED
  BY <1>1

LEMMA HourBounds ==
  ASSUME NEW t \in Int
  PROVE  /\ HourOf(t) \in Int /\ Begin(HourOf(t)) \in Int
         /\ Begin(HourOf(t)) <= t /\ t < Begin(HourOf(t)) + HourLen
<1>1. HourLen \in Nat \ {0}
  BY RollupConstants
<1> QED
  BY <1>1 DEF HourOf, Begin

LEMMA BeginNext ==
  ASSUME NEW h \in Int
  PROVE  Begin(h) \in Int /\ Begin(h + 1) = Begin(h) + HourLen
BY RollupConstants DEF Begin

LEMMA BeginOrdered ==
  ASSUME NEW g \in Int, NEW h \in Int, g <= h
  PROVE  Begin(g) <= Begin(h)
BY ProductsOrdered, RollupConstants DEF Begin

LEMMA HourReached ==
  ASSUME NEW t \in Int, NEW h \in Int
  PROVE  Begin(h) <= t <=> h <= HourOf(t)
<1>1. HourLen \in Nat /\ Begin(h) \in Int
  BY RollupConstants, BeginNext
<1>2. CASE h <= HourOf(t)
  <2>1. Begin(h) <= Begin(HourOf(t))
    BY <1>2, HourBounds, BeginOrdered
  <2> QED
    BY <1>1, <1>2, <2>1, HourBounds
<1>3. CASE HourOf(t) < h
  <2>1. HourOf(t) \in Int /\ HourOf(t) + 1 \in Int /\ HourOf(t) + 1 <= h
    BY <1>3, HourBounds
  <2>2. Begin(HourOf(t) + 1) <= Begin(h)
    BY <2>1, BeginOrdered
  <2>3. Begin(HourOf(t)) + HourLen <= Begin(h)
    BY <2>1, <2>2, BeginNext
  <2> QED
    BY <1>1, <1>3, <2>3, HourBounds
<1> QED
  BY <1>2, <1>3, HourBounds

LEMMA HoursOrdered ==
  ASSUME NEW t \in Int, NEW u \in Int, t <= u
  PROVE  HourOf(t) <= HourOf(u)
<1>1. Begin(HourOf(t)) <= u /\ HourOf(t) \in Int
  BY HourBounds
<1> QED
  BY <1>1, HourReached

LEMMA HourZero == Begin(0) = 0 /\ Begin(-1) = -HourLen /\ HourOf(0) = 0
BY RollupConstants DEF Begin, HourOf

-----------------------------------------------------------------------------
(* The invariant of the rollup.                                            *)

HourKey(k) == <<k[1], HourOf(k[2])>>

MinutesOf(tbl, h) == {k \in DOMAIN tbl : HourKey(k) = h}

RowOf(tbl, h) == Aggregate([k \in MinutesOf(tbl, h) |-> tbl[k]])

Exact(tbl, h) == h \in DOMAIN tbl /\ tbl[h] = truth[h]

(* The minutes of an hour still say all that was written of it.            *)
Intact(h) == MinutesOf(minutes, h) # {} /\ RowOf(minutes, h) = truth[h]

Mark == IF hours = EmptyTable THEN -1 ELSE Watermark

(* The pauses that failed turns of the worker's loop may have cost it.     *)
Pending == faults + (IF pc = "commit" THEN 1 ELSE 0)

Unexpired(t) == MinKeep > 0 => t >= at - MinKeep

(* Time: a minute is written at least every Quiet minutes, and the worker  *)
(* is not further behind than its pauses make it.                          *)
WrittenLately == now <= newest + Quiet + 1

TurnLately == at <= now /\ now <= at + Lag

MinuteNear ==
  \A m \in 0..newest : m >= Quiet /\ Unexpired(m - Quiet)
    => \E k \in DOMAIN minutes : m - Quiet <= k[2] /\ k[2] <= m

NewestThere == newest >= 0 /\ Unexpired(newest) => \E k \in DOMAIN minutes : k[2] = newest

MarkNear == at <= Begin(Mark) + Slack + Lag * Pending

RolledNear == pc = "commit" => \E g \in DOMAIN rolled : at <= Begin(g[2]) + Slack

HoursWritten == \A k \in DOMAIN hours \union DOMAIN rolled : k[2] <= HourOf(newest)

(* The rows: the hours from the watermark on can be rolled up again, the   *)
(* ones behind it are exact or past their retention.                       *)
AllInTruth == \A k \in DOMAIN minutes : HourKey(k) \in DOMAIN truth

AheadIntact == \A h \in DOMAIN truth : h[2] >= Mark => Intact(h)

BehindExact ==
  \A h \in DOMAIN truth, g \in DOMAIN hours : g[2] <= h[2] /\ h[2] < Mark => Exact(hours, h)

BehindKept ==
  \A h \in DOMAIN truth :
    h[2] < Mark => Exact(hours, h) \/ (HourKeep > 0 /\ Begin(h[2]) < at - HourKeep)

RolledExact ==
  pc = "commit" =>
    /\ DOMAIN rolled # {} /\ \A g \in DOMAIN rolled : g[2] >= Mark
    /\ \A h \in DOMAIN truth, g \in DOMAIN rolled :
         Mark <= h[2] /\ h[2] < g[2] => Exact(rolled, h)

InTime == /\ WrittenLately /\ TurnLately /\ MinuteNear /\ NewestThere
          /\ MarkNear /\ RolledNear /\ HoursWritten

InFull == AllInTruth /\ AheadIntact /\ BehindExact /\ BehindKept /\ RolledExact

RollupInv == TypeOK /\ InTime /\ InFull

-----------------------------------------------------------------------------
(* The types.                                                              *)

LEMMA TypesAre ==
  ASSUME TypeOK
  PROVE  /\ now \in Nat /\ at \in Nat /\ newest \in Int /\ newest >= -1 /\ newest <= now
         /\ now <= MaxMinute /\ at <= now
         /\ IsTable(minutes) /\ IsTable(hours) /\ IsTable(rolled) /\ IsTable(truth)
         /\ \A k \in DOMAIN minutes :
              k = <<k[1], k[2]>> /\ k[1] \in Spaces /\ k[2] \in Nat /\ k[2] <= newest
         /\ \A h \in DOMAIN hours \union DOMAIN rolled \union DOMAIN truth :
              h = <<h[1], h[2]>> /\ h[1] \in Spaces /\ h[2] \in Hours
         /\ faults \in Nat /\ faults <= MaxFaults
<1>1. MaxMinute \in Nat /\ MaxFaults \in Nat
  BY RollupConstants
<1>2. now \in Nat /\ at \in Nat /\ newest \in Int /\ newest >= -1 /\ newest <= now
      /\ now <= MaxMinute /\ at <= now /\ faults \in Nat /\ faults <= MaxFaults
  BY <1>1 DEF TypeOK, Minutes
<1>3. IsTable(minutes) /\ IsTable(hours) /\ IsTable(rolled) /\ IsTable(truth)
  BY DEF TypeOK, IsTable
<1>4. \A k \in DOMAIN minutes :
        k = <<k[1], k[2]>> /\ k[1] \in Spaces /\ k[2] \in Nat /\ k[2] <= newest
  BY <1>2 DEF TypeOK
<1>5. \A h \in DOMAIN hours \union DOMAIN rolled \union DOMAIN truth :
        h = <<h[1], h[2]>> /\ h[1] \in Spaces /\ h[2] \in Hours
  BY DEF TypeOK
<1> QED
  BY <1>2, <1>3, <1>4, <1>5

LEMMA HoursAre == \A h \in Hours : h \in Nat /\ h <= HourOf(MaxMinute)
BY RollupConstants, HourBounds DEF Hours, HourOf

LEMMA HourInHours ==
  ASSUME NEW t \in Nat, t <= MaxMinute
  PROVE  HourOf(t) \in Hours
<1>1. HourOf(0) <= HourOf(t) /\ HourOf(t) <= HourOf(MaxMinute) /\ HourOf(t) \in Int
  BY HoursOrdered, HourBounds, RollupConstants
<1> QED
  BY <1>1, HourZero DEF Hours, HourOf

LEMMA MinutesFinite ==
  ASSUME TypeOK
  PROVE  IsFiniteSet(DOMAIN minutes)
<1>1. IsFiniteSet(0..newest) /\ IsFiniteSet(Spaces)
  BY TypesAre, FS_Interval, RollupConstants
<1>2. IsFiniteSet(Spaces \X (0..newest))
  BY <1>1, FS_Product
<1> QED
  BY <1>2, FS_Subset DEF TypeOK

LEMMA EmptyHours ==
  ASSUME TypeOK
  PROVE  hours = EmptyTable <=> DOMAIN hours = {}
BY TypesAre, SameTable, EmptyIsTable

(* The watermark is the newest hour of the table.                          *)
MarkOf(tbl) == IF tbl = EmptyTable THEN -1 ELSE Max({k[2] : k \in DOMAIN tbl})

HourTable(tbl) == IsTable(tbl) /\ \A g \in DOMAIN tbl : g[2] \in Hours

LEMMA MarkOfIs ==
  ASSUME NEW tbl, HourTable(tbl)
  PROVE  /\ MarkOf(tbl) \in Int /\ MarkOf(tbl) >= -1
         /\ \A g \in DOMAIN tbl : g[2] <= MarkOf(tbl)
         /\ tbl = EmptyTable => MarkOf(tbl) = -1
         /\ tbl # EmptyTable => /\ MarkOf(tbl) \in Nat
                                  /\ \E g \in DOMAIN tbl : g[2] = MarkOf(tbl)
<1>0. tbl = EmptyTable <=> DOMAIN tbl = {}
  BY SameTable, EmptyIsTable DEF HourTable
<1>1. CASE tbl = EmptyTable
  BY <1>0, <1>1 DEF MarkOf
<1>2. CASE tbl # EmptyTable
  <2>1. PICK S : S = {k[2] : k \in DOMAIN tbl}
    OBVIOUS
  <2>2. S # {}
    BY <1>0, <1>2, <2>1
  <2>3. HourOf(MaxMinute) \in Nat
    BY HourInHours, HoursAre, RollupConstants
  <2>4. S \subseteq 0..HourOf(MaxMinute)
    BY <2>1, <2>3, HoursAre DEF HourTable
  <2>5. PICK m : m = MarkOf(tbl)
    OBVIOUS
  <2>6. m = Max(S)
    BY <1>2, <2>1, <2>5 DEF MarkOf
  <2>7. m \in S /\ \A y \in S : y <= m
    BY <2>2, <2>3, <2>4, <2>6, MaxOfBounded
  <2>8. m \in Nat
    BY <2>3, <2>4, <2>7
  <2>9. (\A g \in DOMAIN tbl : g[2] <= m) /\ (\E g \in DOMAIN tbl : g[2] = m)
    BY <2>1, <2>7
  <2> QED
    BY <1>2, <2>5, <2>8, <2>9
<1> QED
  BY <1>1, <1>2

LEMMA TypesOfHours == TypeOK => HourTable(hours) /\ Mark = MarkOf(hours)
BY TypesAre DEF HourTable, Mark, MarkOf, Watermark

LEMMA TypesOfHoursNext == TypeOK' => HourTable(hours') /\ Mark' = MarkOf(hours')
BY DEF TypeOK, HourTable, IsTable, Mark, MarkOf, Watermark

LEMMA MarkIs ==
  ASSUME TypeOK
  PROVE  /\ Mark \in Int /\ Mark >= -1
         /\ \A g \in DOMAIN hours : g[2] <= Mark
         /\ hours = EmptyTable => Mark = -1
         /\ hours # EmptyTable => /\ Mark = Watermark /\ Mark \in Nat
                                  /\ \E g \in DOMAIN hours : g[2] = Mark
<1>1. hours # EmptyTable => Mark = Watermark
  BY DEF Mark
<1> QED
  BY <1>1, TypesOfHours, MarkOfIs

(* Two tables of hours have one watermark when the newest hour of one is   *)
(* in the other, and it has none that is newer.                            *)
LEMMA MarkSame ==
  ASSUME NEW t, NEW u, HourTable(t), HourTable(u), DOMAIN u \subseteq DOMAIN t,
         \A g \in DOMAIN t : g[2] = MarkOf(t) => g \in DOMAIN u
  PROVE  MarkOf(u) = MarkOf(t)
<1>1. CASE t = EmptyTable
  <2>1. u = EmptyTable
    BY <1>1, SameTable, EmptyIsTable DEF HourTable
  <2> QED
    BY <1>1, <2>1
<1>2. CASE t # EmptyTable
  <2>1. PICK g \in DOMAIN t : g[2] = MarkOf(t)
    BY <1>2, MarkOfIs
  <2>2. g \in DOMAIN u /\ u # EmptyTable
    BY <2>1, EmptyIsTable
  <2>3. PICK h \in DOMAIN u : h[2] = MarkOf(u)
    BY <2>2, MarkOfIs
  <2>4. h \in DOMAIN t /\ g[2] <= MarkOf(u) /\ h[2] <= MarkOf(t)
    BY <2>1, <2>2, <2>3, MarkOfIs
  <2>5. MarkOf(t) \in Int /\ MarkOf(u) \in Int
    BY MarkOfIs
  <2> QED
    BY <2>1, <2>3, <2>4, <2>5
<1> QED
  BY <1>1, <1>2

(* The rows that are put over a table, none behind its watermark, bring    *)
(* the new watermark.                                                      *)
LEMMA MarkMoves ==
  ASSUME NEW t, NEW u, NEW new, HourTable(t), HourTable(u), HourTable(new), DOMAIN u # {},
         DOMAIN new = DOMAIN t \union DOMAIN u, \A g \in DOMAIN u : g[2] >= MarkOf(t)
  PROVE  /\ MarkOf(new) >= MarkOf(t) /\ \E g \in DOMAIN u : g[2] = MarkOf(new)
<1>1. /\ MarkOf(new) \in Int /\ MarkOf(t) \in Int
      /\ \A g \in DOMAIN new : g[2] <= MarkOf(new)
      /\ \A g \in DOMAIN t : g[2] <= MarkOf(t)
  BY MarkOfIs
<1>2. PICK r \in DOMAIN u : TRUE
  OBVIOUS
<1>3. r[2] \in Int
  BY HoursAre DEF HourTable
<1>4. MarkOf(t) <= r[2] /\ r[2] <= MarkOf(new)
  BY <1>1, <1>2, <1>3
<1>5. new # EmptyTable
  BY <1>2, EmptyIsTable
<1>6. PICK g \in DOMAIN new : g[2] = MarkOf(new)
  BY <1>5, MarkOfIs
<1>7. CASE g \in DOMAIN t
  BY <1>1, <1>3, <1>4, <1>6, <1>7
<1>8. CASE g \in DOMAIN u
  BY <1>1, <1>3, <1>4, <1>6, <1>8
<1> QED
  BY <1>6, <1>7, <1>8

LEMMA SeriesFold ==
  /\ \A t, u : Series!Fold(t, u) = Fold(t, u)
  /\ Series!EmptyTable = EmptyTable
BY DEF Fold, Merge, Least, Greatest, EmptyTable, Series!Fold, Series!Merge, Series!Least,
       Series!Greatest, Series!EmptyTable

(* A flush brings the rows of one minute, the same for every space here.   *)
Rows(S, t, r) == [k \in S \X {t} |-> r]

Brought(t, S, r) ==
  /\ t \in 0..now /\ t >= newest /\ S \subseteq Spaces /\ S # {} /\ r \in Row
  /\ newest' = t
  /\ minutes' = Fold(minutes, Rows(S, t, r))
  /\ truth' = Fold(truth, Rows(S, HourOf(t), r))
  /\ UNCHANGED <<now, hours, pc, at, rolled, lastPrune, faults>>

LEMMA FlushBrings ==
  ASSUME Flush
  PROVE  \E t, S, r : Brought(t, S, r)
<1>1. PICK t \in 0..now, S \in (SUBSET Spaces) \ {{}}, r \in NewRows :
        Series!Write(t, Rows(S, t, r)) /\ truth' = Fold(truth, Rows(S, HourOf(t), r))
  BY DEF Flush, Rows
<1>2. t >= newest /\ newest' = t /\ minutes' = Fold(minutes, Rows(S, t, r))
  BY <1>1, SeriesFold DEF Series!Write
<1>3. UNCHANGED <<now, hours, pc, at, rolled, lastPrune, faults>>
  BY DEF Flush, worker
<1>4. t \in 0..now /\ S \subseteq Spaces /\ S # {} /\ r \in Row
  <2>1. S \subseteq Spaces
    BY <1>1
  <2>2. S # {}
    BY <1>1
  <2>3. r \in Row
    BY RollupConstants
  <2> QED
    BY <2>1, <2>2, <2>3
<1>5. Brought(t, S, r)
  BY <1>1, <1>2, <1>3, <1>4 DEF Brought
<1> QED
  BY <1>5

LEMMA RowsBrought ==
  ASSUME NEW S, NEW t, NEW r \in Row
  PROVE  /\ IsTable(Rows(S, t, r)) /\ DOMAIN Rows(S, t, r) = S \X {t}
         /\ \A k \in S \X {t} : Rows(S, t, r)[k] = r
BY DEF IsTable, Rows

LEMMA AggregateRow ==
  ASSUME NEW tbl, IsTable(tbl), IsFiniteSet(DOMAIN tbl), DOMAIN tbl # {}
  PROVE  Aggregate(tbl) \in Row
<1>1. PICK y \in DOMAIN tbl : TRUE
  OBVIOUS
<1>2. PICK new : new = [tbl EXCEPT ![y] = Merge(tbl[y], tbl[y])]
  OBVIOUS
<1>3. tbl[y] \in Row /\ Merge(tbl[y], tbl[y]) \in Row
  BY <1>1, MergeRow DEF IsTable
<1>4. IsTable(new) /\ DOMAIN new = DOMAIN tbl \union {y}
  BY <1>1, <1>2, <1>3 DEF IsTable
<1> QED
  BY <1>1, <1>2, <1>3, <1>4, AggregateGrows

(* The rows that run_once() makes.                                         *)
LEMMA RolledAre ==
  ASSUME TypeOK, NEW keys, keys \subseteq DOMAIN minutes
  PROVE  LET made == AggregateToHours(keys)
         IN  /\ DOMAIN made = {HourKey(k) : k \in keys}
             /\ IsTable(made)
             /\ \A h \in DOMAIN made :
                  made[h] = Aggregate([k \in {j \in keys : HourKey(j) = h} |-> minutes[k]])
<1> DEFINE made == AggregateToHours(keys)
           Feeding(h) == [k \in {j \in keys : HourKey(j) = h} |-> minutes[k]]
<1>1. /\ DOMAIN made = {HourKey(k) : k \in keys}
      /\ made = [h \in DOMAIN made |-> Aggregate(Feeding(h))]
  BY DEF AggregateToHours, HourKey
<1>2. ASSUME NEW h \in DOMAIN made
      PROVE  Aggregate(Feeding(h)) \in Row
  <2>1. DOMAIN Feeding(h) = {j \in keys : HourKey(j) = h}
    OBVIOUS
  <2>2. DOMAIN Feeding(h) # {} /\ DOMAIN Feeding(h) \subseteq DOMAIN minutes
    BY <1>1, <1>2, <2>1
  <2>3. IsFiniteSet(DOMAIN Feeding(h))
    BY <2>2, MinutesFinite, FS_Subset
  <2>4. IsTable(Feeding(h))
    BY <2>1, <2>2, TypesAre DEF IsTable
  <2> HIDE DEF Feeding
  <2> QED
    BY <2>2, <2>3, <2>4, AggregateRow
<1> HIDE DEF made, Feeding
<1>3. IsTable(made)
  BY <1>1, <1>2 DEF IsTable
<1> QED
  BY <1>1, <1>3 DEF made, Feeding

LEMMA FoldKeeps ==
  ASSUME NEW t, NEW u
  PROVE  /\ DOMAIN Fold(t, u) = DOMAIN t \union DOMAIN u
         /\ \A k \in DOMAIN t \ DOMAIN u : Fold(t, u)[k] = t[k]
BY DEF Fold

LEMMA OnlyIs ==
  ASSUME NEW t, NEW K, IsTable(t)
  PROVE  /\ IsTable(Only(t, K)) /\ DOMAIN Only(t, K) = DOMAIN t \intersect K
         /\ \A k \in DOMAIN Only(t, K) : Only(t, K)[k] = t[k]
BY DEF Only, IsTable

LEMMA OverwriteIs ==
  ASSUME NEW t, NEW u, IsTable(t), IsTable(u)
  PROVE  /\ IsTable(Overwrite(t, u)) /\ DOMAIN Overwrite(t, u) = DOMAIN t \union DOMAIN u
         /\ \A k \in DOMAIN u : Overwrite(t, u)[k] = u[k]
         /\ \A k \in DOMAIN t \ DOMAIN u : Overwrite(t, u)[k] = t[k]
BY DEF Overwrite, IsTable

(* A table after Prune: some of its rows, the ones within the window among *)
(* them.                                                                   *)
Outlives(tbl, left, length, window) ==
  /\ IsTable(left) /\ DOMAIN left \subseteq DOMAIN tbl
  /\ \A k \in DOMAIN left : left[k] = tbl[k]
  /\ \A k \in DOMAIN tbl \ DOMAIN left : window # 0 /\ ~(k[2] * length >= at - window)

LEMMA KeptOutlives ==
  ASSUME NEW tbl, IsTable(tbl), NEW length, NEW window
  PROVE  Outlives(tbl, Kept(tbl, length, window), length, window)
<1> DEFINE K == {k \in DOMAIN tbl : window = 0 \/ k[2] * length >= at - window}
           left == Only(tbl, K)
<1>1. /\ IsTable(left) /\ DOMAIN left = DOMAIN tbl \intersect K
      /\ \A k \in DOMAIN left : left[k] = tbl[k]
  BY OnlyIs
<1>2. \A k \in DOMAIN tbl \ K : window # 0 /\ ~(k[2] * length >= at - window)
  OBVIOUS
<1> HIDE DEF K, left
<1>3. Outlives(tbl, left, length, window)
  BY <1>1, <1>2 DEF Outlives
<1> QED
  BY <1>3 DEF Kept, K, left

LEMMA PruneKeeps ==
  ASSUME TypeOK, Prune
  PROVE  /\ Outlives(minutes, minutes', 1, MinKeep) /\ Outlives(hours, hours', HourLen, HourKeep)
         /\ IsTable(minutes') /\ DOMAIN minutes' \subseteq DOMAIN minutes
         /\ IsTable(hours') /\ DOMAIN hours' \subseteq DOMAIN hours
         /\ \/ hours' = hours
            \/ \A g \in DOMAIN hours' : HourKeep = 0 \/ g[2] * HourLen >= at - HourKeep
<1>1. IsTable(minutes) /\ IsTable(hours)
  BY TypesAre
<1>2. /\ Outlives(minutes, minutes', 1, MinKeep) /\ Outlives(hours, hours', HourLen, HourKeep)
  <2>1. CASE PruneDue
    BY <1>1, <2>1, KeptOutlives DEF Prune
  <2>2. CASE ~PruneDue
    BY <1>1, <2>2 DEF Prune, Outlives
  <2> QED
    BY <2>1, <2>2
<1>3. \/ hours' = hours
      \/ \A g \in DOMAIN hours' : HourKeep = 0 \/ g[2] * HourLen >= at - HourKeep
  <2>1. CASE PruneDue
    <3>1. PICK K : K = {k \in DOMAIN hours : HourKeep = 0 \/ k[2] * HourLen >= at - HourKeep}
      OBVIOUS
    <3>2. hours' = Only(hours, K)
      BY <2>1, <3>1 DEF Prune, Kept
    <3>3. DOMAIN Only(hours, K) = DOMAIN hours \intersect K
      BY <1>1, OnlyIs
    <3> QED
      BY <3>1, <3>2, <3>3
  <2>2. CASE ~PruneDue
    BY <2>2 DEF Prune
  <2> QED
    BY <2>1, <2>2
<1> QED
  BY <1>2, <1>3 DEF Outlives

LEMMA InitTypes == Init => TypeOK
<1> SUFFICES ASSUME Init PROVE TypeOK
  OBVIOUS
<1>1. minutes = EmptyTable /\ newest = -1
  BY SeriesFold DEF Init, Series!SeriesInit
<1>2. EmptyTable \in [DOMAIN EmptyTable -> Row] /\ DOMAIN EmptyTable = {}
  BY EmptyIsTable DEF IsTable
<1> QED
  BY <1>1, <1>2, RollupConstants DEF Init, TypeOK, Minutes

LEMMA TypesKept == TypeOK /\ [Next]_vars => TypeOK'
<1> SUFFICES ASSUME TypeOK, [Next]_vars PROVE TypeOK'
  OBVIOUS
<1> USE RollupConstants
<1>1. CASE Tick
  BY <1>1 DEF Tick, TypeOK, Minutes, worker
<1>2. CASE Flush
  <2>1. PICK t, S, r : Brought(t, S, r)
    BY <1>2, FlushBrings
  <2>2. folds' \in 0..MaxFolds
    BY <1>2 DEF Flush, TypeOK
  <2>3. t \in Nat /\ t <= MaxMinute /\ HourOf(t) \in Hours /\ newest <= t /\ newest \in Int
    BY <2>1, TypesAre, HourInHours DEF Brought
  <2>9. IsTable(minutes) /\ IsTable(truth) /\ r \in Row
    BY <2>1, TypesAre DEF Brought
  <2>4. IsTable(minutes') /\ DOMAIN minutes' = DOMAIN minutes \union (S \X {t})
    <3>1. PICK b : b = Rows(S, t, r)
      OBVIOUS
    <3>2. minutes' = Fold(minutes, b)
      BY <2>1, <3>1 DEF Brought
    <3>3. IsTable(b) /\ DOMAIN b = S \X {t}
      BY <2>9, <3>1, RowsBrought
    <3> QED
      BY <2>9, <3>2, <3>3, FoldTable, FoldKeeps
  <2>5. IsTable(truth') /\ DOMAIN truth' = DOMAIN truth \union (S \X {HourOf(t)})
    <3>1. PICK b : b = Rows(S, HourOf(t), r)
      OBVIOUS
    <3>2. truth' = Fold(truth, b)
      BY <2>1, <3>1 DEF Brought
    <3>3. IsTable(b) /\ DOMAIN b = S \X {HourOf(t)}
      BY <2>9, <3>1, RowsBrought
    <3> QED
      BY <2>9, <3>2, <3>3, FoldTable, FoldKeeps
  <2>6. DOMAIN minutes' \subseteq Spaces \X (0..newest')
    BY <2>1, <2>3, <2>4 DEF Brought, TypeOK
  <2>7. DOMAIN truth' \subseteq Spaces \X Hours
    BY <2>1, <2>3, <2>5 DEF Brought, TypeOK
  <2>8. newest' \in -1..now'
    BY <2>1, TypesAre DEF Brought
  <2> QED
    BY <2>1, <2>2, <2>4, <2>5, <2>6, <2>7, <2>8 DEF Brought, TypeOK, IsTable
<1>3. CASE RunOnce
  <2>1. Due \subseteq DOMAIN minutes
    BY DEF Due
  <2>2. IsTable(rolled') /\ DOMAIN rolled' = {HourKey(k) : k \in Due}
    BY <1>3, <2>1, RolledAre DEF RunOnce
  <2>3. \A k \in Due : k[1] \in Spaces /\ k[2] \in Nat /\ k[2] <= MaxMinute
    BY <2>1, TypesAre
  <2>4. DOMAIN rolled' \subseteq Spaces \X Hours
    BY <2>2, <2>3, HourInHours DEF HourKey
  <2>5. at' \in 0..now'
    BY <1>3, TypesAre DEF RunOnce
  <2> QED
    BY <1>3, <2>2, <2>4, <2>5 DEF RunOnce, TypeOK, IsTable
<1>4. CASE Commit
  <2>1. IsTable(hours') /\ DOMAIN hours' = DOMAIN hours \union DOMAIN rolled
    BY <1>4, TypesAre, OverwriteIs DEF Commit
  <2> QED
    BY <1>4, <2>1, EmptyIsTable DEF Commit, TypeOK, IsTable
<1>5. CASE RollupFails
  <2>1. /\ UNCHANGED <<now, minutes, newest, hours, at, lastPrune, truth, folds>>
        /\ rolled' = EmptyTable /\ pc' = "prune" /\ faults' = faults + 1 /\ faults < MaxFaults
    BY <1>5 DEF RollupFails, Fault
  <2>2. faults' \in 0..MaxFaults
    BY <2>1, TypesAre, RollupConstants
  <2> QED
    BY <2>1, <2>2, EmptyIsTable DEF TypeOK, IsTable
<1>6. CASE Prune
  <2>1. /\ IsTable(minutes') /\ DOMAIN minutes' \subseteq DOMAIN minutes
        /\ IsTable(hours') /\ DOMAIN hours' \subseteq DOMAIN hours
    BY <1>6, PruneKeeps
  <2>2. lastPrune' \in Minutes \union {None}
    BY <1>6 DEF Prune, TypeOK, Minutes
  <2> QED
    BY <1>6, <2>1, <2>2 DEF Prune, TypeOK, IsTable
<1>7. CASE PruneFails
  BY <1>7 DEF PruneFails, Fault, TypeOK
<1>8. CASE Restart
  <2>1. /\ UNCHANGED <<now, minutes, newest, hours, at, truth, folds>>
        /\ rolled' = EmptyTable /\ pc' = "wait" /\ lastPrune' = None
        /\ faults' = faults + 1 /\ faults < MaxFaults
    BY <1>8 DEF Restart, Fault
  <2>2. faults' \in 0..MaxFaults
    BY <2>1, TypesAre, RollupConstants
  <2> QED
    BY <2>1, <2>2, EmptyIsTable DEF TypeOK, IsTable
<1>9. CASE UNCHANGED vars
  BY <1>9 DEF vars, worker, TypeOK
<1> QED
  BY <1>1, <1>2, <1>3, <1>4, <1>5, <1>6, <1>7, <1>8, <1>9 DEF Next, Worker

-----------------------------------------------------------------------------
(* The worker is never far behind.                                         *)

LEMMA Pauses ==
  ASSUME NEW p \in Nat
  PROVE  /\ Lag \in Nat /\ Lag * p \in Nat /\ Lag * (p + 1) = Lag * p + Lag
         /\ \A q \in Nat : p <= q => Lag * p <= Lag * q
<1>1. \A q \in Nat : Lag * q = q * Lag
  BY RollupConstants
<1> QED
  BY <1>1, ProductsOrdered, RollupConstants

(* What the retention windows outlast, after p failed turns.               *)
LEMMA Outlast ==
  ASSUME RetentionOutlasts, NEW p \in Nat, p <= MaxFaults
  PROVE  /\ Lookback >= HourLen + Quiet - 1 + Lag * p + Lag
         /\ MinKeep > 0 => MinKeep >= Slack + Lag * p
         /\ HourKeep > 0 => HourKeep >= Slack + Lag * p
         /\ Slack = 2 * HourLen + Quiet - 1
<1>1. /\ Lag * p \in Nat /\ Lag * MaxFaults \in Nat /\ Lag \in Nat /\ Lag * p <= Lag * MaxFaults
      /\ Lag * (MaxFaults + 1) = Lag * MaxFaults + Lag
  BY Pauses, RollupConstants
<1>2. /\ HourLen \in Nat \ {0} /\ MinKeep \in Nat /\ HourKeep \in Nat
      /\ Lookback \in Nat /\ Quiet \in Nat
  BY RollupConstants
<1>3. Slack \in Int
  BY <1>2 DEF Slack
<1> QED
  BY <1>1, <1>2, <1>3 DEF RetentionOutlasts, Slack

(* While it waits, all of its faults are behind it.                        *)
LEMMA WaitingNear ==
  ASSUME TypeOK, InTime, RetentionOutlasts, pc = "wait"
  PROVE  /\ at <= Begin(Mark) + Slack + Lag * faults
         /\ now <= Begin(Mark) + Slack + Lag * faults + Lag
         /\ Lag * faults \in Nat
<1>1. faults \in Nat /\ Pending = faults
  BY TypesAre DEF Pending
<1> QED
  BY <1>1, Pauses, TypesAre, MarkIs, BeginNext, RollupConstants
     DEF InTime, MarkNear, TurnLately, Slack

(* run_once() reads the minutes of the complete hours from the watermark   *)
(* on: a cold start reaches back to the first of them.                     *)
LEMMA DueIs ==
  ASSUME TypeOK, InTime, RetentionOutlasts, pc = "wait"
  PROVE  Due = {k \in DOMAIN minutes : Mark <= HourOf(k[2]) /\ HourOf(k[2]) < HourOf(now)}
<1>1. ASSUME NEW k \in DOMAIN minutes
      PROVE  k[2] >= Start <=> Mark <= HourOf(k[2])
  <2>1. k[2] \in Nat /\ HourOf(k[2]) \in Int /\ now \in Nat
    BY TypesAre, HourBounds
  <2>2. CASE hours = EmptyTable
    <3>1. Mark = -1
      BY <2>2, MarkIs
    <3>2. 0 <= HourOf(k[2])
      BY <2>1, HourZero, HoursOrdered
    <3>3. now <= Begin(-1) + Slack + Lag * faults + Lag /\ Lag * faults \in Nat /\ Lag \in Nat
      BY <3>1, WaitingNear, RollupConstants
    <3>4. Lookback >= HourLen + Quiet - 1 + Lag * faults + Lag /\ Slack = 2 * HourLen + Quiet - 1
      BY Outlast, TypesAre
    <3>5. Begin(-1) = -HourLen
      BY HourZero
    <3>6. now <= Lookback
      BY <2>1, <3>3, <3>4, <3>5, RollupConstants
    <3>7. Start = Begin(HourOf(now)) - Lookback
      BY <2>2 DEF Start, Begin
    <3>8. Begin(HourOf(now)) <= now /\ Begin(HourOf(now)) \in Int
      BY <2>1, HourBounds
    <3>9. k[2] >= Start
      BY <2>1, <3>6, <3>7, <3>8, RollupConstants
    <3> QED
      BY <2>1, <3>1, <3>2, <3>9
  <2>3. CASE hours # EmptyTable
    <3>1. Start = Begin(Mark) /\ Mark \in Int
      BY <2>3, MarkIs DEF Start, Begin
    <3>2. k[2] \in Int /\ Begin(Mark) \in Int
      BY <2>1, <3>1, BeginNext
    <3>3. Begin(Mark) <= k[2] <=> Mark <= HourOf(k[2])
      BY <3>1, <3>2, HourReached
    <3> QED
      BY <3>1, <3>2, <3>3
  <2> QED
    BY <2>2, <2>3
<1> QED
  BY <1>1 DEF Due

(* Whoever has more than Slack minutes to roll up finds one of the last.   *)
LEMMA MinuteFound ==
  ASSUME TypeOK, InTime, RetentionOutlasts, pc = "wait", now > Begin(Mark) + Slack
  PROVE  \E k \in DOMAIN minutes : /\ Mark <= HourOf(k[2]) /\ HourOf(k[2]) < HourOf(now)
                                   /\ now <= k[2] + HourLen + Quiet
<1>0. /\ now \in Nat /\ at \in Nat /\ at <= now /\ newest \in Int /\ Mark \in Int /\ -1 <= Mark
      /\ HourLen \in Nat /\ HourLen >= 1 /\ Quiet \in Nat /\ MinKeep \in Nat
      /\ Slack = 2 * HourLen + Quiet - 1
      /\ \A k \in DOMAIN minutes : k[2] \in Nat /\ k[2] <= newest
  BY TypesAre, MarkIs, RollupConstants, Outlast
<1> PICK m : m = Begin(HourOf(now)) - 1
  OBVIOUS
<1>1. /\ m \in Int /\ m < Begin(HourOf(now)) /\ now - HourLen <= m /\ HourOf(now) \in Int
      /\ Begin(HourOf(now)) \in Int
  BY <1>0, HourBounds
<1>2. Begin(Mark) \in Int /\ Begin(Mark) + HourLen >= 0
  <2>1. Begin(-1) <= Begin(Mark)
    BY <1>0, BeginOrdered
  <2> QED
    BY <1>0, <2>1, HourZero, BeginNext
<1>3. MinKeep > 0 => MinKeep >= HourLen + Quiet
  <2>1. Lag * 0 \in Nat
    BY Pauses
  <2>2. MinKeep > 0 => MinKeep >= Slack + Lag * 0
    BY Outlast, RollupConstants
  <2> QED
    BY <1>0, <2>1, <2>2
<1>4. ASSUME NEW k \in DOMAIN minutes, Begin(Mark) <= k[2], k[2] <= m
      PROVE  Mark <= HourOf(k[2]) /\ HourOf(k[2]) < HourOf(now)
  <2>1. Mark <= HourOf(k[2])
    BY <1>0, <1>4, HourReached
  <2>2. ~(Begin(HourOf(now)) <= k[2])
    BY <1>0, <1>1, <1>4
  <2>3. ~(HourOf(now) <= HourOf(k[2]))
    BY <1>0, <1>1, <2>2, HourReached
  <2> QED
    BY <1>0, <1>1, <2>1, <2>3, HourBounds
<1>5. CASE m <= newest
  <2>1. m \in 0..newest /\ m >= Quiet /\ Unexpired(m - Quiet)
    BY <1>0, <1>1, <1>2, <1>3, <1>5 DEF Unexpired
  <2>2. PICK k \in DOMAIN minutes : m - Quiet <= k[2] /\ k[2] <= m
    BY <2>1 DEF InTime, MinuteNear
  <2>3. Begin(Mark) <= k[2] /\ now <= k[2] + HourLen + Quiet
    BY <1>0, <1>1, <1>2, <2>2
  <2> QED
    BY <1>4, <2>2, <2>3
<1>6. CASE newest < m
  <2>1. now <= newest + Quiet + 1
    BY DEF InTime, WrittenLately
  <2>2. newest >= 0 /\ Unexpired(newest)
    BY <1>0, <1>2, <1>3, <2>1 DEF Unexpired
  <2>3. PICK k \in DOMAIN minutes : k[2] = newest
    BY <2>2 DEF InTime, NewestThere
  <2>4. Begin(Mark) <= k[2] /\ k[2] <= m /\ now <= k[2] + HourLen + Quiet
    BY <1>0, <1>1, <1>2, <1>6, <2>1, <2>3
  <2> QED
    BY <1>4, <2>4
<1> QED
  BY <1>0, <1>1, <1>5, <1>6

(* A turn of the loop rolls an hour up that is at most Slack behind, or    *)
(* the watermark is not further back.                                      *)
LEMMA TurnNear ==
  ASSUME TypeOK, InTime, RetentionOutlasts, pc = "wait"
  PROVE  /\ Due = {} => now <= Begin(Mark) + Slack
         /\ Due # {} => \E k \in Due : now <= Begin(HourOf(k[2])) + Slack
<1>0. /\ now \in Nat /\ Mark \in Int /\ HourLen \in Nat /\ Quiet \in Nat
      /\ Slack = 2 * HourLen + Quiet - 1 /\ Begin(Mark) \in Int
      /\ \A k \in DOMAIN minutes :
           k[2] \in Nat /\ HourOf(k[2]) \in Int /\ Begin(HourOf(k[2])) \in Int
  <2>1. \A k \in DOMAIN minutes : k[2] \in Nat
    BY TypesAre
  <2>2. \A k \in DOMAIN minutes : HourOf(k[2]) \in Int /\ Begin(HourOf(k[2])) \in Int
    BY <2>1, HourBounds
  <2>3. now \in Nat /\ Mark \in Int /\ Begin(Mark) \in Int
    BY TypesAre, MarkIs, BeginNext
  <2> QED
    BY <2>1, <2>2, <2>3, RollupConstants, Outlast
<1>1. CASE now > Begin(Mark) + Slack
  <2>1. PICK k \in DOMAIN minutes : /\ Mark <= HourOf(k[2]) /\ HourOf(k[2]) < HourOf(now)
                                    /\ now <= k[2] + HourLen + Quiet
    BY <1>1, MinuteFound
  <2>2. k \in Due
    BY <2>1, DueIs
  <2>3. k[2] < Begin(HourOf(k[2])) + HourLen
    BY <1>0, HourBounds
  <2>4. now <= Begin(HourOf(k[2])) + Slack
    BY <1>0, <2>1, <2>3
  <2> QED
    BY <2>2, <2>4
<1>2. CASE now <= Begin(Mark) + Slack
  <2>1. ASSUME NEW k \in Due
        PROVE  now <= Begin(HourOf(k[2])) + Slack
    <3>1. k \in DOMAIN minutes /\ Mark <= HourOf(k[2])
      BY DueIs
    <3>2. Begin(Mark) <= Begin(HourOf(k[2]))
      BY <1>0, <3>1, BeginOrdered
    <3> QED
      BY <1>0, <1>2, <3>1, <3>2
  <2> QED
    BY <1>2, <2>1
<1> QED
  BY <1>0, <1>1, <1>2

LEMMA NearStays ==
  ASSUME MarkNear, RolledNear, UNCHANGED <<hours, at, rolled, pc, faults>>
  PROVE  MarkNear' /\ RolledNear' /\ Mark' = Mark
<1>1. Mark' = Mark /\ Pending' = Pending
  BY DEF Mark, Watermark, Pending
<1> QED
  BY <1>1 DEF MarkNear, RolledNear

LEMMA MinutesStay ==
  ASSUME MinuteNear, NewestThere, UNCHANGED <<minutes, newest>>, at' >= at, at \in Int, at' \in Int,
         newest \in Int
  PROVE  MinuteNear' /\ NewestThere'
<1>1. ASSUME NEW t \in Int, Unexpired(t)'
      PROVE  Unexpired(t)
  <2>1. MinKeep > 0 => t >= at' - MinKeep
    BY <1>1 DEF Unexpired
  <2>2. MinKeep \in Nat
    BY RollupConstants
  <2>3. \A a, b, c \in Int : a <= b /\ t >= b - c => t >= a - c
    BY <1>1
  <2>4. at <= at' /\ at \in Int /\ at' \in Int /\ MinKeep \in Int
    BY <2>2
  <2> QED
    BY <2>1, <2>3, <2>4 DEF Unexpired
<1>2. ASSUME NEW m \in 0..newest, m >= Quiet, Unexpired(m - Quiet)'
      PROVE  \E k \in DOMAIN minutes : m - Quiet <= k[2] /\ k[2] <= m
  <2>1. m - Quiet \in Int
    BY RollupConstants
  <2> QED
    BY <1>1, <1>2, <2>1 DEF MinuteNear
<1>3. MinuteNear'
  BY <1>2 DEF MinuteNear
<1>4. NewestThere'
  BY <1>1 DEF NewestThere
<1> QED
  BY <1>3, <1>4

LEMMA TickInTime ==
  ASSUME TypeOK, InTime, Tick
  PROVE  InTime'
<1>1. UNCHANGED <<minutes, newest, hours, pc, at, rolled, faults>>
  BY DEF Tick, worker
<1>2. MinuteNear' /\ NewestThere' /\ MarkNear' /\ RolledNear'
  BY <1>1, NearStays, MinutesStay, TypesAre DEF InTime
<1>3. WrittenLately' /\ TurnLately'
  BY <1>1, TypesAre, RollupConstants DEF Tick, InTime, WrittenLately, TurnLately
<1>4. HoursWritten'
  BY <1>1 DEF InTime, HoursWritten
<1> QED
  BY <1>2, <1>3, <1>4 DEF InTime

LEMMA FlushInTime ==
  ASSUME TypeOK, InTime, Flush
  PROVE  InTime'
<1>1. PICK t, S, r : Brought(t, S, r)
  BY FlushBrings
<1>2. UNCHANGED <<now, hours, pc, at, rolled, faults>> /\ newest' = t
  BY <1>1 DEF Brought
<1>3. /\ t \in Nat /\ t <= now /\ newest <= t /\ newest \in Int /\ newest >= -1 /\ now \in Nat
      /\ at \in Nat /\ now <= newest + Quiet + 1 /\ Quiet \in Nat /\ MinKeep \in Nat
  BY <1>1, TypesAre, RollupConstants DEF Brought, InTime, WrittenLately
<1>4. /\ DOMAIN minutes \subseteq DOMAIN minutes'
      /\ \E k \in DOMAIN minutes' : k[2] = t
  <2>1. PICK b : b = Rows(S, t, r)
    OBVIOUS
  <2>2. minutes' = Fold(minutes, b) /\ S # {} /\ r \in Row
    BY <1>1, <2>1 DEF Brought
  <2>3. DOMAIN b = S \X {t}
    BY <2>1, <2>2, RowsBrought
  <2>4. DOMAIN Fold(minutes, b) = DOMAIN minutes \union DOMAIN b
    BY FoldKeeps
  <2>5. DOMAIN minutes' = DOMAIN minutes \union (S \X {t})
    BY <2>2, <2>3, <2>4
  <2>6. PICK s \in S : TRUE
    BY <2>2
  <2>7. <<s, t>> \in DOMAIN minutes' /\ <<s, t>>[2] = t
    BY <2>5, <2>6
  <2> QED
    BY <2>5, <2>7
<1>5. MinuteNear'
  <2> SUFFICES ASSUME NEW m \in 0..t, m >= Quiet, Unexpired(m - Quiet)
               PROVE  \E k \in DOMAIN minutes' : m - Quiet <= k[2] /\ k[2] <= m
    BY <1>2 DEF MinuteNear, Unexpired
  <2>1. CASE m <= newest
    BY <1>3, <1>4, <2>1 DEF InTime, MinuteNear
  <2>2. CASE newest < m /\ m <= newest + Quiet
    <3>1. newest >= 0 /\ Unexpired(newest)
      BY <1>3, <2>2 DEF Unexpired
    <3>2. PICK k \in DOMAIN minutes : k[2] = newest
      BY <3>1 DEF InTime, NewestThere
    <3> QED
      BY <1>3, <1>4, <2>2, <3>2
  <2>3. CASE newest + Quiet < m
    <3>1. m = t
      BY <1>3, <2>3
    <3> QED
      BY <1>3, <1>4, <3>1
  <2> QED
    BY <1>3, <2>1, <2>2, <2>3
<1>6. NewestThere'
  BY <1>2, <1>4 DEF NewestThere
<1>7. WrittenLately' /\ TurnLately'
  BY <1>2, <1>3 DEF InTime, WrittenLately, TurnLately
<1>8. HoursWritten'
  <2>1. \A k \in DOMAIN hours \union DOMAIN rolled : k[2] <= HourOf(newest) /\ k[2] \in Int
    BY TypesAre, HoursAre DEF InTime, HoursWritten
  <2>2. HourOf(newest) <= HourOf(t) /\ HourOf(newest) \in Int /\ HourOf(t) \in Int
    BY <1>3, HoursOrdered, HourBounds
  <2> QED
    BY <1>2, <2>1, <2>2 DEF HoursWritten
<1>9. MarkNear' /\ RolledNear'
  BY <1>2, NearStays DEF InTime
<1> QED
  BY <1>5, <1>6, <1>7, <1>8, <1>9 DEF InTime

LEMMA RunOnceInTime ==
  ASSUME TypeOK, InTime, RetentionOutlasts, RunOnce
  PROVE  InTime'
<1>1. /\ UNCHANGED <<now, minutes, newest, hours, faults>> /\ at' = now /\ pc = "wait"
      /\ pc' = IF Due = {} THEN "prune" ELSE "commit"
      /\ rolled' = AggregateToHours(Due)
  BY DEF RunOnce
<1>2. /\ now \in Nat /\ at \in Nat /\ at <= now /\ newest \in Int /\ faults \in Nat /\ Lag \in Nat
      /\ now <= at + Lag
  BY TypesAre, RollupConstants DEF InTime, TurnLately
<1>3. WrittenLately' /\ TurnLately' /\ MinuteNear' /\ NewestThere'
  <2>1. MinuteNear' /\ NewestThere'
    BY <1>1, <1>2, MinutesStay DEF InTime
  <2>2. WrittenLately' /\ TurnLately'
    BY <1>1, <1>2 DEF InTime, WrittenLately, TurnLately
  <2> QED
    BY <2>1, <2>2
<1>4. Due \subseteq DOMAIN minutes
  BY DEF Due
<1>5. DOMAIN rolled' = {HourKey(k) : k \in Due}
  BY <1>1, <1>4, RolledAre
<1>6. Mark' = Mark
  BY <1>1 DEF Mark, Watermark
<1>7. MarkNear'
  <2>1. /\ Begin(Mark) + Slack \in Int
        /\ Lag * faults \in Nat /\ Lag * (faults + 1) = Lag * faults + Lag
        /\ at <= Begin(Mark) + Slack + Lag * faults
    <3>1. Begin(Mark) \in Int /\ Slack \in Int
      BY MarkIs, BeginNext, RollupConstants DEF Slack
    <3>2. Lag * faults \in Nat /\ Lag * (faults + 1) = Lag * faults + Lag
      BY <1>2
    <3>3. at <= Begin(Mark) + Slack + Lag * faults
      BY <1>1, WaitingNear
    <3> QED
      BY <3>1, <3>2, <3>3
  <2>2. CASE Due = {}
    <3>1. Pending' = faults
      BY <1>1, <1>2, <2>2 DEF Pending
    <3>2. now <= Begin(Mark) + Slack
      BY <1>1, <2>2, TurnNear
    <3>3. now <= Begin(Mark) + Slack + Lag * faults
      BY <1>2, <2>1, <3>2
    <3> QED
      BY <1>1, <1>6, <3>1, <3>3 DEF MarkNear
  <2>3. CASE Due # {}
    <3>1. Pending' = faults + 1
      BY <1>1, <2>3 DEF Pending
    <3>2. now <= Begin(Mark) + Slack + Lag * (faults + 1)
      BY <1>2, <2>1
    <3> QED
      BY <1>1, <1>6, <3>1, <3>2 DEF MarkNear
  <2> QED
    BY <2>2, <2>3
<1>8. RolledNear'
  <2>1. SUFFICES ASSUME pc' = "commit"
                 PROVE  \E g \in DOMAIN rolled' : now <= Begin(g[2]) + Slack
    BY <1>1 DEF RolledNear
  <2>2. PICK k \in Due : now <= Begin(HourOf(k[2])) + Slack
    BY <1>1, <2>1, TurnNear
  <2>3. HourKey(k) \in DOMAIN rolled' /\ HourKey(k)[2] = HourOf(k[2])
    BY <1>5, <2>2 DEF HourKey
  <2> QED
    BY <2>2, <2>3
<1>9. HoursWritten'
  <2>1. \A k \in Due : HourOf(k[2]) <= HourOf(newest)
    BY <1>2, <1>4, TypesAre, HoursOrdered
  <2>2. \A g \in DOMAIN rolled' : g[2] <= HourOf(newest)
    BY <1>5, <2>1 DEF HourKey
  <2> QED
    BY <1>1, <2>2 DEF InTime, HoursWritten
<1> QED
  BY <1>3, <1>7, <1>8, <1>9 DEF InTime

(* What the commit moves the watermark to.                                 *)
LEMMA CommitMoves ==
  ASSUME TypeOK, TypeOK', RolledExact, Commit
  PROVE  /\ Mark <= Mark' /\ \E g \in DOMAIN rolled : g[2] = Mark'
         /\ DOMAIN hours' = DOMAIN hours \union DOMAIN rolled
         /\ Mark \in Int /\ Mark' \in Int
<1>1. HourTable(hours) /\ HourTable(rolled) /\ HourTable(hours')
  BY TypesAre, TypesOfHoursNext DEF HourTable
<1>2. DOMAIN hours' = DOMAIN hours \union DOMAIN rolled
  BY TypesAre, OverwriteIs DEF Commit
<1>3. Mark = MarkOf(hours) /\ Mark' = MarkOf(hours')
  BY TypesOfHours, TypesOfHoursNext
<1>4. DOMAIN rolled # {} /\ \A g \in DOMAIN rolled : g[2] >= Mark
  BY DEF Commit, RolledExact
<1>5. MarkOf(hours') >= MarkOf(hours) /\ \E g \in DOMAIN rolled : g[2] = MarkOf(hours')
  BY <1>1, <1>2, <1>3, <1>4, MarkMoves
<1>6. MarkOf(hours) \in Int /\ MarkOf(hours') \in Int
  BY <1>1, MarkOfIs
<1> QED
  BY <1>2, <1>3, <1>5, <1>6

LEMMA CommitInTime ==
  ASSUME TypeOK, TypeOK', InTime, RolledExact, Commit
  PROVE  InTime'
<1>1. /\ UNCHANGED <<now, minutes, newest, at, faults>> /\ pc = "commit" /\ pc' = "prune"
      /\ rolled' = EmptyTable
  BY DEF Commit
<1>2. MinuteNear' /\ NewestThere'
  BY <1>1, MinutesStay, TypesAre DEF InTime
<1>3. WrittenLately' /\ TurnLately'
  BY <1>1 DEF InTime, WrittenLately, TurnLately
<1>4. MarkNear'
  <2>1. PICK g \in DOMAIN rolled : at <= Begin(g[2]) + Slack
    BY <1>1 DEF InTime, RolledNear
  <2>2. g[2] \in Int /\ g \in DOMAIN hours' /\ Mark' \in Int
    BY TypesAre, HoursAre, CommitMoves
  <2>3. g[2] <= Mark'
    BY <2>2, TypesOfHoursNext, MarkOfIs
  <2>4. Begin(g[2]) <= Begin(Mark') /\ Begin(g[2]) \in Int /\ Begin(Mark') \in Int
    BY <2>2, <2>3, BeginOrdered, BeginNext
  <2>5. Pending' = faults /\ Lag * faults \in Nat /\ at \in Nat /\ Slack \in Int
    BY <1>1, TypesAre, Pauses, RollupConstants DEF Pending, Slack
  <2>6. at <= Begin(Mark') + Slack + Lag * faults
    BY <2>1, <2>4, <2>5
  <2> QED
    BY <1>1, <2>5, <2>6 DEF MarkNear
<1>5. RolledNear'
  BY <1>1 DEF RolledNear
<1>6. HoursWritten'
  <2>1. DOMAIN hours' = DOMAIN hours \union DOMAIN rolled /\ DOMAIN rolled' = {}
    BY <1>1, CommitMoves, EmptyIsTable
  <2> QED
    BY <1>1, <2>1 DEF InTime, HoursWritten
<1> QED
  BY <1>2, <1>3, <1>4, <1>5, <1>6 DEF InTime

(* A failed turn, or a restart, costs a pause.                             *)
LEMMA FaultInTime ==
  ASSUME TypeOK, InTime, UNCHANGED <<now, minutes, newest, hours, at>>, faults' = faults + 1,
         pc' # "commit", rolled' = rolled \/ rolled' = EmptyTable
  PROVE  InTime'
<1>1. MinuteNear' /\ NewestThere'
  BY MinutesStay, TypesAre DEF InTime
<1>2. WrittenLately' /\ TurnLately'
  BY DEF InTime, WrittenLately, TurnLately
<1>3. MarkNear'
  <2>1. faults \in Nat /\ Pending \in {faults, faults + 1} /\ Pending' = faults + 1
    BY TypesAre DEF Pending
  <2>2. Mark' = Mark /\ Mark \in Int
    BY MarkIs DEF Mark, Watermark
  <2>3. /\ Lag * Pending \in Nat /\ Lag * (faults + 1) \in Nat
        /\ Lag * Pending <= Lag * (faults + 1)
    BY <2>1, Pauses
  <2>4. at <= Begin(Mark) + Slack + Lag * Pending /\ at \in Nat
    BY TypesAre DEF InTime, MarkNear
  <2>5. Begin(Mark) + Slack \in Int
    BY <2>2, BeginNext, RollupConstants DEF Slack
  <2>6. at <= Begin(Mark) + Slack + Lag * (faults + 1)
    BY <2>3, <2>4, <2>5
  <2> QED
    BY <2>1, <2>2, <2>6 DEF MarkNear
<1>4. RolledNear'
  BY DEF RolledNear
<1>5. HoursWritten'
  BY EmptyIsTable DEF InTime, HoursWritten
<1> QED
  BY <1>1, <1>2, <1>3, <1>4, <1>5 DEF InTime

(* Retention keeps what the worker still needs.                            *)
LEMMA PruneSpares ==
  ASSUME TypeOK, TypeOK', InTime, RetentionOutlasts, Prune
  PROVE  /\ Mark' = Mark
         /\ \A k \in DOMAIN minutes \ DOMAIN minutes' : HourOf(k[2]) < Mark
<1>1. /\ at \in Nat /\ faults \in Nat /\ faults <= MaxFaults /\ Mark \in Int
      /\ Begin(Mark) \in Int /\ Slack \in Int /\ Lag * faults \in Nat
      /\ MinKeep \in Nat /\ HourKeep \in Nat
  BY TypesAre, MarkIs, BeginNext, Pauses, RollupConstants DEF Slack
<1>2. at <= Begin(Mark) + Slack + Lag * faults
  <2>1. Pending = faults
    BY <1>1 DEF Prune, Pending
  <2> QED
    BY <2>1 DEF InTime, MarkNear
<1>3. /\ MinKeep # 0 => at - MinKeep <= Begin(Mark)
      /\ HourKeep # 0 => at - HourKeep <= Begin(Mark)
  BY <1>1, <1>2, Outlast
<1>4. Mark' = Mark
  <2>1. HourTable(hours) /\ HourTable(hours') /\ Mark = MarkOf(hours) /\ Mark' = MarkOf(hours')
    BY TypesOfHours, TypesOfHoursNext
  <2>2. Outlives(hours, hours', HourLen, HourKeep)
    BY PruneKeeps
  <2>3. ASSUME NEW g \in DOMAIN hours, g[2] = Mark
        PROVE  g \in DOMAIN hours'
    <3>1. HourKeep # 0 => g[2] * HourLen >= at - HourKeep
      BY <1>1, <1>3, <2>3 DEF Begin
    <3> QED
      BY <2>2, <3>1 DEF Outlives
  <2>4. DOMAIN hours' \subseteq DOMAIN hours
    BY <2>2 DEF Outlives
  <2>5. MarkOf(hours') = MarkOf(hours)
    BY <2>1, <2>3, <2>4, MarkSame
  <2> QED
    BY <2>1, <2>5
<1>5. ASSUME NEW k \in DOMAIN minutes \ DOMAIN minutes'
      PROVE  HourOf(k[2]) < Mark
  <2>1. k[2] \in Nat /\ HourOf(k[2]) \in Int
    BY TypesAre, HourBounds
  <2>2. MinKeep # 0 /\ ~(k[2] * 1 >= at - MinKeep)
    BY PruneKeeps DEF Outlives
  <2>3. k[2] < Begin(Mark)
    BY <1>1, <1>3, <2>1, <2>2
  <2>4. ~(Mark <= HourOf(k[2]))
    BY <1>1, <2>1, <2>3, HourReached
  <2> QED
    BY <1>1, <2>1, <2>4
<1> QED
  BY <1>4, <1>5

LEMMA PruneInTime ==
  ASSUME TypeOK, TypeOK', InTime, RetentionOutlasts, Prune
  PROVE  InTime'
<1>1. UNCHANGED <<now, newest, at, faults, rolled>> /\ pc = "prune" /\ pc' = "wait"
  BY DEF Prune
<1>2. WrittenLately' /\ TurnLately'
  BY <1>1 DEF InTime, WrittenLately, TurnLately
<1>3. /\ at \in Nat /\ newest \in Int /\ MinKeep \in Nat /\ Quiet \in Nat
      /\ \A k \in DOMAIN minutes : k[2] \in Nat
  BY TypesAre, RollupConstants
<1>4. \A k \in DOMAIN minutes : Unexpired(k[2]) => k \in DOMAIN minutes'
  BY <1>3, PruneKeeps DEF Outlives, Unexpired
<1>5. MinuteNear'
  <2> SUFFICES ASSUME NEW m \in 0..newest, m >= Quiet, Unexpired(m - Quiet)
               PROVE  \E k \in DOMAIN minutes' : m - Quiet <= k[2] /\ k[2] <= m
    BY <1>1 DEF MinuteNear, Unexpired
  <2>1. PICK k \in DOMAIN minutes : m - Quiet <= k[2] /\ k[2] <= m
    BY DEF InTime, MinuteNear
  <2>2. Unexpired(k[2])
    BY <1>3, <2>1 DEF Unexpired
  <2> QED
    BY <1>4, <2>1, <2>2
<1>6. NewestThere'
  <2> SUFFICES ASSUME newest >= 0, Unexpired(newest)
               PROVE  \E k \in DOMAIN minutes' : k[2] = newest
    BY <1>1 DEF NewestThere, Unexpired
  <2>1. PICK k \in DOMAIN minutes : k[2] = newest
    BY DEF InTime, NewestThere
  <2> QED
    BY <1>4, <2>1
<1>7. MarkNear'
  <2>1. Mark' = Mark /\ Pending' = Pending
    BY <1>1, PruneSpares DEF Pending
  <2> QED
    BY <1>1, <2>1 DEF InTime, MarkNear
<1>8. RolledNear'
  BY <1>1 DEF RolledNear
<1>9. HoursWritten'
  BY <1>1, PruneKeeps DEF InTime, HoursWritten
<1> QED
  BY <1>2, <1>5, <1>6, <1>7, <1>8, <1>9 DEF InTime

-----------------------------------------------------------------------------
(* The rows are exact.                                                     *)

LEMMA SameRow ==
  ASSUME NEW t, NEW u, NEW h, MinutesOf(u, h) = MinutesOf(t, h),
         \A k \in MinutesOf(t, h) : u[k] = t[k]
  PROVE  RowOf(u, h) = RowOf(t, h)
<1>1. [k \in MinutesOf(u, h) |-> u[k]] = [k \in MinutesOf(t, h) |-> t[k]]
  OBVIOUS
<1> QED
  BY <1>1 DEF RowOf

(* The minutes of an hour, as a table of their own.                        *)
Part(tbl, h) == [k \in MinutesOf(tbl, h) |-> tbl[k]]

LEMMA PartIs ==
  ASSUME NEW tbl, IsTable(tbl), NEW h
  PROVE  /\ IsTable(Part(tbl, h)) /\ DOMAIN Part(tbl, h) = MinutesOf(tbl, h)
         /\ \A k \in MinutesOf(tbl, h) : Part(tbl, h)[k] = tbl[k]
         /\ RowOf(tbl, h) = Aggregate(Part(tbl, h))
BY DEF Part, IsTable, MinutesOf, RowOf

(* One more row of an hour, in the table of minutes and in the truth.      *)
LEMMA RowGrows ==
  ASSUME NEW t, NEW u, IsTable(t), IsTable(u), NEW h, NEW y, NEW r \in Row,
         IsFiniteSet(MinutesOf(t, h)), MinutesOf(u, h) = MinutesOf(t, h) \union {y},
         \A k \in MinutesOf(t, h) \ {y} : u[k] = t[k],
         y \in MinutesOf(t, h) => u[y] = Merge(t[y], r),
         y \notin MinutesOf(t, h) => u[y] = r
  PROVE  /\ MinutesOf(t, h) # {} => RowOf(u, h) = Merge(RowOf(t, h), r)
         /\ MinutesOf(t, h) = {} => RowOf(u, h) = r
<1>1. PICK a : a = Part(t, h)
  OBVIOUS
<1>2. PICK b : b = Part(u, h)
  OBVIOUS
<1>3. /\ IsTable(a) /\ DOMAIN a = MinutesOf(t, h) /\ RowOf(t, h) = Aggregate(a)
      /\ \A k \in DOMAIN a : a[k] = t[k]
  BY <1>1, PartIs
<1>4. /\ IsTable(b) /\ DOMAIN b = MinutesOf(u, h) /\ RowOf(u, h) = Aggregate(b)
      /\ \A k \in DOMAIN b : b[k] = u[k]
  BY <1>2, PartIs
<1>5. DOMAIN b = DOMAIN a \union {y} /\ y \in DOMAIN b
  BY <1>3, <1>4
<1>6. CASE MinutesOf(t, h) # {}
  <2>1. /\ \A k \in DOMAIN a \ {y} : b[k] = a[k]
        /\ y \in DOMAIN a => b[y] = Merge(a[y], r)
        /\ y \notin DOMAIN a => b[y] = r
    BY <1>3, <1>4, <1>5
  <2>2. Aggregate(b) = Merge(Aggregate(a), r)
    BY <1>3, <1>4, <1>5, <1>6, <2>1, AggregateGrows
  <2> QED
    BY <1>3, <1>4, <1>6, <2>2
<1>7. CASE MinutesOf(t, h) = {}
  <2>1. DOMAIN b = {y} /\ b[y] = r
    BY <1>3, <1>4, <1>5, <1>7
  <2>2. Aggregate(b) = b[y]
    BY <1>4, <2>1, AggregateOne
  <2> QED
    BY <1>4, <1>7, <2>1, <2>2
<1> QED
  BY <1>6, <1>7

(* An hour that was exact before it is flushed into stays exact.           *)
LEMMA FlushIntact ==
  ASSUME TypeOK, TypeOK', AllInTruth, NEW t, NEW S, NEW r, Brought(t, S, r), NEW s \in S,
         <<s, HourOf(t)>> \in DOMAIN truth => Intact(<<s, HourOf(t)>>)
  PROVE  Intact(<<s, HourOf(t)>>)'
<1>1. PICK h : h = <<s, HourOf(t)>>
  OBVIOUS
<1>2. PICK y : y = <<s, t>>
  OBVIOUS
<1>3. PICK b : b = Rows(S, t, r)
  OBVIOUS
<1>4. PICK c : c = Rows(S, HourOf(t), r)
  OBVIOUS
<1>5. minutes' = Fold(minutes, b) /\ truth' = Fold(truth, c) /\ r \in Row
  BY <1>3, <1>4 DEF Brought
<1>6. DOMAIN b = S \X {t} /\ \A k \in S \X {t} : b[k] = r
  BY <1>3, <1>5, RowsBrought
<1>7. DOMAIN c = S \X {HourOf(t)} /\ \A k \in S \X {HourOf(t)} : c[k] = r
  BY <1>4, <1>5, RowsBrought
<1>8. IsTable(minutes) /\ IsTable(minutes')
  BY TypesAre DEF TypeOK, IsTable
<1>9. y \in DOMAIN b /\ b[y] = r /\ h \in DOMAIN c /\ c[h] = r
  BY <1>1, <1>2, <1>6, <1>7
<1>10. /\ y \in DOMAIN minutes => minutes'[y] = Merge(minutes[y], r)
       /\ y \notin DOMAIN minutes => minutes'[y] = r
       /\ h \in DOMAIN truth => truth'[h] = Merge(truth[h], r)
       /\ h \notin DOMAIN truth => truth'[h] = r
  BY <1>5, <1>9, FoldAt
<1>11. DOMAIN minutes' = DOMAIN minutes \union (S \X {t})
  <2>1. DOMAIN Fold(minutes, b) = DOMAIN minutes \union DOMAIN b
    BY FoldKeeps
  <2> QED
    BY <1>5, <1>6, <2>1
<1>12. \A k \in DOMAIN minutes : k = <<k[1], k[2]>>
  BY TypesAre
<1>13. HourKey(y) = h
  BY <1>1, <1>2 DEF HourKey
<1>14. \A k \in S \X {t} : HourKey(k) = h => k = y
  BY <1>1, <1>2 DEF HourKey
<1>15. MinutesOf(minutes', h) = MinutesOf(minutes, h) \union {y}
  BY <1>2, <1>11, <1>13, <1>14 DEF MinutesOf
<1>16. \A k \in MinutesOf(minutes, h) \ {y} : minutes'[k] = minutes[k]
  <2> TAKE k \in MinutesOf(minutes, h) \ {y}
  <2>1. k \in DOMAIN minutes /\ k \notin DOMAIN b
    BY <1>6, <1>14 DEF MinutesOf
  <2> QED
    BY <1>5, <2>1, FoldAt
<1>17. y \in MinutesOf(minutes, h) <=> y \in DOMAIN minutes
  BY <1>13 DEF MinutesOf
<1>18. IsFiniteSet(MinutesOf(minutes, h))
  BY MinutesFinite, FS_Subset DEF MinutesOf
<1>19. /\ MinutesOf(minutes, h) # {} => RowOf(minutes', h) = Merge(RowOf(minutes, h), r)
       /\ MinutesOf(minutes, h) = {} => RowOf(minutes', h) = r
  BY <1>5, <1>8, <1>10, <1>15, <1>16, <1>17, <1>18, RowGrows
<1>20. h \in DOMAIN truth <=> MinutesOf(minutes, h) # {}
  BY <1>1 DEF AllInTruth, MinutesOf, Intact
<1>21. h \in DOMAIN truth => RowOf(minutes, h) = truth[h]
  BY <1>1 DEF Intact
<1>22. RowOf(minutes', h) = truth'[h]
  BY <1>10, <1>19, <1>20, <1>21
<1>23. MinutesOf(minutes', h) # {}
  BY <1>15
<1> QED
  BY <1>1, <1>22, <1>23 DEF Intact

(* What a flush changes: hours that are no older than the newest minute.   *)
LEMMA FlushTouches ==
  ASSUME TypeOK, NEW t, NEW S, NEW r, Brought(t, S, r)
  PROVE  /\ DOMAIN truth' = DOMAIN truth \union (S \X {HourOf(t)})
         /\ DOMAIN minutes' = DOMAIN minutes \union (S \X {t})
         /\ \A h \in DOMAIN truth \ (S \X {HourOf(t)}) : truth'[h] = truth[h]
         /\ \A k \in DOMAIN minutes \ (S \X {t}) : minutes'[k] = minutes[k]
         /\ HourOf(newest) <= HourOf(t) /\ HourOf(newest) \in Int /\ HourOf(t) \in Int
<1>1. PICK b : b = Rows(S, t, r)
  OBVIOUS
<1>2. PICK c : c = Rows(S, HourOf(t), r)
  OBVIOUS
<1>3. minutes' = Fold(minutes, b) /\ truth' = Fold(truth, c) /\ r \in Row
  BY <1>1, <1>2 DEF Brought
<1>4. DOMAIN b = S \X {t} /\ DOMAIN c = S \X {HourOf(t)}
  BY <1>1, <1>2, <1>3, RowsBrought
<1>5. /\ DOMAIN Fold(minutes, b) = DOMAIN minutes \union DOMAIN b
      /\ \A k \in DOMAIN minutes \ DOMAIN b : Fold(minutes, b)[k] = minutes[k]
  BY FoldKeeps
<1>6. /\ DOMAIN Fold(truth, c) = DOMAIN truth \union DOMAIN c
      /\ \A k \in DOMAIN truth \ DOMAIN c : Fold(truth, c)[k] = truth[k]
  BY FoldKeeps
<1>7. t \in Int /\ newest \in Int /\ newest <= t
  BY TypesAre DEF Brought
<1>8. HourOf(newest) <= HourOf(t) /\ HourOf(newest) \in Int /\ HourOf(t) \in Int
  BY <1>7, HoursOrdered, HourBounds
<1> QED
  BY <1>3, <1>4, <1>5, <1>6, <1>8

LEMMA FlushInFull ==
  ASSUME TypeOK, TypeOK', InTime, InFull, Flush
  PROVE  InFull'
<1>1. PICK t, S, r : Brought(t, S, r)
  BY FlushBrings
<1>2. UNCHANGED <<now, hours, pc, at, rolled>>
  BY <1>1 DEF Brought
<1>3. /\ DOMAIN truth' = DOMAIN truth \union (S \X {HourOf(t)})
      /\ DOMAIN minutes' = DOMAIN minutes \union (S \X {t})
      /\ \A h \in DOMAIN truth \ (S \X {HourOf(t)}) : truth'[h] = truth[h]
      /\ \A k \in DOMAIN minutes \ (S \X {t}) : minutes'[k] = minutes[k]
      /\ HourOf(newest) <= HourOf(t) /\ HourOf(newest) \in Int /\ HourOf(t) \in Int
  BY <1>1, FlushTouches
<1>4. Mark' = Mark /\ Mark \in Int /\ Mark <= HourOf(t)
  <2>1. Mark' = Mark
    BY <1>2 DEF Mark, Watermark
  <2>2. CASE hours = EmptyTable
    <3>1. Mark = -1
      BY <2>2, MarkIs
    <3>2. t \in Nat /\ t <= now /\ now <= MaxMinute /\ now \in Nat /\ MaxMinute \in Nat
      BY <1>1, TypesAre, RollupConstants DEF Brought
    <3>3. HourOf(t) \in Hours
      BY <3>2, HourInHours
    <3> QED
      BY <2>1, <3>1, <3>3, HoursAre
  <2>3. CASE hours # EmptyTable
    <3>1. PICK g \in DOMAIN hours : g[2] = Mark
      BY <2>3, MarkIs
    <3>2. Mark <= HourOf(newest)
      BY <3>1 DEF InTime, HoursWritten
    <3> QED
      BY <1>3, <2>1, <3>2, MarkIs
  <2> QED
    BY <2>2, <2>3
<1>5. \A h \in DOMAIN truth' : h[2] < HourOf(t) => h \in DOMAIN truth /\ truth'[h] = truth[h]
  <2> SUFFICES ASSUME NEW h \in DOMAIN truth', h[2] < HourOf(t)
               PROVE  h \in DOMAIN truth /\ truth'[h] = truth[h]
    OBVIOUS
  <2>1. h \notin S \X {HourOf(t)}
    BY <1>3
  <2> QED
    BY <1>3, <2>1
<1>6. \A h \in DOMAIN hours \union DOMAIN rolled \union DOMAIN truth : h[2] \in Int
  BY TypesAre, HoursAre
<1>7. AllInTruth'
  <2> SUFFICES ASSUME NEW k \in DOMAIN minutes'
               PROVE  HourKey(k) \in DOMAIN truth'
    BY DEF AllInTruth, HourKey
  <2>1. CASE k \in DOMAIN minutes
    BY <1>3, <2>1 DEF InFull, AllInTruth
  <2>2. CASE k \in S \X {t}
    BY <1>3, <2>2 DEF HourKey
  <2> QED
    BY <1>3, <2>1, <2>2
<1>8. AheadIntact'
  <2> SUFFICES ASSUME NEW h \in DOMAIN truth', h[2] >= Mark
               PROVE  Intact(h)'
    BY <1>4 DEF AheadIntact
  <2>1. CASE h \in S \X {HourOf(t)}
    <3>1. PICK s \in S : h = <<s, HourOf(t)>>
      BY <2>1
    <3>2. <<s, HourOf(t)>> \in DOMAIN truth => Intact(<<s, HourOf(t)>>)
      BY <1>3, <1>4 DEF InFull, AheadIntact
    <3>3. AllInTruth
      BY DEF InFull
    <3>4. Intact(<<s, HourOf(t)>>)'
      BY <1>1, <3>2, <3>3, FlushIntact
    <3> QED
      BY <3>1, <3>4 DEF Intact
  <2>2. CASE h \notin S \X {HourOf(t)}
    <3>1. h \in DOMAIN truth /\ truth'[h] = truth[h] /\ Intact(h)
      BY <1>3, <2>2 DEF InFull, AheadIntact
    <3>2. \A k \in S \X {t} : HourKey(k) # h
      BY <2>2 DEF HourKey
    <3>3. MinutesOf(minutes', h) = MinutesOf(minutes, h)
      BY <1>3, <3>2 DEF MinutesOf
    <3>4. \A k \in MinutesOf(minutes, h) : minutes'[k] = minutes[k]
      BY <1>3, <3>2 DEF MinutesOf
    <3>5. RowOf(minutes', h) = RowOf(minutes, h)
      BY <3>3, <3>4, SameRow
    <3> QED
      BY <3>1, <3>3, <3>5 DEF Intact
  <2> QED
    BY <2>1, <2>2
<1>9. BehindExact' /\ BehindKept'
  BY <1>2, <1>3, <1>4, <1>5, <1>6 DEF InFull, BehindExact, BehindKept, Exact
<1>10. RolledExact'
  <2> SUFFICES ASSUME pc = "commit"
               PROVE  \A h \in DOMAIN truth', g \in DOMAIN rolled :
                        Mark <= h[2] /\ h[2] < g[2] => h \in DOMAIN rolled /\ rolled[h] = truth'[h]
    BY <1>2, <1>4 DEF InFull, RolledExact, Exact
  <2> SUFFICES ASSUME NEW h \in DOMAIN truth', NEW g \in DOMAIN rolled,
                      Mark <= h[2], h[2] < g[2]
               PROVE  h \in DOMAIN rolled /\ rolled[h] = truth'[h]
    OBVIOUS
  <2>1. g[2] <= HourOf(newest) /\ g[2] \in Int
    BY <1>6 DEF InTime, HoursWritten
  <2>2. h[2] \in Int
    BY HoursAre DEF TypeOK
  <2>3. h[2] < HourOf(t)
    BY <1>3, <2>1, <2>2
  <2> QED
    BY <1>5, <2>3 DEF InFull, RolledExact, Exact
<1> QED
  BY <1>7, <1>8, <1>9, <1>10 DEF InFull

LEMMA RunOnceInFull ==
  ASSUME TypeOK, InTime, InFull, RetentionOutlasts, RunOnce
  PROVE  /\ InFull'
         /\ \A h \in DOMAIN truth : Mark <= h[2] /\ h[2] < HourOf(now)
              => h \in DOMAIN rolled' /\ rolled'[h] = truth[h]
<1>1. /\ UNCHANGED <<now, minutes, hours, truth>> /\ at' = now /\ pc = "wait"
      /\ pc' = IF Due = {} THEN "prune" ELSE "commit"
      /\ rolled' = AggregateToHours(Due)
  BY DEF RunOnce
<1>2. Due = {k \in DOMAIN minutes : Mark <= HourOf(k[2]) /\ HourOf(k[2]) < HourOf(now)}
  BY <1>1, DueIs
<1>3. /\ DOMAIN rolled' = {HourKey(k) : k \in Due}
      /\ \A h \in DOMAIN rolled' :
           rolled'[h] = Aggregate([k \in {j \in Due : HourKey(j) = h} |-> minutes[k]])
  BY <1>1, <1>2, RolledAre
<1>4. /\ Mark' = Mark /\ Mark \in Int
      /\ \A h \in DOMAIN truth : h[2] \in Int
      /\ HourOf(now) \in Int /\ now \in Nat /\ at \in Nat /\ at <= now
  BY <1>1, MarkIs, TypesAre, HoursAre, HourBounds DEF Mark, Watermark
<1>5. \A g \in DOMAIN rolled' : Mark <= g[2] /\ g[2] < HourOf(now)
  BY <1>2, <1>3 DEF HourKey
<1>6. ASSUME NEW h \in DOMAIN truth, Mark <= h[2], h[2] < HourOf(now)
      PROVE  h \in DOMAIN rolled' /\ rolled'[h] = truth[h]
  <2>1. Intact(h)
    BY <1>4, <1>6 DEF InFull, AheadIntact
  <2>2. \A k \in MinutesOf(minutes, h) : k \in DOMAIN minutes /\ HourKey(k) = h /\ HourOf(k[2]) = h[2]
    BY DEF MinutesOf, HourKey
  <2>3. MinutesOf(minutes, h) \subseteq Due
    BY <1>2, <1>6, <2>2
  <2>4. {j \in Due : HourKey(j) = h} = MinutesOf(minutes, h)
    BY <1>2, <2>2, <2>3 DEF MinutesOf
  <2>5. h \in DOMAIN rolled'
    BY <1>3, <2>1, <2>2, <2>3 DEF Intact
  <2>6. rolled'[h] = RowOf(minutes, h)
    BY <1>3, <2>4, <2>5 DEF RowOf
  <2> QED
    BY <2>1, <2>5, <2>6 DEF Intact
<1>7. AllInTruth' /\ AheadIntact' /\ BehindExact'
  BY <1>1, <1>4 DEF InFull, AllInTruth, AheadIntact, BehindExact, Exact, Intact
<1>8. BehindKept'
  <2> SUFFICES ASSUME NEW h \in DOMAIN truth, h[2] < Mark
               PROVE  Exact(hours, h) \/ (HourKeep > 0 /\ Begin(h[2]) < now - HourKeep)
    BY <1>1, <1>4 DEF BehindKept, Exact
  <2>1. CASE Exact(hours, h)
    BY <2>1
  <2>2. CASE HourKeep > 0 /\ Begin(h[2]) < at - HourKeep
    <3>1. Begin(h[2]) \in Int /\ HourKeep \in Nat
      BY <1>4, BeginNext, RollupConstants
    <3> QED
      BY <1>4, <2>2, <3>1
  <2> QED
    BY <2>1, <2>2 DEF InFull, BehindKept
<1>9. RolledExact'
  <2> SUFFICES ASSUME pc' = "commit"
               PROVE  /\ DOMAIN rolled' # {} /\ \A g \in DOMAIN rolled' : g[2] >= Mark
                      /\ \A h \in DOMAIN truth, g \in DOMAIN rolled' :
                           Mark <= h[2] /\ h[2] < g[2]
                           => h \in DOMAIN rolled' /\ rolled'[h] = truth[h]
    BY <1>1, <1>4 DEF RolledExact, Exact
  <2>1. DOMAIN rolled' # {}
    BY <1>1, <1>3
  <2>2. \A g \in DOMAIN rolled' : g[2] \in Int
    BY <1>2, <1>3, TypesAre, HourBounds DEF HourKey
  <2> QED
    BY <1>4, <1>5, <1>6, <2>1, <2>2
<1> QED
  BY <1>6, <1>7, <1>8, <1>9 DEF InFull

LEMMA CommitInFull ==
  ASSUME TypeOK, TypeOK', InFull, Commit
  PROVE  InFull'
<1>1. /\ UNCHANGED <<minutes, at, truth>> /\ pc = "commit" /\ pc' = "prune"
      /\ hours' = Overwrite(hours, rolled)
  BY DEF Commit
<1>2. PICK top \in DOMAIN rolled : top[2] = Mark'
  BY CommitMoves DEF InFull
<1>3. /\ Mark <= Mark' /\ DOMAIN hours' = DOMAIN hours \union DOMAIN rolled
      /\ Mark \in Int /\ Mark' \in Int
  BY CommitMoves DEF InFull
<1>4. /\ \A k \in DOMAIN rolled : hours'[k] = rolled[k]
      /\ \A k \in DOMAIN hours \ DOMAIN rolled : hours'[k] = hours[k]
  <2>1. IsTable(hours) /\ IsTable(rolled)
    BY TypesAre
  <2>2. /\ \A k \in DOMAIN rolled : Overwrite(hours, rolled)[k] = rolled[k]
        /\ \A k \in DOMAIN hours \ DOMAIN rolled : Overwrite(hours, rolled)[k] = hours[k]
    BY <2>1, OverwriteIs
  <2> QED
    BY <1>1, <2>2
<1>5. \A h \in DOMAIN hours \union DOMAIN rolled \union DOMAIN truth : h[2] \in Int
  BY TypesAre, HoursAre
<1>6. \A g \in DOMAIN rolled : g[2] >= Mark
  BY <1>1 DEF InFull, RolledExact
<1>7. ASSUME NEW h \in DOMAIN truth, Mark <= h[2], h[2] < Mark'
      PROVE  h \in DOMAIN hours' /\ hours'[h] = truth[h]
  <2>1. Exact(rolled, h)
    BY <1>1, <1>2, <1>7 DEF InFull, RolledExact
  <2> QED
    BY <1>3, <1>4, <2>1 DEF Exact
<1>8. ASSUME NEW h \in DOMAIN truth, h[2] < Mark, Exact(hours, h)
      PROVE  h \in DOMAIN hours' /\ hours'[h] = truth[h]
  <2>1. h \notin DOMAIN rolled
    BY <1>3, <1>5, <1>6, <1>8
  <2> QED
    BY <1>3, <1>4, <1>8, <2>1 DEF Exact
<1>9. AllInTruth'
  BY <1>1 DEF InFull, AllInTruth
<1>10. AheadIntact'
  BY <1>1, <1>3, <1>5 DEF InFull, AheadIntact, Intact
<1>11. BehindExact'
  <2> SUFFICES ASSUME NEW h \in DOMAIN truth, NEW g \in DOMAIN hours', g[2] <= h[2], h[2] < Mark'
               PROVE  h \in DOMAIN hours' /\ hours'[h] = truth[h]
    BY <1>1 DEF BehindExact, Exact
  <2>1. CASE Mark <= h[2]
    BY <1>7, <2>1
  <2>2. CASE h[2] < Mark
    <3>1. g \in DOMAIN hours
      BY <1>3, <1>5, <1>6, <2>2
    <3>2. Exact(hours, h)
      BY <2>2, <3>1 DEF InFull, BehindExact
    <3> QED
      BY <1>8, <2>2, <3>2
  <2> QED
    BY <1>3, <1>5, <2>1, <2>2
<1>12. BehindKept'
  <2> SUFFICES ASSUME NEW h \in DOMAIN truth, h[2] < Mark'
               PROVE  \/ h \in DOMAIN hours' /\ hours'[h] = truth[h]
                      \/ HourKeep > 0 /\ Begin(h[2]) < at - HourKeep
    BY <1>1 DEF BehindKept, Exact
  <2>1. CASE Mark <= h[2]
    BY <1>7, <2>1
  <2>2. CASE h[2] < Mark
    BY <1>8, <2>2 DEF InFull, BehindKept
  <2> QED
    BY <1>3, <1>5, <2>1, <2>2
<1>13. RolledExact'
  BY <1>1 DEF RolledExact
<1> QED
  BY <1>9, <1>10, <1>11, <1>12, <1>13 DEF InFull

LEMMA PruneInFull ==
  ASSUME TypeOK, TypeOK', InTime, InFull, RetentionOutlasts, Prune
  PROVE  InFull'
<1>1. UNCHANGED <<at, truth, rolled>> /\ pc = "prune" /\ pc' = "wait"
  BY DEF Prune
<1>2. Mark' = Mark /\ Mark \in Int
  BY PruneSpares, MarkIs
<1>3. /\ Outlives(minutes, minutes', 1, MinKeep) /\ Outlives(hours, hours', HourLen, HourKeep)
      /\ \A k \in DOMAIN minutes \ DOMAIN minutes' : HourOf(k[2]) < Mark
  BY PruneKeeps, PruneSpares
<1>4. \A h \in DOMAIN hours \union DOMAIN truth : h[2] \in Int /\ Begin(h[2]) \in Int
  <2>1. \A h \in DOMAIN hours \union DOMAIN truth : h[2] \in Int
    BY TypesAre, HoursAre
  <2> QED
    BY <2>1, BeginNext
<1>5. at \in Nat /\ HourKeep \in Nat
  BY TypesAre, RollupConstants
<1>6. AllInTruth'
  BY <1>1, <1>3 DEF Outlives, InFull, AllInTruth
<1>7. AheadIntact'
  <2> SUFFICES ASSUME NEW h \in DOMAIN truth, h[2] >= Mark
               PROVE  Intact(h)'
    BY <1>1, <1>2 DEF AheadIntact
  <2>1. Intact(h)
    BY DEF InFull, AheadIntact
  <2>2. \A k \in DOMAIN minutes : HourKey(k) = h => HourOf(k[2]) = h[2] /\ HourOf(k[2]) \in Int
    BY <1>4 DEF HourKey
  <2>3. MinutesOf(minutes', h) = MinutesOf(minutes, h)
    BY <1>2, <1>3, <2>2 DEF MinutesOf, Outlives
  <2>4. \A k \in MinutesOf(minutes, h) : minutes'[k] = minutes[k]
    BY <1>3, <2>3 DEF MinutesOf, Outlives
  <2>5. RowOf(minutes', h) = RowOf(minutes, h)
    BY <2>3, <2>4, SameRow
  <2> QED
    BY <1>1, <2>1, <2>3, <2>5 DEF Intact
<1>8. /\ DOMAIN hours' \subseteq DOMAIN hours
      /\ \A h \in DOMAIN hours' : hours'[h] = hours[h]
      /\ \A h \in DOMAIN hours \ DOMAIN hours' : HourKeep > 0 /\ Begin(h[2]) < at - HourKeep
  <2>1. \A h \in DOMAIN hours \ DOMAIN hours' : HourKeep # 0 /\ ~(h[2] * HourLen >= at - HourKeep)
    BY <1>3 DEF Outlives
  <2>2. \A h \in DOMAIN hours : h[2] * HourLen = Begin(h[2])
    BY DEF Begin
  <2>3. \A h \in DOMAIN hours \ DOMAIN hours' : HourKeep > 0 /\ Begin(h[2]) < at - HourKeep
    BY <1>4, <1>5, <2>1, <2>2
  <2> QED
    BY <1>3, <2>3 DEF Outlives
<1>9. BehindExact'
  <2> SUFFICES ASSUME NEW h \in DOMAIN truth, NEW g \in DOMAIN hours', g[2] <= h[2], h[2] < Mark
               PROVE  h \in DOMAIN hours' /\ hours'[h] = truth[h]
    BY <1>1, <1>2 DEF BehindExact, Exact
  <2>1. h \in DOMAIN hours /\ hours[h] = truth[h]
    BY <1>8 DEF InFull, BehindExact, Exact
  <2>2. Begin(g[2]) <= Begin(h[2])
    BY <1>4, <1>8, BeginOrdered
  <2>3. CASE hours' = hours
    BY <2>1, <2>3
  <2>4. CASE HourKeep = 0 \/ g[2] * HourLen >= at - HourKeep
    <3>1. HourKeep # 0 => Begin(g[2]) >= at - HourKeep
      BY <2>4 DEF Begin
    <3>2. h \in DOMAIN hours'
      BY <1>4, <1>5, <1>8, <2>1, <2>2, <3>1
    <3> QED
      BY <1>8, <2>1, <3>2
  <2> QED
    BY <2>3, <2>4, PruneKeeps
<1>10. BehindKept'
  BY <1>1, <1>2, <1>8 DEF InFull, BehindKept, Exact
<1>11. RolledExact'
  BY <1>1 DEF RolledExact
<1> QED
  BY <1>6, <1>7, <1>9, <1>10, <1>11 DEF InFull

LEMMA InitRollup == Init => RollupInv
<1> SUFFICES ASSUME Init PROVE RollupInv
  OBVIOUS
<1>1. minutes = EmptyTable /\ newest = -1
  BY SeriesFold DEF Init, Series!SeriesInit
<1>2. DOMAIN EmptyTable = {}
  BY EmptyIsTable
<1>3. /\ now = 0 /\ at = 0 /\ faults = 0 /\ pc = "wait" /\ Mark = -1 /\ Pending = 0
  BY DEF Init, Mark, Pending
<1>4. /\ WrittenLately /\ TurnLately /\ MinuteNear /\ NewestThere /\ RolledNear /\ HoursWritten
  BY <1>1, <1>2, <1>3, RollupConstants
     DEF Init, WrittenLately, TurnLately, MinuteNear, NewestThere, RolledNear, HoursWritten
<1>5. MarkNear
  <2>1. Begin(-1) = -HourLen /\ Lag * 0 \in Nat
    BY HourZero, Pauses
  <2> QED
    BY <1>3, <2>1, RollupConstants DEF MarkNear, Slack
<1>6. InFull
  BY <1>1, <1>2, <1>3
     DEF Init, InFull, AllInTruth, AheadIntact, BehindExact, BehindKept, RolledExact
<1> QED
  BY <1>4, <1>5, <1>6, InitTypes DEF RollupInv, InTime

LEMMA RollupStep == RetentionOutlasts /\ RollupInv /\ [Next]_vars => RollupInv'
<1> SUFFICES ASSUME RetentionOutlasts, RollupInv, [Next]_vars
             PROVE  RollupInv'
  OBVIOUS
<1>1. TypeOK /\ InTime /\ InFull /\ TypeOK'
  BY TypesKept DEF RollupInv
<1>2. faults \in Nat
  BY <1>1, TypesAre
<1>3. ASSUME UNCHANGED <<minutes, hours, at, truth>>, pc' # "commit" \/ UNCHANGED <<pc, rolled>>
      PROVE  InFull'
  <2>1. Mark' = Mark
    BY <1>3 DEF Mark, Watermark
  <2> QED
    BY <1>1, <1>3, <2>1
       DEF InFull, AllInTruth, AheadIntact, BehindExact, BehindKept, RolledExact, Exact, Intact
<1>4. CASE Tick
  <2>1. UNCHANGED <<minutes, hours, at, truth, pc, rolled>>
    BY <1>4 DEF Tick, worker
  <2> QED
    BY <1>1, <1>3, <1>4, <2>1, TickInTime DEF RollupInv
<1>5. CASE Flush
  BY <1>1, <1>5, FlushInTime, FlushInFull DEF RollupInv
<1>6. CASE RunOnce
  BY <1>1, <1>6, RunOnceInTime, RunOnceInFull DEF RollupInv
<1>7. CASE Commit
  BY <1>1, <1>7, CommitInTime, CommitInFull DEF RollupInv, InFull
<1>8. CASE RollupFails
  BY <1>1, <1>3, <1>8, FaultInTime DEF RollupFails, Fault, RollupInv
<1>9. CASE Prune
  BY <1>1, <1>9, PruneInTime, PruneInFull DEF RollupInv
<1>10. CASE PruneFails
  BY <1>1, <1>3, <1>10, FaultInTime DEF PruneFails, Fault, RollupInv
<1>11. CASE Restart
  BY <1>1, <1>3, <1>11, FaultInTime DEF Restart, Fault, RollupInv
<1>12. CASE UNCHANGED vars
  <2>1. UNCHANGED <<now, minutes, newest, hours, pc, at, rolled, truth, faults>>
    BY <1>12 DEF vars, worker
  <2>2. MinuteNear' /\ NewestThere' /\ MarkNear' /\ RolledNear'
    BY <1>1, <2>1, NearStays, MinutesStay, TypesAre DEF InTime
  <2>3. WrittenLately' /\ TurnLately' /\ HoursWritten'
    BY <1>1, <2>1 DEF InTime, WrittenLately, TurnLately, HoursWritten
  <2> QED
    BY <1>1, <1>3, <2>1, <2>2, <2>3 DEF RollupInv, InTime
<1> QED
  BY <1>4, <1>5, <1>6, <1>7, <1>8, <1>9, <1>10, <1>11, <1>12 DEF Next, Worker

(* The invariant of the rollup, whatever the writer brings, however late   *)
(* the worker is and whichever of its jobs fail, as long as the windows    *)
(* outlast the worker.                                                     *)
THEOREM RollupInvariant ==
  ASSUME RetentionOutlasts
  PROVE  Spec => []RollupInv
BY InitRollup, RollupStep, PTL DEF Spec

(* history_worker.py's _rollup_hours() reads an hour for the last time     *)
(* when it moves the watermark past it: the row is then exact, and none    *)
(* between two rows is missing.                                            *)
THEOREM FinalHoursExactEver ==
  ASSUME RetentionOutlasts
  PROVE  Spec => []FinalHoursExact
<1>1. RollupInv => FinalHoursExact
  <2> SUFFICES ASSUME RollupInv, NEW k \in DOMAIN truth, hours # EmptyTable,
                      Oldest <= k[2], k[2] < Watermark
               PROVE  k \in DOMAIN hours /\ hours[k] = truth[k]
    BY DEF FinalHoursExact
  <2>1. Mark = Watermark /\ DOMAIN hours # {} /\ HourTable(hours)
    BY EmptyHours, TypesOfHours DEF Mark, RollupInv
  <2>2. PICK S : S = {h[2] : h \in DOMAIN hours}
    OBVIOUS
  <2>3. S # {} /\ S \subseteq 0..HourOf(MaxMinute) /\ HourOf(MaxMinute) \in Nat
    BY <2>1, <2>2, HoursAre, HourInHours, RollupConstants DEF HourTable
  <2>4. IsFiniteSet(S) /\ S \subseteq Nat
    <3>1. IsFiniteSet(0..HourOf(MaxMinute))
      BY <2>3, FS_Interval
    <3>2. IsFiniteSet(S)
      BY <2>3, <3>1, FS_Subset
    <3> QED
      BY <2>3, <3>2
  <2>5. Oldest \in S
    BY <2>2, <2>3, <2>4, MinOfFinite DEF Oldest
  <2>6. PICK g \in DOMAIN hours : g[2] = Oldest
    BY <2>2, <2>5
  <2> QED
    BY <2>1, <2>6 DEF RollupInv, InFull, BehindExact, Exact
<1> QED
  BY <1>1, RollupInvariant, PTL

(* retention.py's prune() deletes minutes by their age alone: each of them *)
(* is behind the watermark by then.                                        *)
THEOREM PrunedWhenFinal ==
  ASSUME RetentionOutlasts
  PROVE  Spec => PrunedOnlyWhenFinal
<1>1. RollupInv /\ RollupInv' /\ [Next]_vars
        => [\A k \in DOMAIN minutes \ DOMAIN minutes' :
              hours # EmptyTable /\ HourOf(k[2]) < Watermark]_vars
  <2> SUFFICES ASSUME RollupInv, RollupInv', Next, NEW k \in DOMAIN minutes \ DOMAIN minutes'
               PROVE  hours # EmptyTable /\ HourOf(k[2]) < Watermark
    OBVIOUS
  <2>1. CASE Prune
    <3>1. HourOf(k[2]) < Mark /\ Mark \in Int
      BY <2>1, PruneSpares, MarkIs DEF RollupInv
    <3>4. k[2] \in Nat /\ k[2] <= MaxMinute
      BY TypesAre, RollupConstants DEF RollupInv
    <3>2. HourOf(k[2]) \in Nat
      BY <3>4, HourInHours, HoursAre
    <3>3. hours # EmptyTable
      BY <3>1, <3>2, MarkIs DEF RollupInv
    <3> QED
      BY <3>1, <3>3, MarkIs DEF RollupInv
  <2>2. CASE Flush
    <3>1. PICK t, S, r : Brought(t, S, r)
      BY <2>2, FlushBrings
    <3> QED
      BY <3>1, FlushTouches DEF RollupInv
  <2>3. CASE Tick \/ RunOnce \/ Commit \/ RollupFails \/ PruneFails \/ Restart
    BY <2>3 DEF Tick, RunOnce, Commit, RollupFails, PruneFails, Restart
  <2> QED
    BY <2>1, <2>2, <2>3 DEF Next, Worker
<1> QED
  BY <1>1, RollupInvariant, PTL DEF Spec, PrunedOnlyWhenFinal

(* run_once() finds every complete hour that the table does not hold       *)
(* exactly, those included whose turn failed or was cut by a restart.      *)
THEOREM TurnCatchesUp ==
  ASSUME RetentionOutlasts
  PROVE  Spec => CatchesUp
<1>1. RollupInv /\ [Next]_vars
        => [RunOnce => \A k \in DOMAIN truth :
              \/ k[2] >= HourOf(now)
              \/ HourKeep > 0 /\ k[2] * HourLen < now - HourKeep
              \/ k \in DOMAIN hours   /\ hours[k] = truth[k]
              \/ k \in DOMAIN rolled' /\ rolled'[k] = truth[k]]_vars
  <2> SUFFICES ASSUME RollupInv, RunOnce, NEW k \in DOMAIN truth
               PROVE  \/ k[2] >= HourOf(now)
                      \/ HourKeep > 0 /\ k[2] * HourLen < now - HourKeep
                      \/ k \in DOMAIN hours   /\ hours[k] = truth[k]
                      \/ k \in DOMAIN rolled' /\ rolled'[k] = truth[k]
    OBVIOUS
  <2>1. k[2] \in Int /\ Mark \in Int /\ HourOf(now) \in Int
    <3>1. k[2] \in Int /\ Mark \in Int
      BY TypesAre, HoursAre, MarkIs DEF RollupInv
    <3>2. now \in Int
      BY TypesAre DEF RollupInv
    <3> QED
      BY <3>1, <3>2, HourBounds
  <2>2. CASE k[2] < HourOf(now) /\ Mark <= k[2]
    BY <2>2, RunOnceInFull DEF RollupInv
  <2>3. CASE k[2] < Mark
    <3>1. Exact(hours, k) \/ (HourKeep > 0 /\ Begin(k[2]) < at - HourKeep)
      BY <2>3 DEF RollupInv, InFull, BehindKept
    <3>2. Begin(k[2]) \in Int /\ HourKeep \in Nat /\ at \in Nat /\ now \in Nat /\ at <= now
      BY <2>1, BeginNext, TypesAre, RollupConstants DEF RollupInv
    <3>3. Exact(hours, k) \/ (HourKeep > 0 /\ Begin(k[2]) < now - HourKeep)
      BY <3>1, <3>2
    <3> QED
      BY <3>3 DEF Exact, Begin
  <2> QED
    BY <2>1, <2>2, <2>3
<1> QED
  BY <1>1, RollupInvariant, PTL DEF Spec, CatchesUp

-----------------------------------------------------------------------------
(* The registry: the foreign keys hold whatever is created, edited and     *)
(* deleted, in any order and on any number of rows, while an engine runs   *)
(* on an older copy of them.                                               *)

(* A zone's row goes on naming a camera when it is updated: an update      *)
(* changes the columns a zone request can name, and keeps the others.      *)
NamesCamera == \A z \in DOMAIN zones : "camera" \in DOMAIN zones[z]

RegistryInv == NoOrphans /\ NamesCamera

(* RegistryInv, whose parts speak of the tables alone.                             *)
LEMMA Untouched == ASSUME RegistryInv, UNCHANGED tables PROVE RegistryInv'
  BY DEF RegistryInv, NoOrphans, NamesCamera, tables

LEMMA CameraRequestsKeep == ASSUME RegistryInv, CameraRequests PROVE RegistryInv'
<1>1. ASSUME NEW ip \in Ips, NEW floor \in Floors, NEW enabled \in BOOLEAN,
             NEW gate \in BOOLEAN, CreateCamera(ip, floor, enabled, gate)
      PROVE  RegistryInv'
  <2>1. DOMAIN cameras \subseteq DOMAIN cameras'
    BY <1>1 DEF CreateCamera, Insert
  <2>2. UNCHANGED <<zones, lines, crossings>>
    BY <1>1 DEF CreateCamera
  <2>3. QED
    BY <2>1, <2>2 DEF RegistryInv, NoOrphans, NamesCamera
<1>2. ASSUME NEW c \in DOMAIN cameras, NEW change \in CameraChanges, UpdateCamera(c, change)
      PROVE  RegistryInv'
  <2>1. DOMAIN cameras' = DOMAIN cameras
    BY <1>2 DEF UpdateCamera, Update
  <2>2. UNCHANGED <<zones, lines, crossings>>
    BY <1>2 DEF UpdateCamera
  <2>3. QED
    BY <2>1, <2>2 DEF RegistryInv, NoOrphans, NamesCamera
<1>3. ASSUME NEW c \in DOMAIN cameras, DeleteCamera(c)
      PROVE  RegistryInv'
  <2>1. DOMAIN cameras' = DOMAIN cameras \ {c}
    BY <1>3 DEF DeleteCamera, Without, Restrict
  <2>2. /\ DOMAIN zones' = {z \in DOMAIN zones : zones[z].camera # c}
        /\ \A z \in DOMAIN zones' : zones'[z] = zones[z]
    BY <1>3 DEF DeleteCamera, Without, Restrict, Of
  <2>3. /\ DOMAIN lines' = {l \in DOMAIN lines : lines[l].camera # c}
        /\ \A l \in DOMAIN lines' : lines'[l] = lines[l]
    BY <1>3 DEF DeleteCamera, Without, Restrict, Of
  <2>4. crossings' = {l \in crossings : l \notin DOMAIN lines \/ lines[l].camera # c}
    BY <1>3 DEF DeleteCamera, Of
  <2>5. QED
    BY <2>1, <2>2, <2>3, <2>4 DEF RegistryInv, NoOrphans, NamesCamera
<1>4. QED
  BY <1>1, <1>2, <1>3 DEF CameraRequests

LEMMA ZoneRequestsKeep == ASSUME RegistryInv, ZoneRequests PROVE RegistryInv'
<1>1. ASSUME NEW c \in DOMAIN cameras, NEW s \in DtSpaces, CreateZone(c, s)
      PROVE  RegistryInv'
  <2>1. \A z \in DOMAIN zones' : \/ z \in DOMAIN zones /\ zones'[z] = zones[z]
                                 \/ zones'[z] = [camera |-> c, space |-> s]
    BY <1>1 DEF CreateZone, Insert
  <2>2. UNCHANGED <<cameras, lines, crossings>>
    BY <1>1 DEF CreateZone
  <2>3. QED
    BY <1>1, <2>1, <2>2 DEF RegistryInv, NoOrphans, NamesCamera
<1>2. ASSUME NEW z \in DOMAIN zones, NEW change \in ZoneChanges, UpdateZone(z, change)
      PROVE  RegistryInv'
  <2>1. "camera" \notin DOMAIN change
    BY DEF ZoneChanges
  <2>2. /\ "camera" \in DOMAIN Changed(zones[z], change)
        /\ Changed(zones[z], change).camera = zones[z].camera
    BY <2>1 DEF Changed, RegistryInv, NamesCamera
  <2>3. /\ DOMAIN zones' = DOMAIN zones
        /\ \A y \in DOMAIN zones : zones'[y] = IF y = z THEN Changed(zones[z], change)
                                               ELSE zones[y]
    BY <1>2 DEF UpdateZone, Update
  <2>4. UNCHANGED <<cameras, lines, crossings>>
    BY <1>2 DEF UpdateZone
  <2>5. QED
    BY <2>2, <2>3, <2>4 DEF RegistryInv, NoOrphans, NamesCamera
<1>3. ASSUME NEW z \in DOMAIN zones, DeleteZone(z)
      PROVE  RegistryInv'
  <2>1. \A y \in DOMAIN zones' : y \in DOMAIN zones /\ zones'[y] = zones[y]
    BY <1>3 DEF DeleteZone, Without, Restrict
  <2>2. UNCHANGED <<cameras, lines, crossings>>
    BY <1>3 DEF DeleteZone
  <2>3. QED
    BY <2>1, <2>2 DEF RegistryInv, NoOrphans, NamesCamera
<1>4. QED
  BY <1>1, <1>2, <1>3 DEF ZoneRequests

LEMMA LineRequestsKeep == ASSUME RegistryInv, LineRequests PROVE RegistryInv'
<1>1. ASSUME NEW c \in DOMAIN cameras, CreateLine(c)
      PROVE  RegistryInv'
  <2>1. /\ DOMAIN lines \subseteq DOMAIN lines'
        /\ \A l \in DOMAIN lines' : \/ l \in DOMAIN lines /\ lines'[l] = lines[l]
                                    \/ lines'[l] = [camera |-> c]
    BY <1>1 DEF CreateLine, Insert
  <2>2. UNCHANGED <<cameras, zones, crossings>>
    BY <1>1 DEF CreateLine
  <2>3. QED
    BY <1>1, <2>1, <2>2 DEF RegistryInv, NoOrphans, NamesCamera
<1>2. ASSUME NEW l \in DOMAIN lines, DeleteLine(l)
      PROVE  RegistryInv'
  <2>1. /\ DOMAIN lines' = DOMAIN lines \ {l}
        /\ \A k \in DOMAIN lines' : lines'[k] = lines[k]
    BY <1>2 DEF DeleteLine, Without, Restrict
  <2>2. crossings' = crossings \ {l} /\ UNCHANGED <<cameras, zones>>
    BY <1>2 DEF DeleteLine
  <2>3. QED
    BY <2>1, <2>2 DEF RegistryInv, NoOrphans, NamesCamera
<1>3. QED
  BY <1>1, <1>2 DEF LineRequests

(* An engine goes on crossing lines that are gone: their crossings are     *)
(* refused.                                                                *)
LEMMA AddCrossingKeeps ==
  ASSUME RegistryInv, NEW l \in engine.lines, AddCrossing(l) PROVE RegistryInv'
  BY DEF AddCrossing, Accepted, RegistryInv, NoOrphans, NamesCamera

(* No zone, line or crossing outlives the row it points at (session.py:    *)
(* 26-29, the foreign keys and their cascades), for every set of cameras,  *)
(* floors, spaces and keys.                                                *)
THEOREM NoOrphansEver == RegistrySpec => []NoOrphans
<1>1. RegistryInit => RegistryInv
  BY DEF RegistryInit, NoRows, RegistryInv, NoOrphans, NamesCamera
<1>2. ASSUME RegistryInv, [RegistryNext]_registryVars
      PROVE  RegistryInv'
  <2>1. CASE CameraRequests
    BY <1>2, <2>1, CameraRequestsKeep
  <2>2. CASE ZoneRequests
    BY <1>2, <2>2, ZoneRequestsKeep
  <2>3. CASE LineRequests
    BY <1>2, <2>3, LineRequestsKeep
  <2>4. CASE \E some \in (SUBSET Sections) \ {{}} : \E provided \in [some -> BOOLEAN] :
               PutConfig(provided)
    <3>1. UNCHANGED tables
      BY <2>4 DEF PutConfig
    <3>2. QED
      BY <1>2, <3>1, Untouched
  <2>5. CASE BuildEngine
    <3>1. UNCHANGED tables
      BY <2>5 DEF BuildEngine
    <3>2. QED
      BY <1>2, <3>1, Untouched
  <2>6. CASE \E k \in CipherKeys \union {NoValue} : RestartProcess(k)
    <3>1. UNCHANGED tables
      BY <2>6 DEF RestartProcess
    <3>2. QED
      BY <1>2, <3>1, Untouched
  <2>7. CASE \E z \in DOMAIN engine.zones, n \in 0..MaxCount : PublishCount(z, n)
    <3>1. UNCHANGED tables
      BY <2>7 DEF PublishCount
    <3>2. QED
      BY <1>2, <3>1, Untouched
  <2>8. CASE \E l \in engine.lines : AddCrossing(l)
    BY <1>2, <2>8, AddCrossingKeeps
  <2>9. CASE UNCHANGED registryVars
    <3>1. UNCHANGED tables
      BY <2>9 DEF registryVars
    <3>2. QED
      BY <1>2, <3>1, Untouched
  <2>10. QED
    BY <1>2, <2>1, <2>2, <2>3, <2>4, <2>5, <2>6, <2>7, <2>8, <2>9 DEF RegistryNext
<1>3. RegistryInv => NoOrphans
  BY DEF RegistryInv
<1>4. QED
  BY <1>1, <1>2, <1>3, PTL DEF RegistrySpec

(* The read model holds counts, of finitely many zones.                    *)
Counted == IsFiniteSet(DOMAIN live) /\ \A z \in DOMAIN live : live[z].count \in 0..MaxCount

LEMMA InitCounted == RegistryInit => Counted
BY FS_EmptySet DEF RegistryInit, NoRows, Counted

LEMMA CountedKept == Counted /\ [RegistryNext]_registryVars => Counted'
<1> SUFFICES ASSUME Counted, [RegistryNext]_registryVars PROVE Counted'
  OBVIOUS
<1>1. CASE UNCHANGED live
  BY <1>1 DEF Counted
<1>2. CASE \E k \in CipherKeys \union {NoValue} : RestartProcess(k)
  <2>1. live' = NoRows /\ DOMAIN NoRows = {}
    BY <1>2 DEF RestartProcess, NoRows
  <2> QED
    BY <2>1, FS_EmptySet DEF Counted
<1>3. CASE \E z \in DOMAIN engine.zones, n \in 0..MaxCount : PublishCount(z, n)
  <2>1. PICK z \in DOMAIN engine.zones, n \in 0..MaxCount : PublishCount(z, n)
    BY <1>3
  <2>2. /\ DOMAIN live' = DOMAIN live \union {z}
        /\ live'[z].count = n
        /\ \A y \in DOMAIN live \ {z} : live'[y] = live[y]
    BY <2>1 DEF PublishCount
  <2>3. IsFiniteSet(DOMAIN live')
    BY <2>2, FS_AddElement DEF Counted
  <2> QED
    BY <2>2, <2>3 DEF Counted
<1>4. CASE CameraRequests \/ ZoneRequests \/ LineRequests
  BY <1>1, <1>4 DEF CameraRequests, ZoneRequests, LineRequests, CreateCamera, UpdateCamera,
                    DeleteCamera, CreateZone, UpdateZone, DeleteZone, CreateLine, DeleteLine
<1>5. CASE \E some \in (SUBSET Sections) \ {{}} : \E provided \in [some -> BOOLEAN] :
             PutConfig(provided)
  BY <1>1, <1>5 DEF PutConfig
<1>6. CASE BuildEngine
  BY <1>1, <1>6 DEF BuildEngine
<1>7. CASE \E l \in engine.lines : AddCrossing(l)
  BY <1>1, <1>7 DEF AddCrossing
<1>8. CASE UNCHANGED registryVars
  BY <1>1, <1>8 DEF registryVars
<1> QED
  BY <1>2, <1>3, <1>4, <1>5, <1>6, <1>7, <1>8 DEF RegistryNext

LEMMA CountIsTotal ==
  ASSUME NEW zs, IsFiniteSet(zs), \A z \in zs : live[z].count \in Nat
  PROVE  Count(zs) = Total([z \in zs |-> live[z].count], zs)
<1>1. Count(zs) = TotalField(live, "count", zs)
  BY DEF Count, MapThenSumSet, MapThenFoldSet, TotalField
<1>2. [z \in zs |-> live[z].count] = [z \in zs |-> live[z]["count"]]
  OBVIOUS
<1> QED
  BY <1>1, <1>2, TotalOfField

(* The breakdown of a space, over the floors.                              *)
SumOfFloors(s) == MapThenSumSet(LAMBDA f : FloorSpace(f, s), Floors)

LEMMA FloorsAreTotal ==
  ASSUME NEW s, IsFiniteSet(Floors), NEW g, \A f \in Floors : g[f] = FloorSpace(f, s) /\ g[f] \in Nat
  PROVE  SumOfFloors(s) = Total(g, Floors)
<1> DEFINE h == CHOOSE it : it = [u \in SUBSET Floors |->
                  IF u = {} THEN 0
                  ELSE FloorSpace(CHOOSE x \in u : TRUE, s) + it[u \ {CHOOSE x \in u : TRUE}]]
<1>1. SumOfFloors(s) = h[Floors]
  BY DEF SumOfFloors, MapThenSumSet, MapThenFoldSet
<1>2. PICK A : Family(A, Floors) /\ \A x \in Floors : Cardinality(A[x]) = g[x]
  BY DotsFamily
<1>3. PICK f : f = [u \in SUBSET Floors |-> Cardinality(Members(A, u))]
  OBVIOUS
<1>4. Summing(f, g, Floors)
  BY <1>2, <1>3, SizesSum
<1>5. f = [u \in SUBSET Floors |-> IF u = {} THEN 0
             ELSE FloorSpace(CHOOSE x \in u : TRUE, s) + f[u \ {CHOOSE x \in u : TRUE}]]
  BY <1>4 DEF Summing, One
<1>6. h = [u \in SUBSET Floors |-> IF u = {} THEN 0
             ELSE FloorSpace(CHOOSE x \in u : TRUE, s) + h[u \ {CHOOSE x \in u : TRUE}]]
  BY <1>5
<1> HIDE DEF h
<1>7. Summing(h, g, Floors)
  BY <1>6 DEF Summing, One
<1>8. h[Floors] = f[Floors] /\ Total(g, Floors) = f[Floors]
  BY <1>4, <1>7, SummingUnique, TotalOfFunction
<1> QED
  BY <1>1, <1>8

(* The zones of a space that are counted on a floor.                       *)
SpaceOnFloor(s) == [f \in Floors |-> {z \in OnFloor(f) : live[z].space = s}]

(* OnFloor() finds a zone's floor through the camera its own row names: no *)
(* zone is on two floors.                                                  *)
LEMMA FloorsApart ==
  ASSUME NEW s
  PROVE  Apart(SpaceOnFloor(s), Floors, {z \in DOMAIN live : live[z].space = s})
  BY DEF Apart, SpaceOnFloor, OnFloor

LEMMA CountedWithin ==
  ASSUME Counted, NEW s
  PROVE  SumOfFloors(s) <= BySpace(s)
<1> DEFINE S == {z \in DOMAIN live : live[z].space = s}
           T == SpaceOnFloor(s)
           g == [z \in S |-> live[z].count]
           p == [f \in Floors |-> FloorSpace(f, s)]
<1>1. IsFiniteSet(S) /\ IsFiniteSet(Floors)
  BY FS_Subset, RegistryConstants DEF Counted
<1>2. \A z \in S : live[z].count \in Nat
  BY RegistryConstants DEF Counted
<1>3. AllNatural(g, S)
  BY <1>2 DEF AllNatural
<1>4. BySpace(s) = Total(g, S)
  BY <1>1, <1>2, CountIsTotal DEF BySpace
<1>5. Apart(T, Floors, S)
  BY FloorsApart
<1>6. ASSUME NEW f \in Floors
      PROVE  p[f] = Total(g, T[f])
  <2>1. T[f] \subseteq S /\ IsFiniteSet(T[f])
    BY <1>1, <1>5, FS_Subset DEF Apart
  <2>2. p[f] = Count(T[f])
    BY DEF FloorSpace, SpaceOnFloor
  <2>3. \A z \in T[f] : live[z].count \in Nat
    BY <1>2, <2>1
  <2>4. Count(T[f]) = Total([z \in T[f] |-> live[z].count], T[f])
    BY <2>1, <2>3, CountIsTotal
  <2>5. \A z \in T[f] : /\ [y \in T[f] |-> live[y].count][z] \in Nat
                        /\ g[z] = [y \in T[f] |-> live[y].count][z]
    BY <2>1, <2>3
  <2>6. Total(g, T[f]) = Total([z \in T[f] |-> live[z].count], T[f])
    BY <2>1, <2>5, TotalSame
  <2> QED
    BY <2>2, <2>4, <2>6
<1>7. \A f \in Floors : p[f] = FloorSpace(f, s)
  OBVIOUS
<1> HIDE DEF S, T, g, p
<1>8. /\ Total(p, Floors) = Total(g, Members(T, Floors))
      /\ \A f \in Floors : p[f] \in Nat
  BY <1>1, <1>3, <1>5, <1>6, TotalOfParts
<1>9. SumOfFloors(s) = Total(p, Floors)
  BY <1>1, <1>7, <1>8, FloorsAreTotal
<1>10. Members(T, Floors) \subseteq S
  BY <1>5 DEF Members, Apart
<1>11. Total(g, Members(T, Floors)) <= Total(g, S)
  BY <1>1, <1>3, <1>10, TotalWithin
<1> QED
  BY <1>4, <1>8, <1>9, <1>11

(* The floors a space is broken down into (occupancy_service.py) never add *)
(* up to more people than the space has, for any number of floors, zones   *)
(* and people, whatever was edited since the counts were written.          *)
THEOREM FloorsWithinSpacesEver == RegistrySpec => []FloorsWithinSpaces
<1>1. Counted => FloorsWithinSpaces
  BY CountedWithin DEF FloorsWithinSpaces, SumOfFloors
<1> QED
  BY <1>1, InitCounted, CountedKept, PTL DEF RegistrySpec

-----------------------------------------------------------------------------
(* The history of line crossings: a sum over buckets is the sum over the   *)
(* rows, and a day the retention has not reached still has all its rows.   *)

Crossing ==
  [id : Nat, line_id : CountingLines, area_id : Areas, ts : Nat, direction : Directions]

(* What was stored and is gone went with its line, or was older than the   *)
(* retention window.  The ids count what was stored, so a new row is not   *)
(* one that a deletion took.                                               *)
CrossingInv ==
  /\ clock \in Nat
  /\ IsFiniteSet(happened) /\ happened \subseteq Crossing
  /\ \A e \in happened : e.id < Cardinality(happened)
  /\ events \subseteq happened \ cascaded /\ cascaded \subseteq happened
  /\ \A e \in happened \ cascaded : e \notin events => CrossingKeep > 0 /\ e.ts < clock - CrossingKeep

LEMMA InitCrossing == CrossingInit => CrossingInv
BY FS_EmptySet DEF CrossingInit, CrossingInv

LEMMA CrossingKept == CrossingInv /\ [CrossingNext]_historyVars => CrossingInv'
<1> SUFFICES ASSUME CrossingInv, [CrossingNext]_historyVars PROVE CrossingInv'
  OBVIOUS
<1>1. CASE \E line \in CountingLines, area \in Areas, direction \in Directions :
             PersistCrossing(line, area, direction)
  <2>1. PICK line \in CountingLines, area \in Areas, direction \in Directions :
               PersistCrossing(line, area, direction)
    BY <1>1
  <2>2. PICK late \in 0 .. MaxLate : \E e :
              /\ e = [id |-> Cardinality(happened), line_id |-> line, area_id |-> area,
                      ts |-> clock - late, direction |-> direction]
              /\ late <= clock /\ clock' = clock /\ cascaded' = cascaded
              /\ events' = events \cup {e} /\ happened' = happened \cup {e}
    BY <2>1 DEF PersistCrossing
  <2>3. PICK e : /\ e = [id |-> Cardinality(happened), line_id |-> line, area_id |-> area,
                         ts |-> clock - late, direction |-> direction]
                 /\ late <= clock /\ clock' = clock /\ cascaded' = cascaded
                 /\ events' = events \cup {e} /\ happened' = happened \cup {e}
    BY <2>2
  <2>4. Cardinality(happened) \in Nat /\ clock - late \in Nat
    BY <2>3, FS_CardinalityType, HistoryConstants DEF CrossingInv
  <2>5. e \in Crossing
    BY <2>1, <2>3, <2>4 DEF Crossing
  <2>6. e.id = Cardinality(happened) /\ e \notin happened
    BY <2>3, <2>4 DEF CrossingInv
  <2>7. IsFiniteSet(happened') /\ Cardinality(happened') = Cardinality(happened) + 1
    BY <2>3, <2>6, FS_AddElement DEF CrossingInv
  <2>8. \A x \in happened' : x.id < Cardinality(happened')
    <3>1. \A x \in happened : x.id \in Nat /\ x.id < Cardinality(happened)
      BY DEF CrossingInv, Crossing
    <3> QED
      BY <2>3, <2>4, <2>6, <2>7, <3>1
  <2>9. events' \subseteq happened' \ cascaded' /\ cascaded' \subseteq happened'
    BY <2>3, <2>6 DEF CrossingInv
  <2>10. \A x \in happened' \ cascaded' : x \notin events' =>
           CrossingKeep > 0 /\ x.ts < clock' - CrossingKeep
    BY <2>3 DEF CrossingInv
  <2>11. clock' \in Nat /\ happened' \subseteq Crossing
    BY <2>3, <2>5 DEF CrossingInv
  <2> QED
    BY <2>7, <2>8, <2>9, <2>10, <2>11 DEF CrossingInv
<1>2. CASE TickHour
  <2>1. clock' = clock + 1 /\ UNCHANGED <<events, happened, cascaded>>
    BY <1>2 DEF TickHour
  <2>2. \A e \in happened : e.ts \in Nat
    BY DEF CrossingInv, Crossing
  <2>3. \A e \in happened \ cascaded : e \notin events =>
          CrossingKeep > 0 /\ e.ts < clock' - CrossingKeep
    BY <2>1, <2>2, HistoryConstants DEF CrossingInv
  <2> QED
    BY <2>1, <2>3 DEF CrossingInv
<1>3. CASE PruneCrossings
  <2>1. /\ CrossingKeep > 0 /\ UNCHANGED <<clock, happened, cascaded>>
        /\ events' = {e \in events : e.ts >= clock - CrossingKeep}
    BY <1>3 DEF PruneCrossings, DeleteBefore
  <2>2. \A e \in happened : e.ts \in Nat
    BY DEF CrossingInv, Crossing
  <2>3. \A e \in happened \ cascaded : e \notin events' =>
          CrossingKeep > 0 /\ e.ts < clock - CrossingKeep
    BY <2>1, <2>2, HistoryConstants DEF CrossingInv
  <2> QED
    BY <2>1, <2>3 DEF CrossingInv
<1>4. CASE UNCHANGED historyVars
  BY <1>4 DEF historyVars, CrossingInv
<1>5. CASE \E line \in CountingLines : CreateLineRow(line)
  <2>1. UNCHANGED <<clock, events, happened, cascaded>>
    BY <1>5 DEF CreateLineRow
  <2> QED
    BY <2>1 DEF CrossingInv
<1>6. ASSUME NEW gone, DeleteLineRows(gone) PROVE CrossingInv'
  <2>1. /\ events' = {e \in events : e.line_id \notin gone}
        /\ cascaded' = cascaded \cup {e \in happened : e.line_id \in gone}
        /\ clock' = clock /\ happened' = happened
    BY <1>6 DEF DeleteLineRows
  <2>2. events' \subseteq happened \ cascaded' /\ cascaded' \subseteq happened
    BY <2>1 DEF CrossingInv
  <2>3. \A e \in happened \ cascaded' : e \notin events' => e \notin cascaded /\ e \notin events
    BY <2>1
  <2> QED
    BY <2>1, <2>2, <2>3 DEF CrossingInv
<1> QED
  BY <1>1, <1>2, <1>3, <1>4, <1>5, <1>6 DEF CrossingNext

(* A row has a time in the day that resolve_day() bounds, and no other.    *)
LEMMA DayBounds ==
  ASSUME NEW ts \in Int, NEW day \in Int
  PROVE  day * DayLen - Offset <= ts /\ ts < (day + 1) * DayLen - Offset <=> DayOf(ts) = day
<1>1. DayOf(ts) \in Int
  BY HistoryConstants DEF DayOf
<1>2. DayOf(ts) * DayLen <= ts + Offset /\ ts + Offset < (DayOf(ts) + 1) * DayLen
  BY HistoryConstants DEF DayOf
<1>3. /\ day < DayOf(ts) => (day + 1) * DayLen <= DayOf(ts) * DayLen
      /\ DayOf(ts) < day => (DayOf(ts) + 1) * DayLen <= day * DayLen
  <2>1. \A x, y \in Int : x <= y => x * DayLen <= y * DayLen
    BY HistoryConstants
  <2> QED
    BY <1>1, <2>1
<1>4. /\ day * DayLen \in Int /\ (day + 1) * DayLen \in Int
      /\ DayOf(ts) * DayLen \in Int /\ (DayOf(ts) + 1) * DayLen \in Int
      /\ Offset \in Int
  BY <1>1, HistoryConstants
<1> QED
  BY <1>1, <1>2, <1>3, <1>4

(* The rows of a window, bucket by bucket.                                 *)
BucketsOf(R, n) == {FloorBucket(e.ts, n) : e \in R}
Going(R, n, way) ==
  [b \in BucketsOf(R, n) |-> {e \in {r \in R : FloorBucket(r.ts, n) = b} : e.direction = way}]

LEMMA GoingFamily ==
  ASSUME NEW R, IsFiniteSet(R), NEW n, NEW way
  PROVE  /\ Family(Going(R, n, way), BucketsOf(R, n))
         /\ Members(Going(R, n, way), BucketsOf(R, n)) = {e \in R : e.direction = way}
<1>1. ASSUME NEW b \in BucketsOf(R, n) PROVE IsFiniteSet(Going(R, n, way)[b])
  BY FS_Subset DEF Going
<1>2. \A x, y \in BucketsOf(R, n) : x # y => Going(R, n, way)[x] \intersect Going(R, n, way)[y] = {}
  BY DEF Going
<1>3. Members(Going(R, n, way), BucketsOf(R, n)) = {e \in R : e.direction = way}
  <2>1. ASSUME NEW e \in R, e.direction = way
        PROVE  \E b \in BucketsOf(R, n) : e \in Going(R, n, way)[b]
    <3>1. FloorBucket(e.ts, n) \in BucketsOf(R, n)
      BY DEF BucketsOf
    <3>2. e \in Going(R, n, way)[FloorBucket(e.ts, n)]
      BY <2>1, <3>1 DEF Going
    <3> QED
      BY <3>1, <3>2
  <2>2. ASSUME NEW b \in BucketsOf(R, n), NEW e \in Going(R, n, way)[b]
        PROVE  e \in R /\ e.direction = way
    BY DEF Going
  <2> QED
    BY <2>1, <2>2 DEF Members
<1> QED
  BY <1>1, <1>2, <1>3 DEF Family

LEMMA NetsTotal == \A g : SumNets(g) = Total(g, DOMAIN g)
  BY DEF SumNets, FoldFunction, FoldFunctionOnSet, MapThenFoldSet, Total

(* Each row is in one bucket: their nets sum to the net of the window.     *)
LEMMA BucketsSum ==
  ASSUME IsFiniteSet(events), NEW area, NEW frm, NEW to, NEW n
  PROVE  SumNets(History(area, frm, to, n)) = Totals(area, frm, to).net
<1> DEFINE R == Selected(area, frm, to)
           B == BucketsOf(R, n)
           In == Going(R, n, "in")
           Out == Going(R, n, "out")
           g == [b \in B |-> Cardinality(In[b])]
           k == [b \in B |-> Cardinality(Out[b])]
           h == History(area, frm, to, n)
<1>1. IsFiniteSet(R)
  BY FS_Subset DEF Selected
<1>2. IsFiniteSet(B)
  <2>1. IsFiniteSet({[e \in R |-> FloorBucket(e.ts, n)][r] : r \in R})
    BY <1>1, ImageFinite
  <2>2. B = {[e \in R |-> FloorBucket(e.ts, n)][r] : r \in R}
    BY DEF BucketsOf
  <2> QED
    BY <2>1, <2>2
<1>3. DOMAIN h = B /\ \A b \in B : h[b] = g[b] - k[b]
  BY DEF History, QuerySeries, GroupByBucket, BucketsOf, NetOf, Going
<1>4. Totals(area, frm, to).net = Cardinality({e \in R : e.direction = "in"})
                                    - Cardinality({e \in R : e.direction = "out"})
  BY DEF Totals, NetOf
<1>5. /\ Family(In, B) /\ Members(In, B) = {e \in R : e.direction = "in"}
      /\ Family(Out, B) /\ Members(Out, B) = {e \in R : e.direction = "out"}
  BY <1>1, GoingFamily
<1>6. (\A b \in B : g[b] = Cardinality(In[b])) /\ (\A b \in B : k[b] = Cardinality(Out[b]))
  OBVIOUS
<1> HIDE DEF R, B, In, Out, g, k, h
<1>7. AllNatural(g, B) /\ AllNatural(k, B)
  BY <1>5, <1>6, FS_CardinalityType DEF Family, AllNatural
<1>8. Total(g, B) = Cardinality(Members(In, B)) /\ Total(k, B) = Cardinality(Members(Out, B))
  BY <1>2, <1>5, <1>6, TotalIsSize
<1>9. Total(h, B) = Total(g, B) - Total(k, B)
  BY <1>2, <1>3, <1>7, TotalDifference
<1> QED
  BY <1>3, <1>4, <1>5, <1>8, <1>9, NetsTotal DEF h

LEMMA GivenOne == \A x : Given({x}) = x
  BY DEF Given

LEMMA InstantWritten ==
  ASSUME NEW instant \in Int, NEW ahead \in Int
  PROVE  ParseInstant(Given(Written(instant, ahead))) = instant /\ Written(instant, ahead) # {}
<1>1. Given(Written(instant, ahead)) = [digits |-> instant + ahead, offset |-> ahead]
  BY GivenOne DEF Written
<1> QED
  BY <1>1 DEF ParseInstant, Written

(* entry_exit_daily: no row of the day is missing from it, and none is in  *)
(* it that happened on another day.                                        *)
LEMMA DayIsWhole ==
  ASSUME CrossingInv, NEW area, NEW day \in Int,
         CrossingKeep = 0 \/ day * DayLen - Offset >= clock - CrossingKeep
  PROVE  Selected(area, day * DayLen - Offset, (day + 1) * DayLen - Offset)
           = {e \in happened \ cascaded : e.area_id = area /\ DayOf(e.ts) = day}
<1> DEFINE start == day * DayLen - Offset
           end == (day + 1) * DayLen - Offset
<1>1. start \in Int /\ end \in Int /\ clock \in Nat /\ CrossingKeep \in Nat
  BY HistoryConstants DEF CrossingInv
<1>2. ASSUME NEW e \in happened
      PROVE  /\ e.ts \in Int
             /\ start <= e.ts /\ e.ts < end <=> DayOf(e.ts) = day
  <2>1. e.ts \in Int
    BY DEF CrossingInv, Crossing
  <2> QED
    BY <2>1, DayBounds
<1> HIDE DEF start, end
<1>3. ASSUME NEW e \in happened \ cascaded, DayOf(e.ts) = day
      PROVE  e \in events
  BY <1>1, <1>2, <1>3 DEF CrossingInv, start
<1>4. Selected(area, start, end) = {e \in happened \ cascaded : e.area_id = area /\ DayOf(e.ts) = day}
  BY <1>2, <1>3 DEF Selected, CrossingInv
<1> QED
  BY <1>4 DEF start, end

LEMMA DailyTrue ==
  ASSUME CrossingInv, NEW area, NEW date \in {{}} \union {{day} : day \in Days},
         NEW day, day = (IF date = {} THEN DayOf(clock) ELSE Given(date)),
         CrossingKeep = 0 \/ ResolveDay(date).start >= clock - CrossingKeep
  PROVE  EntryExitDaily(area, date) = NetOf({e \in happened \ cascaded : e.area_id = area /\ DayOf(e.ts) = day})
<1>1. day \in Int
  <2>1. DayOf(clock) \in Int
    BY HistoryConstants DEF CrossingInv, DayOf
  <2>2. \A d \in Days : d \in Int
    BY DEF Days
  <2> QED
    BY <2>1, <2>2, GivenOne
<1>2. /\ ResolveDay(date).start = day * DayLen - Offset
      /\ ResolveDay(date).end = (day + 1) * DayLen - Offset
  BY DEF ResolveDay, DayOf
<1>3. Selected(area, day * DayLen - Offset, (day + 1) * DayLen - Offset)
        = {e \in happened \ cascaded : e.area_id = area /\ DayOf(e.ts) = day}
  BY <1>1, <1>2, DayIsWhole
<1> QED
  BY <1>2, <1>3 DEF EntryExitDaily, DailyTotals, Totals

(* What the history and the daily figures answer is what happened (the     *)
(* queries of entry_exit_service.py, with the deletions of retention and   *)
(* of lines under them), for any areas, lines, day length, offset,         *)
(* retention window, number of crossings and lateness.                     *)
THEOREM HistoryAddsUpEver == CrossingSpec => []HistoryAddsUp
<1>1. ASSUME CrossingInv PROVE HistoryAddsUp
  <2>1. IsFiniteSet(events) /\ clock \in Nat
    BY <1>1, FS_Subset DEF CrossingInv
  <2>2. ASSUME NEW area \in Areas, NEW b \in Buckets, NEW ahead \in {0, Offset},
               NEW start \in 0 .. clock, NEW end \in 1 .. clock + 1
        PROVE  SumNets(EntryExitHistory(area, Written(start, ahead),
                                        Written(end, Offset - ahead), b))
                 = Totals(area, start, end).net
    <3>1. start \in Int /\ end \in Int /\ ahead \in Int /\ Offset - ahead \in Int
      BY <2>1, HistoryConstants
    <3>2. ResolveWindow(Written(start, ahead), Written(end, Offset - ahead))
            = [start |-> start, end |-> end]
      BY <3>1, InstantWritten DEF ResolveWindow
    <3> QED
      BY <2>1, <3>2, BucketsSum DEF EntryExitHistory
  <2>3. ASSUME NEW area \in Areas, NEW b \in Buckets
        PROVE  SumNets(EntryExitHistory(area, {}, {}, b))
                 = Totals(area, clock - WindowLen, clock).net
    <3>1. ResolveWindow({}, {}) = [start |-> clock - WindowLen, end |-> clock]
      BY DEF ResolveWindow
    <3> QED
      BY <2>1, <3>1, BucketsSum DEF EntryExitHistory
  <2>4. ASSUME NEW area \in Areas, NEW date \in {{}} \union {{day} : day \in Days}
        PROVE  LET day == IF date = {} THEN DayOf(clock) ELSE Given(date)
                   real == {e \in happened \ cascaded : e.area_id = area /\ DayOf(e.ts) = day}
               IN  CrossingKeep = 0 \/ ResolveDay(date).start >= clock - CrossingKeep
                   => EntryExitDaily(area, date) = NetOf(real)
    BY <1>1, DailyTrue
  <2> QED
    BY <2>2, <2>3, <2>4 DEF HistoryAddsUp
<1> QED
  BY <1>1, InitCrossing, CrossingKept, PTL DEF CrossingSpec

-----------------------------------------------------------------------------
(* The history of occupancy by floor.  A row of the rollup is one person,  *)
(* in one space, on the floor the space was on when its bucket was         *)
(* written; a space has one row in a bucket.                               *)

IsRow(r) ==
  /\ r.space_id \in SpaceIds /\ r.bucket_ts \in Nat /\ r.bucket_ts < bucket
  /\ r = [space_id |-> r.space_id, floor |-> floorThen[r.bucket_ts][r.space_id],
          bucket_ts |-> r.bucket_ts, avg |-> 1]

FloorInv ==
  /\ bucket \in Nat /\ DOMAIN floorThen = 0 .. MaxBucket - 1 /\ bucket <= MaxBucket
  /\ IsFiniteSet(table)
  /\ \A r \in table : IsRow(r)

LEMMA InitFloors == FloorHistoryInit => FloorInv
BY FS_EmptySet, FloorConstants DEF FloorHistoryInit, FloorInv

LEMMA FloorsKept == FloorInv /\ [FloorHistoryNext]_floorVars => FloorInv'
<1> SUFFICES ASSUME FloorInv, [FloorHistoryNext]_floorVars PROVE FloorInv'
  OBVIOUS
<1>1. CASE \E seen \in SUBSET SpaceIds : WriteBucket(seen)
  <2>1. PICK seen \in SUBSET SpaceIds : WriteBucket(seen)
    BY <1>1
  <2> DEFINE row == [s \in seen |-> [space_id |-> s, floor |-> floorNow[s],
                                     bucket_ts |-> bucket, avg |-> 1]]
             new == {row[s] : s \in seen}
  <2>2. /\ bucket < MaxBucket /\ bucket' = bucket + 1 /\ table' = table \cup new
        /\ floorThen' = [floorThen EXCEPT ![bucket] = floorNow]
    BY <2>1 DEF WriteBucket
  <2>3. IsFiniteSet(seen)
    BY FloorConstants, FS_Subset
  <2>4. IsFiniteSet(new)
    BY <2>3, ImageFinite
  <2>5. IsFiniteSet(table')
    BY <2>2, <2>4, FS_Union DEF FloorInv
  <2>6. /\ DOMAIN floorThen' = 0 .. MaxBucket - 1 /\ floorThen'[bucket] = floorNow
        /\ \A b \in Nat : b < bucket => floorThen'[b] = floorThen[b]
    BY <2>2, FloorConstants DEF FloorInv
  <2>7. ASSUME NEW r \in table PROVE IsRow(r)'
    BY <2>2, <2>6 DEF FloorInv, IsRow
  <2>8. ASSUME NEW r \in new PROVE IsRow(r)'
    <3>1. PICK s \in seen : r = [space_id |-> s, floor |-> floorNow[s],
                                  bucket_ts |-> bucket, avg |-> 1]
      OBVIOUS
    <3>2. r.space_id = s /\ r.floor = floorNow[s] /\ r.bucket_ts = bucket /\ s \in SpaceIds
      BY <3>1
    <3>3. bucket \in Nat /\ bucket < bucket'
      BY <2>2 DEF FloorInv
    <3> QED
      BY <2>6, <3>1, <3>2, <3>3 DEF IsRow
  <2>9. bucket' \in Nat /\ bucket' <= MaxBucket
    BY <2>2, FloorConstants DEF FloorInv
  <2> HIDE DEF new
  <2> QED
    BY <2>2, <2>5, <2>6, <2>7, <2>8, <2>9 DEF FloorInv
<1>2. CASE UNCHANGED <<bucket, table, floorThen>>
  BY <1>2 DEF FloorInv, IsRow
<1>3. CASE \E s \in SpaceIds, f \in FloorNames \cup {NoFloor} : MoveSpace(s, f)
  BY <1>2, <1>3 DEF MoveSpace
<1>4. CASE UNCHANGED floorVars
  BY <1>2, <1>4 DEF floorVars
<1> QED
  BY <1>1, <1>3, <1>4 DEF FloorHistoryNext

(* A sum of averages, row by row.                                          *)
Averaging(it, rs) ==
  it = [u \in SUBSET rs |-> IF u = {} THEN 0
          ELSE (CHOOSE x \in u : TRUE).avg + it[u \ {CHOOSE x \in u : TRUE}]]

(* Every space holds one person: a set of rows averages as many persons as *)
(* it has rows.                                                            *)
LEMMA AveragesCount ==
  ASSUME NEW rs, IsFiniteSet(rs), \A r \in rs : r.avg = 1
  PROVE  Averages(rs) = Cardinality(rs)
<1> DEFINE h == CHOOSE it : Averaging(it, rs)
           A == [r \in rs |-> {r}]
           g == [r \in rs |-> 1]
<1>1. Averages(rs) = h[rs]
  BY DEF Averages, MapThenSumSet, MapThenFoldSet, Averaging
<1>2. /\ Family(A, rs) /\ Members(A, rs) = rs /\ (\A r \in rs : g[r] = Cardinality(A[r]))
      /\ \A r \in rs : g[r] = r.avg
  BY FS_Singleton DEF Family, Members
<1> HIDE DEF A, g
<1>3. PICK f : f = [u \in SUBSET rs |-> Cardinality(Members(A, u))]
  OBVIOUS
<1>4. Summing(f, g, rs)
  BY <1>2, <1>3, SizesSum
<1>5. Averaging(f, rs)
  BY <1>2, <1>4 DEF Summing, One, Averaging
<1>6. Averaging(h, rs)
  BY <1>5
<1> HIDE DEF h
<1>7. Summing(h, g, rs)
  BY <1>2, <1>6 DEF Summing, One, Averaging
<1>8. h[rs] = f[rs]
  BY <1>4, <1>7, SummingUnique
<1> QED
  BY <1>1, <1>2, <1>3, <1>8

(* The per-space answer, summed over its spaces.                           *)
SumOfSeries(series) == MapThenSumSet(LAMBDA s : Averages(series[s]), DOMAIN series)

LEMMA SeriesTotal ==
  ASSUME NEW series, IsFiniteSet(DOMAIN series), Family(series, DOMAIN series),
         \A s \in DOMAIN series : Averages(series[s]) = Cardinality(series[s])
  PROVE  SumOfSeries(series) = Cardinality(Members(series, DOMAIN series))
<1> DEFINE D == DOMAIN series
           h == CHOOSE it : it = [u \in SUBSET D |->
                  IF u = {} THEN 0
                  ELSE Averages(series[CHOOSE x \in u : TRUE]) + it[u \ {CHOOSE x \in u : TRUE}]]
           g == [s \in D |-> Cardinality(series[s])]
<1>1. SumOfSeries(series) = h[D]
  BY DEF SumOfSeries, MapThenSumSet, MapThenFoldSet
<1>2. \A s \in D : g[s] = Cardinality(series[s]) /\ g[s] = Averages(series[s])
  OBVIOUS
<1> HIDE DEF g, D
<1>3. PICK f : f = [u \in SUBSET D |-> Cardinality(Members(series, u))]
  OBVIOUS
<1>4. Summing(f, g, D)
  BY <1>2, <1>3, SizesSum DEF D
<1>5. f = [u \in SUBSET D |-> IF u = {} THEN 0
             ELSE Averages(series[CHOOSE x \in u : TRUE]) + f[u \ {CHOOSE x \in u : TRUE}]]
  BY <1>2, <1>4 DEF Summing, One
<1>6. h = [u \in SUBSET D |-> IF u = {} THEN 0
             ELSE Averages(series[CHOOSE x \in u : TRUE]) + h[u \ {CHOOSE x \in u : TRUE}]]
  BY <1>5
<1> HIDE DEF h
<1>7. Summing(h, g, D)
  BY <1>2, <1>6 DEF Summing, One
<1>8. h[D] = f[D]
  BY <1>4, <1>7, SummingUnique DEF D
<1> QED
  BY <1>1, <1>3, <1>8 DEF D

(* What the rows of one floor answer, bucket by bucket.                    *)
RowsOn(rs, f) == {r \in rs : r.floor = f}
RowsIn(on, b) == {r \in on : r.bucket_ts = b}
SpacesOf(on) == {r.space_id : r \in on}

PointsOf(on) ==
  [b \in {r.bucket_ts : r \in on} |->
     [avg |-> Averages(RowsIn(on, b)), spaces_reporting |-> Cardinality(RowsIn(on, b)),
      spaces_expected |-> Cardinality(SpacesOf(on))]]

LEMMA ByFloorIs ==
  ASSUME NEW rs
  PROVE  /\ DOMAIN ByFloor(rs) = {r.floor : r \in rs} \ {NoFloor}
         /\ \A f \in DOMAIN ByFloor(rs) : ByFloor(rs)[f] = PointsOf(RowsOn(rs, f))
<1>1. \A f, b : Expected(rs, f, b) = SpacesOf(RowsOn(rs, f))
  BY DEF Expected, SpacesOf, RowsOn
<1>2. ByFloor(rs) = [f \in {r.floor : r \in rs} \ {NoFloor} |->
         [b \in {r.bucket_ts : r \in RowsOn(rs, f)} |->
            [avg |-> Averages(RowsIn(RowsOn(rs, f), b)),
             spaces_reporting |-> Cardinality(RowsIn(RowsOn(rs, f), b)),
             spaces_expected |-> Cardinality(Expected(rs, f, b))]]]
  BY DEF ByFloor, RowsIn, RowsOn
<1> QED
  BY <1>1, <1>2 DEF PointsOf

(* A filter on a floor leaves that floor's answer as it is.                *)
LEMMA FilterKeeps ==
  ASSUME NEW rs, NEW f \in DOMAIN ByFloor(rs)
  PROVE  ByFloor(RowsOn(rs, f)) = [g \in {f} |-> ByFloor(rs)[f]]
<1>1. RowsOn(RowsOn(rs, f), f) = RowsOn(rs, f)
  BY DEF RowsOn
<1>2. {r.floor : r \in RowsOn(rs, f)} \ {NoFloor} = {f}
  <2>1. f \in {r.floor : r \in rs} \ {NoFloor}
    BY ByFloorIs
  <2>2. \A r \in RowsOn(rs, f) : r.floor = f
    BY DEF RowsOn
  <2>3. \E r \in RowsOn(rs, f) : r.floor = f
    BY <2>1 DEF RowsOn
  <2> QED
    BY <2>1, <2>2, <2>3
<1>3. /\ DOMAIN ByFloor(RowsOn(rs, f)) = {f}
      /\ ByFloor(RowsOn(rs, f))[f] = ByFloor(rs)[f]
  BY <1>1, <1>2, ByFloorIs
<1>4. ByFloor(RowsOn(rs, f)) = [g \in DOMAIN ByFloor(RowsOn(rs, f)) |-> ByFloor(RowsOn(rs, f))[g]]
  BY DEF ByFloor
<1> QED
  BY <1>3, <1>4

LEMMA FilterIsOn ==
  ASSUME NEW frm, NEW to, NEW f
  PROVE  Query(frm, to, {f}) = RowsOn(Query(frm, to, {}), f)
  BY DEF Query, RowsOn

(* The rows of one bucket are of as many spaces as they are.               *)
LEMMA RowsAreSpaces ==
  ASSUME FloorInv, NEW rs, rs \subseteq table, NEW b, \A r \in rs : r.bucket_ts = b
  PROVE  /\ IsFiniteSet(SpacesOf(rs))
         /\ Cardinality(SpacesOf(rs)) = Cardinality(rs)
<1> DEFINE g == [r \in rs |-> r.space_id]
<1>1. IsFiniteSet(rs)
  BY FS_Subset DEF FloorInv
<1>2. \A r, q \in rs : r.space_id = q.space_id => r = q
  BY DEF FloorInv, IsRow
<1>3. g \in Bijection(rs, SpacesOf(rs))
  <2>1. \A r \in rs : g[r] = r.space_id /\ r.space_id \in SpacesOf(rs)
    BY DEF SpacesOf
  <2>2. \A s \in SpacesOf(rs) : \E r \in rs : g[r] = s
    BY DEF SpacesOf
  <2>3. g \in [rs -> SpacesOf(rs)]
    BY <2>1
  <2> HIDE DEF g
  <2> QED
    BY <1>2, <2>1, <2>2, <2>3 DEF Bijection, Injection, Surjection, IsInjective
<1> QED
  BY <1>1, <1>3, FS_Bijection DEF ExistsBijection

WereThere(b, f) == {s \in SpaceIds : floorThen[b][s] = f}

Seen(rs, b, f) == {s \in WereThere(b, f) : \E r \in rs : r.space_id = s /\ r.floor = f}

(* A bucket of a floor: nobody twice, nobody from another floor; and when  *)
(* as many spaces report as are expected, they are the ones expected.      *)
LEMMA PointTrue ==
  ASSUME FloorInv, NEW rs, rs \subseteq table, NEW f, NEW b,
         b \in {r.bucket_ts : r \in RowsOn(rs, f)}
  PROVE  /\ PointsOf(RowsOn(rs, f))[b].avg <= Cardinality(WereThere(b, f))
         /\ PointsOf(RowsOn(rs, f))[b].spaces_reporting
              = PointsOf(RowsOn(rs, f))[b].spaces_expected
            => PointsOf(RowsOn(rs, f))[b].avg = Cardinality(Seen(rs, b, f))
<1> DEFINE on == RowsOn(rs, f)
           in == RowsIn(on, b)
           there == WereThere(b, f)
           sometime == Seen(rs, b, f)
<1>1. on \subseteq table /\ in \subseteq table /\ in \subseteq on
  BY DEF RowsOn, RowsIn
<1>2. IsFiniteSet(on) /\ IsFiniteSet(in) /\ IsFiniteSet(there)
  BY <1>1, FloorConstants, FS_Subset DEF FloorInv, WereThere
<1>3. Averages(in) = Cardinality(in)
  <2>1. \A r \in in : r.avg = 1
    BY <1>1 DEF FloorInv, IsRow
  <2> QED
    BY <1>2, <2>1, AveragesCount
<1>4. IsFiniteSet(SpacesOf(in)) /\ Cardinality(SpacesOf(in)) = Cardinality(in)
  <2>1. \A r \in in : r.bucket_ts = b
    BY DEF RowsIn
  <2> QED
    BY <1>1, <2>1, RowsAreSpaces
<1>5. SpacesOf(in) \subseteq there
  <2>1. ASSUME NEW r \in in PROVE r.space_id \in there
    <3>1. IsRow(r) /\ r.floor = f /\ r.bucket_ts = b
      BY <1>1 DEF RowsOn, RowsIn, FloorInv
    <3> QED
      BY <3>1 DEF IsRow, WereThere
  <2> QED
    BY <2>1 DEF SpacesOf
<1>6. SpacesOf(in) \subseteq SpacesOf(on)
  BY <1>1 DEF SpacesOf
<1>7. IsFiniteSet(SpacesOf(on))
  <2>1. SpacesOf(on) \subseteq SpaceIds
    BY <1>1 DEF SpacesOf, FloorInv, IsRow
  <2> QED
    BY <2>1, FloorConstants, FS_Subset
<1>8. sometime = there \cap SpacesOf(on)
  BY DEF SpacesOf, RowsOn, Seen
<1>9. /\ PointsOf(on)[b].avg = Averages(in)
      /\ PointsOf(on)[b].spaces_reporting = Cardinality(in)
      /\ PointsOf(on)[b].spaces_expected = Cardinality(SpacesOf(on))
  BY DEF PointsOf
<1> HIDE DEF on, in, there, sometime
<1>10. Cardinality(SpacesOf(in)) <= Cardinality(there)
  BY <1>2, <1>5, FS_Subset
<1>11. ASSUME Cardinality(in) = Cardinality(SpacesOf(on))
       PROVE  Cardinality(in) = Cardinality(sometime)
  <2>1. SpacesOf(in) = SpacesOf(on)
    BY <1>4, <1>6, <1>7, <1>11, FS_Subset
  <2>2. sometime = SpacesOf(on)
    BY <1>5, <1>8, <2>1
  <2> QED
    BY <1>11, <2>2
<1> QED
  BY <1>3, <1>4, <1>9, <1>10, <1>11 DEF on, in, there, sometime

(* The per-space answer holds each row once.                               *)
LEMMA SeriesSum ==
  ASSUME NEW rs, IsFiniteSet(rs), \A r \in rs : r.avg = 1
  PROVE  SumOfSeries(SeriesOf(rs)) = Averages(rs)
<1> DEFINE series == SeriesOf(rs)
<1>1. DOMAIN series = SpacesOf(rs)
  BY DEF SeriesOf, SpacesOf
<1>2. \A s \in DOMAIN series : series[s] = {r \in rs : r.space_id = s}
  BY DEF SeriesOf
<1>3. IsFiniteSet(DOMAIN series)
  <2>1. IsFiniteSet({[r \in rs |-> r.space_id][q] : q \in rs})
    BY ImageFinite
  <2>2. SpacesOf(rs) = {[r \in rs |-> r.space_id][q] : q \in rs}
    BY DEF SpacesOf
  <2> QED
    BY <1>1, <2>1, <2>2
<1> HIDE DEF series
<1>4. \A s \in DOMAIN series : IsFiniteSet(series[s])
  BY <1>2, FS_Subset
<1>5. Family(series, DOMAIN series)
  BY <1>2, <1>4 DEF Family
<1>6. ASSUME NEW s \in DOMAIN series PROVE Averages(series[s]) = Cardinality(series[s])
  <2>1. \A r \in series[s] : r.avg = 1
    BY <1>2
  <2> QED
    BY <1>4, <2>1, AveragesCount
<1>7. SumOfSeries(series) = Cardinality(Members(series, DOMAIN series))
  BY <1>3, <1>5, <1>6, SeriesTotal
<1>8. Members(series, DOMAIN series) = rs
  BY <1>1, <1>2 DEF Members, SpacesOf
<1>9. Averages(rs) = Cardinality(rs)
  BY AveragesCount
<1> QED
  BY <1>7, <1>8, <1>9, Zenon DEF series

(* What the history by floor answers is true (occupancy_service.py's       *)
(* history_by_floor() over what the rollup stored), for any spaces and     *)
(* floors, any number of buckets and any moves of a space to another floor *)
(* between them.                                                           *)
THEOREM FloorsTellWholeEver == FloorHistorySpec => []FloorsTellWhole
<1>1. ASSUME FloorInv, NEW frm \in 0 .. bucket, NEW to \in 0 .. bucket, ~Refuses(frm, to, {})
      PROVE  LET rs == Query(frm, to, {})
                 series == OccupancyHistory(frm, to, {})
                 answer == OccupancyHistoryByFloor(frm, to, {})
             IN  /\ \A f \in DOMAIN answer :
                      /\ ~Refuses(frm, to, {f})
                      /\ OccupancyHistoryByFloor(frm, to, {f}) = [g \in {f} |-> answer[f]]
                      /\ \A b \in DOMAIN answer[f] :
                           LET point == answer[f][b]
                               there == {s \in SpaceIds : floorThen[b][s] = f}
                               sometime == {s \in there : \E r \in rs : r.space_id = s /\ r.floor = f}
                           IN  /\ point.avg <= Cardinality(there)
                               /\ point.spaces_reporting = point.spaces_expected
                                    => point.avg = Cardinality(sometime)
                 /\ SumOfSeries(series) = Averages(rs)
  <2> DEFINE rs == Query(frm, to, {})
             answer == OccupancyHistoryByFloor(frm, to, {})
  <2>1. rs \subseteq table /\ IsFiniteSet(rs)
    BY <1>1, FS_Subset DEF FloorInv, Query
  <2>2. SumOfSeries(OccupancyHistory(frm, to, {})) = Averages(rs)
    <3>1. \A r \in rs : r.avg = 1
      BY <1>1, <2>1 DEF FloorInv, IsRow
    <3> QED
      BY <2>1, <3>1, SeriesSum DEF OccupancyHistory
  <2>3. ASSUME NEW f \in DOMAIN answer
        PROVE  ~Refuses(frm, to, {f})
    <3>1. Query(frm, to, {f}) \subseteq rs
      <4>1. Query(frm, to, {f}) = RowsOn(rs, f)
        BY FilterIsOn
      <4> QED
        BY <4>1 DEF RowsOn
    <3>2. Cardinality(Query(frm, to, {f})) <= Cardinality(rs)
      BY <2>1, <3>1, FS_Subset
    <3>3. Cardinality(Query(frm, to, {f})) \in Nat /\ Cardinality(rs) \in Nat
      BY <2>1, <3>1, FS_Subset, FS_CardinalityType
    <3> QED
      BY <1>1, <3>2, <3>3, FloorConstants DEF Refuses, TooLarge
  <2>4. ASSUME NEW f \in DOMAIN answer
        PROVE  OccupancyHistoryByFloor(frm, to, {f}) = [g \in {f} |-> answer[f]]
    BY FilterKeeps, FilterIsOn DEF OccupancyHistoryByFloor
  <2>5. ASSUME NEW f \in DOMAIN answer, NEW b \in DOMAIN answer[f]
        PROVE  LET point == answer[f][b]
                   there == {s \in SpaceIds : floorThen[b][s] = f}
                   sometime == {s \in there : \E r \in rs : r.space_id = s /\ r.floor = f}
               IN  /\ point.avg <= Cardinality(there)
                   /\ point.spaces_reporting = point.spaces_expected
                        => point.avg = Cardinality(sometime)
    <3>1. answer[f] = PointsOf(RowsOn(rs, f))
      BY ByFloorIs DEF OccupancyHistoryByFloor
    <3>2. b \in {r.bucket_ts : r \in RowsOn(rs, f)}
      BY <2>5, <3>1 DEF PointsOf
    <3>3. /\ PointsOf(RowsOn(rs, f))[b].avg <= Cardinality(WereThere(b, f))
          /\ PointsOf(RowsOn(rs, f))[b].spaces_reporting
               = PointsOf(RowsOn(rs, f))[b].spaces_expected
             => PointsOf(RowsOn(rs, f))[b].avg = Cardinality(Seen(rs, b, f))
      BY <1>1, <2>1, <3>2, PointTrue
    <3> QED
      BY <3>1, <3>3 DEF WereThere, Seen
  <2> QED
    BY <2>2, <2>3, <2>4, <2>5
<1>2. FloorInv => FloorsTellWhole
  BY <1>1 DEF FloorsTellWhole, SumOfSeries
<1> QED
  BY <1>2, InitFloors, FloorsKept, PTL DEF FloorHistorySpec
(***************************************************************************)
(* The drawing tools.  What a file holds is what the editor held when it   *)
(* was saved, and the editor never holds a half-drawn zone or a drawing    *)
(* twice; a number of shapes, taken in the order of the file, then gets    *)
(* ids that the table does not have.                                       *)
(***************************************************************************)
Shape == [name : Names \cup Nat, drawing : Nat, points : Nat]

(* Shapes drawn one after the other, `next' not among them.                *)
OneEach(list, next) ==
  /\ list \in Seq(Shape)
  /\ \A i \in 1..Len(list) : list[i].drawing < next
  /\ \A i, j \in 1..Len(list) : list[i].drawing = list[j].drawing => i = j

Loadable(zs, ls, next) ==
  /\ OneEach(zs, next) /\ OneEach(ls, next)
  /\ \A i \in 1..Len(zs) : zs[i].points >= 3
  /\ \A i \in 1..Len(zs), j \in 1..Len(ls) : zs[i].drawing # ls[j].drawing

EditorInv ==
  /\ clicked \in Nat /\ drawings \in Nat
  /\ Loadable(zonesDrawn, linesDrawn, drawings)
  /\ file # NoFile => Loadable(file.zones, file.lines, drawings)

DrawnRow == [kind : {"zone", "line"}, name : Names \cup Nat, drawing : Nat, spaced : BOOLEAN]

FilesInv ==
  /\ rows \in [DOMAIN rows -> DrawnRow]
  /\ DOMAIN rows \subseteq Nat /\ IsFiniteSet(DOMAIN rows)

(* A list whose shapes are all in another one, at different places: one       *)
(* shape taken out, or one renamed.                                        *)
TakenFrom(new, old, place) ==
  /\ new \in Seq(Shape)
  /\ place \in [1..Len(new) -> 1..Len(old)]
  /\ \A i, j \in 1..Len(new) : place[i] = place[j] => i = j
  /\ \A i \in 1..Len(new) : /\ new[i].drawing = old[place[i]].drawing
                            /\ new[i].points = old[place[i]].points

LEMMA ShapesIn ==
  ASSUME NEW list \in Seq(Shape)
  PROVE  /\ Len(list) \in Nat
         /\ \A i \in 1..Len(list) : /\ list[i] \in Shape
                                   /\ list[i].drawing \in Nat /\ list[i].points \in Nat
<1>1. \A s \in Shape : s.drawing \in Nat /\ s.points \in Nat
  BY DEF Shape
<1>2. Len(list) \in Nat /\ \A i \in 1..Len(list) : list[i] \in Shape
  OBVIOUS
<1> QED
  BY <1>1, <1>2

LEMMA TakenLoadable ==
  ASSUME NEW zs, NEW ls, NEW next \in Nat, Loadable(zs, ls, next), NEW new, NEW place
  PROVE  /\ TakenFrom(new, zs, place) => Loadable(new, ls, next)
         /\ TakenFrom(new, ls, place) => Loadable(zs, new, next)
<1>1. ASSUME NEW old, OneEach(old, next), TakenFrom(new, old, place)
      PROVE  OneEach(new, next)
  <2>1. /\ \A i \in 1..Len(new) : place[i] \in 1..Len(old)
        /\ \A i, j \in 1..Len(new) : place[i] = place[j] => i = j
        /\ \A i \in 1..Len(new) : new[i].drawing = old[place[i]].drawing
    BY <1>1 DEF TakenFrom
  <2>2. /\ \A i \in 1..Len(old) : old[i].drawing < next
        /\ \A i, j \in 1..Len(old) : old[i].drawing = old[j].drawing => i = j
    BY <1>1 DEF OneEach
  <2>3. ASSUME NEW i \in 1..Len(new), NEW j \in 1..Len(new), new[i].drawing = new[j].drawing
        PROVE  i = j
    <3>1. /\ place[i] \in 1..Len(old) /\ place[j] \in 1..Len(old)
          /\ old[place[i]].drawing = old[place[j]].drawing
      BY <2>1, <2>3
    <3>2. place[i] = place[j]
      BY <2>2, <3>1
    <3> QED
      BY <2>1, <3>2
  <2>4. \A i \in 1..Len(new) : new[i].drawing < next
    BY <2>1, <2>2
  <2> QED
    BY <1>1, <2>3, <2>4 DEF OneEach, TakenFrom
<1>2. ASSUME TakenFrom(new, zs, place) PROVE Loadable(new, ls, next)
  <2>1. OneEach(new, next) /\ OneEach(ls, next)
    BY <1>1, <1>2 DEF Loadable
  <2>2. \A i \in 1..Len(new) : /\ place[i] \in 1..Len(zs) /\ new[i].points = zs[place[i]].points
                              /\ new[i].drawing = zs[place[i]].drawing
    BY <1>2 DEF TakenFrom
  <2>3. /\ \A i \in 1..Len(zs) : zs[i].points >= 3
        /\ \A i \in 1..Len(zs), j \in 1..Len(ls) : zs[i].drawing # ls[j].drawing
    BY DEF Loadable
  <2>4. \A i \in 1..Len(new) : new[i].points >= 3
    BY <2>2, <2>3
  <2>5. \A i \in 1..Len(new), j \in 1..Len(ls) : new[i].drawing # ls[j].drawing
    BY <2>2, <2>3
  <2> QED
    BY <2>1, <2>4, <2>5 DEF Loadable
<1>3. ASSUME TakenFrom(new, ls, place) PROVE Loadable(zs, new, next)
  <2>1. OneEach(zs, next) /\ OneEach(new, next)
    BY <1>1, <1>3 DEF Loadable
  <2> QED
    BY <1>3, <2>1 DEF Loadable, TakenFrom
<1> QED
  BY <1>2, <1>3

LEMMA LaterLoadable ==
  ASSUME NEW zs, NEW ls, NEW next \in Nat, NEW later \in Nat, next <= later,
         Loadable(zs, ls, next)
  PROVE  Loadable(zs, ls, later)
<1>1. ASSUME NEW list, OneEach(list, next) PROVE OneEach(list, later)
  <2>1. list \in Seq(Shape)
    BY <1>1 DEF OneEach
  <2>2. \A i \in 1..Len(list) : list[i].drawing \in Nat
    BY <2>1, ShapesIn
  <2> QED
    BY <1>1, <2>2 DEF OneEach
<1> QED
  BY <1>1 DEF Loadable

LEMMA OneMore ==
  ASSUME NEW list, NEW next \in Nat, OneEach(list, next),
         NEW s \in Shape, s.drawing = next
  PROVE  /\ OneEach(Append(list, s), next + 1)
         /\ Len(Append(list, s)) = Len(list) + 1
         /\ \A i \in 1..Len(list) : Append(list, s)[i] = list[i]
         /\ Append(list, s)[Len(list) + 1] = s
<1>1. /\ list \in Seq(Shape) /\ Len(list) \in Nat
      /\ Append(list, s) \in Seq(Shape)
      /\ Len(Append(list, s)) = Len(list) + 1
      /\ \A i \in 1..Len(list) : Append(list, s)[i] = list[i]
      /\ Append(list, s)[Len(list) + 1] = s
  BY DEF OneEach
<1>2. \A i \in 1..Len(list) : list[i].drawing \in Nat /\ list[i].drawing < next
  BY <1>1, ShapesIn DEF OneEach
<1> DEFINE new == Append(list, s)
<1>3. \A i \in 1..Len(new) : i \in 1..Len(list) \/ i = Len(list) + 1
  BY <1>1
<1> HIDE DEF new
<1>4. OneEach(new, next + 1)
  <2>1. new \in Seq(Shape) /\ Len(new) = Len(list) + 1
    BY <1>1 DEF new
  <2>2. /\ \A i \in 1..Len(list) : new[i].drawing = list[i].drawing
        /\ new[Len(list) + 1].drawing = next
    BY <1>1 DEF new
  <2>3. \A i, j \in 1..Len(list) : list[i].drawing = list[j].drawing => i = j
    BY DEF OneEach
  <2>4. \A i \in 1..Len(new) : new[i].drawing < next + 1
    BY <1>2, <1>3, <2>2
  <2>5. \A i, j \in 1..Len(new) : new[i].drawing = new[j].drawing => i = j
    BY <1>2, <1>3, <2>2, <2>3
  <2> QED
    BY <2>1, <2>4, <2>5 DEF OneEach
<1> QED
  BY <1>1, <1>4 DEF new

LEMMA MoreLoadable ==
  ASSUME NEW zs, NEW ls, NEW next \in Nat, Loadable(zs, ls, next),
         NEW s \in Shape, s.drawing = next
  PROVE  /\ s.points >= 3 => Loadable(Append(zs, s), ls, next + 1)
         /\ Loadable(zs, Append(ls, s), next + 1)
<1>1. OneEach(zs, next) /\ OneEach(ls, next) /\ OneEach(zs, next + 1) /\ OneEach(ls, next + 1)
  BY LaterLoadable DEF Loadable
<1>2. /\ \A i \in 1..Len(zs) : zs[i].drawing \in Nat /\ zs[i].drawing < next
      /\ \A i \in 1..Len(ls) : ls[i].drawing \in Nat /\ ls[i].drawing < next
      /\ Len(zs) \in Nat /\ Len(ls) \in Nat
  BY <1>1, ShapesIn DEF OneEach
<1>3. ASSUME NEW list, OneEach(list, next)
      PROVE  /\ OneEach(Append(list, s), next + 1)
             /\ \A i \in 1..Len(Append(list, s)) :
                  \/ i \in 1..Len(list) /\ Append(list, s)[i] = list[i]
                  \/ Append(list, s)[i] = s
  <2>1. Len(list) \in Nat
    BY <1>3, ShapesIn DEF OneEach
  <2>2. OneEach(Append(list, s), next + 1)
    BY <1>3, OneMore
  <2>3. /\ Len(Append(list, s)) = Len(list) + 1
        /\ \A i \in 1..Len(list) : Append(list, s)[i] = list[i]
        /\ Append(list, s)[Len(list) + 1] = s
    BY <1>3, OneMore
  <2> QED
    BY <2>1, <2>2, <2>3
<1>4. ASSUME s.points >= 3 PROVE Loadable(Append(zs, s), ls, next + 1)
  <2>1. OneEach(Append(zs, s), next + 1)
    BY <1>1, <1>3
  <2>2. \A i \in 1..Len(Append(zs, s)) : \/ i \in 1..Len(zs) /\ Append(zs, s)[i] = zs[i]
                                        \/ Append(zs, s)[i] = s
    BY <1>1, <1>3
  <2>3. /\ \A i \in 1..Len(zs) : zs[i].points >= 3
        /\ \A i \in 1..Len(zs), j \in 1..Len(ls) : zs[i].drawing # ls[j].drawing
    BY DEF Loadable
  <2>4. \A i \in 1..Len(Append(zs, s)) : Append(zs, s)[i].points >= 3
    BY <1>4, <2>2, <2>3
  <2>5. \A j \in 1..Len(ls) : s.drawing # ls[j].drawing
    BY <1>2
  <2>6. \A i \in 1..Len(Append(zs, s)), j \in 1..Len(ls) :
          Append(zs, s)[i].drawing # ls[j].drawing
    BY <2>2, <2>3, <2>5
  <2> QED
    BY <1>1, <2>1, <2>4, <2>6 DEF Loadable
<1>5. Loadable(zs, Append(ls, s), next + 1)
  <2>1. OneEach(Append(ls, s), next + 1)
    BY <1>1, <1>3
  <2>2. \A i \in 1..Len(Append(ls, s)) : \/ i \in 1..Len(ls) /\ Append(ls, s)[i] = ls[i]
                                        \/ Append(ls, s)[i] = s
    BY <1>1, <1>3
  <2>3. /\ \A i \in 1..Len(zs) : zs[i].points >= 3
        /\ \A i \in 1..Len(zs), j \in 1..Len(ls) : zs[i].drawing # ls[j].drawing
    BY DEF Loadable
  <2>4. \A i \in 1..Len(zs) : zs[i].drawing # s.drawing
    BY <1>2
  <2>5. \A i \in 1..Len(zs), j \in 1..Len(Append(ls, s)) :
          zs[i].drawing # Append(ls, s)[j].drawing
    BY <2>2, <2>3, <2>4
  <2> QED
    BY <1>1, <2>1, <2>3, <2>5 DEF Loadable
<1> QED
  BY <1>4, <1>5

LEMMA Joined ==
  ASSUME NEW S, NEW front \in Seq(S), NEW back \in Seq(S)
  PROVE  /\ front \o back \in Seq(S) /\ Len(front \o back) = Len(front) + Len(back)
         /\ \A k \in 1..(Len(front) + Len(back)) :
              (front \o back)[k] = IF k <= Len(front) THEN front[k] ELSE back[k - Len(front)]
OBVIOUS

LEMMA RemovedTaken ==
  ASSUME NEW list \in Seq(Shape), NEW i \in 1..Len(list)
  PROVE  TakenFrom(RemoveAt(list, i), list,
                   [k \in 1..Len(list) - 1 |-> IF k < i THEN k ELSE k + 1])
<1> DEFINE a == SubSeq(list, 1, i - 1)
           b == SubSeq(list, i + 1, Len(list))
<1>1. /\ a \in Seq(Shape) /\ Len(a) = i - 1
      /\ \A k \in 1..(i - 1) : a[k] = list[k]
  OBVIOUS
<1>2. /\ b \in Seq(Shape) /\ Len(b) = Len(list) - i
      /\ \A k \in 1..(Len(list) - i) : b[k] = list[i + k]
  OBVIOUS
<1>3. RemoveAt(list, i) = a \o b
  BY DEF RemoveAt
<1>0. i \in 1..Len(list) /\ Len(list) \in Nat
  OBVIOUS
<1> HIDE DEF a, b
<1>4. /\ a \o b \in Seq(Shape) /\ Len(a \o b) = Len(list) - 1
      /\ \A k \in 1..(Len(list) - 1) : (a \o b)[k] = list[IF k < i THEN k ELSE k + 1]
  <2>1. /\ a \o b \in Seq(Shape) /\ Len(a \o b) = Len(a) + Len(b)
        /\ \A k \in 1..(Len(a) + Len(b)) :
             (a \o b)[k] = IF k <= Len(a) THEN a[k] ELSE b[k - Len(a)]
    BY <1>1, <1>2, Joined
  <2>3. ASSUME NEW k \in 1..(Len(list) - 1)
        PROVE  (a \o b)[k] = list[IF k < i THEN k ELSE k + 1]
    <3>0. Len(a) = i - 1 /\ k \in Int /\ k \in 1..(Len(a) + Len(b))
      BY <1>0, <1>1, <1>2
    <3>1. CASE k < i
      <4>1. (a \o b)[k] = a[k] /\ k \in 1..(i - 1)
        BY <1>0, <2>1, <3>0, <3>1
      <4> QED
        BY <1>1, <3>1, <4>1
    <3>2. CASE ~(k < i)
      <4>1. k - (i - 1) \in 1..(Len(list) - i) /\ i + (k - (i - 1)) = k + 1
        BY <1>0, <3>2
      <4>2. (a \o b)[k] = b[k - (i - 1)]
        BY <1>0, <2>1, <3>0, <3>2
      <4>3. b[k - (i - 1)] = list[i + (k - (i - 1))]
        BY <1>2, <4>1
      <4> QED
        BY <3>2, <4>1, <4>2, <4>3
    <3> QED
      BY <3>1, <3>2
  <2> QED
    BY <1>0, <1>1, <1>2, <2>1, <2>3
<1> DEFINE new == a \o b
           place == [k \in 1..Len(list) - 1 |-> IF k < i THEN k ELSE k + 1]
<1>5. /\ place \in [1..Len(list) - 1 -> 1..Len(list)]
      /\ \A k \in 1..(Len(list) - 1) : place[k] = IF k < i THEN k ELSE k + 1
  BY <1>0
<1>6. \A k, l \in 1..(Len(list) - 1) : place[k] = place[l] => k = l
  BY <1>0, <1>5
<1> HIDE DEF new, place
<1>7. /\ new \in Seq(Shape) /\ Len(new) = Len(list) - 1
      /\ \A k \in 1..(Len(list) - 1) : new[k] = list[place[k]]
  BY <1>4, <1>5 DEF new
<1>8. TakenFrom(new, list, place)
  BY <1>5, <1>6, <1>7 DEF TakenFrom
<1> QED
  BY <1>3, <1>8 DEF new, place

LEMMA RenamedTaken ==
  ASSUME NEW list \in Seq(Shape), NEW i \in 1..Len(list), NEW name \in Names
  PROVE  TakenFrom([list EXCEPT ![i].name = name], list, [k \in 1..Len(list) |-> k])
<1> DEFINE new == [list EXCEPT ![i].name = name]
<1>0. \A s \in Shape : /\ [s EXCEPT !.name = name] \in Shape
                        /\ [s EXCEPT !.name = name].drawing = s.drawing
                        /\ [s EXCEPT !.name = name].points = s.points
  BY DEF Shape
<1>1. new \in Seq(Shape) /\ Len(new) = Len(list)
  BY <1>0
<1>2. ASSUME NEW k \in 1..Len(list)
      PROVE  new[k].drawing = list[k].drawing /\ new[k].points = list[k].points
  BY <1>0
<1> HIDE DEF new
<1>3. TakenFrom(new, list, [k \in 1..Len(list) |-> k])
  BY <1>1, <1>2 DEF TakenFrom
<1> QED
  BY <1>3 DEF new

LEMMA InitEditor == EditorInit => EditorInv
<1> SUFFICES ASSUME EditorInit PROVE EditorInv
  OBVIOUS
<1>1. << >> \in Seq(Shape) /\ Len(<< >>) = 0
  OBVIOUS
<1>2. OneEach(<< >>, 0)
  BY <1>1 DEF OneEach
<1>3. Loadable(<< >>, << >>, 0)
  BY <1>1, <1>2 DEF Loadable
<1> QED
  BY <1>3 DEF EditorInit, EditorInv

(* A shape is drawn only by the third point of a line and by finishing a   *)
(* zone, which has then three points or more.                              *)
LEMMA ShapesListed ==
  ASSUME EditorInv
  PROVE  /\ zonesDrawn \in Seq(Shape) /\ linesDrawn \in Seq(Shape)
         /\ Len(zonesDrawn) \in Nat /\ Len(linesDrawn) \in Nat
         /\ DOMAIN zonesDrawn = 1..Len(zonesDrawn) /\ DOMAIN linesDrawn = 1..Len(linesDrawn)
<1>1. zonesDrawn \in Seq(Shape) /\ linesDrawn \in Seq(Shape)
  BY DEF EditorInv, Loadable, OneEach
<1> QED
  BY <1>1

LEMMA FinishedShape ==
  ASSUME EditorInv, NEW list \in Seq(Shape), NEW points \in Nat, NEW drawn,
         Finished(list, points, drawn)
  PROVE  /\ drawings' = drawings + 1
         /\ \E s \in Shape : s.drawing = drawings /\ s.points = points /\ drawn = Append(list, s)
<1>1. PICK name \in Names \cup {Len(list) + 1} :
        drawn = Append(list, [name |-> name, drawing |-> drawings, points |-> points])
  BY DEF Finished
<1>2. Len(list) + 1 \in Nat /\ drawings \in Nat
  BY DEF EditorInv
<1> DEFINE s == [name |-> name, drawing |-> drawings, points |-> points]
<1>3. s \in Shape /\ s.drawing = drawings /\ s.points = points
  BY <1>2 DEF Shape
<1> QED
  BY <1>1, <1>3 DEF Finished

LEMMA FileStays ==
  ASSUME EditorInv, UNCHANGED file, drawings' \in Nat, drawings <= drawings'
  PROVE  file' # NoFile => Loadable(file'.zones, file'.lines, drawings')
BY LaterLoadable DEF EditorInv

LEMMA EditorStep == EditorInv /\ [EditorNext]_editorVars => EditorInv'
<1> SUFFICES ASSUME EditorInv, [EditorNext]_editorVars PROVE EditorInv'
  OBVIOUS
<1>1. /\ clicked \in Nat /\ drawings \in Nat
      /\ Loadable(zonesDrawn, linesDrawn, drawings)
  BY DEF EditorInv
<1>2. CASE Click
  <2>1. CASE lineMode /\ clicked = 2
    <3>1. /\ clicked' = 0 /\ Finished(linesDrawn, 2, linesDrawn')
          /\ UNCHANGED <<zonesDrawn, file>>
      BY <1>2, <2>1 DEF Click
    <3>2. PICK s \in Shape : s.drawing = drawings /\ linesDrawn' = Append(linesDrawn, s)
      BY <3>1, ShapesListed, FinishedShape
    <3>3. drawings' = drawings + 1
      BY <3>1, ShapesListed, FinishedShape
    <3>4. Loadable(zonesDrawn', linesDrawn', drawings')
      BY <1>1, <3>1, <3>2, <3>3, MoreLoadable
    <3> QED
      BY <1>1, <3>1, <3>3, <3>4, FileStays DEF EditorInv
  <2>2. CASE ~(lineMode /\ clicked = 2)
    <3>1. clicked' = clicked + 1 /\ UNCHANGED <<zonesDrawn, linesDrawn, drawings, file>>
      BY <1>2, <2>2 DEF Click
    <3> QED
      BY <1>1, <3>1 DEF EditorInv
  <2> QED
    BY <2>1, <2>2
<1>3. CASE FinishZone
  <2>1. /\ clicked >= 3 /\ Finished(zonesDrawn, clicked, zonesDrawn')
        /\ clicked' = 0 /\ UNCHANGED <<linesDrawn, file>>
    BY <1>3 DEF FinishZone
  <2>2. PICK s \in Shape : /\ s.drawing = drawings /\ s.points = clicked
                           /\ zonesDrawn' = Append(zonesDrawn, s)
    BY <1>1, <2>1, ShapesListed, FinishedShape
  <2>3. drawings' = drawings + 1
    BY <1>1, <2>1, ShapesListed, FinishedShape
  <2>4. Loadable(zonesDrawn', linesDrawn', drawings')
    BY <1>1, <2>1, <2>2, <2>3, MoreLoadable
  <2> QED
    BY <1>1, <2>1, <2>3, <2>4, FileStays DEF EditorInv
<1>4. CASE Undo
  <2>1. clicked' \in Nat /\ UNCHANGED <<zonesDrawn, linesDrawn, drawings, file>>
    BY <1>1, <1>4 DEF Undo, shapes
  <2> QED
    BY <1>1, <2>1 DEF EditorInv
<1>5. ASSUME NEW kind \in {"zone", "line"}, NEW i \in DOMAIN ListOf(kind), RemoveShape(kind, i)
      PROVE  EditorInv'
  <2>1. UNCHANGED <<clicked, file, drawings>>
    BY <1>5 DEF RemoveShape
  <2>2. CASE kind = "zone"
    <3>1. /\ i \in 1..Len(zonesDrawn) /\ zonesDrawn' = RemoveAt(zonesDrawn, i)
          /\ UNCHANGED linesDrawn
      BY <1>5, <2>2, ShapesListed DEF RemoveShape, ListOf
    <3>2. \E place : TakenFrom(zonesDrawn', zonesDrawn, place)
      BY <3>1, ShapesListed, RemovedTaken
    <3>3. Loadable(zonesDrawn', linesDrawn', drawings')
      BY <1>1, <2>1, <3>1, <3>2, TakenLoadable
    <3> QED
      BY <1>1, <2>1, <3>3 DEF EditorInv
  <2>3. CASE kind = "line"
    <3>1. /\ i \in 1..Len(linesDrawn) /\ linesDrawn' = RemoveAt(linesDrawn, i)
          /\ UNCHANGED zonesDrawn
      BY <1>5, <2>3, ShapesListed DEF RemoveShape, ListOf
    <3>2. \E place : TakenFrom(linesDrawn', linesDrawn, place)
      BY <3>1, ShapesListed, RemovedTaken
    <3>3. Loadable(zonesDrawn', linesDrawn', drawings')
      BY <1>1, <2>1, <3>1, <3>2, TakenLoadable
    <3> QED
      BY <1>1, <2>1, <3>3 DEF EditorInv
  <2> QED
    BY <2>2, <2>3
<1>6. ASSUME NEW kind \in {"zone", "line"}, NEW i \in DOMAIN ListOf(kind), RenameShape(kind, i)
      PROVE  EditorInv'
  <2>1. UNCHANGED <<clicked, file, drawings>>
    BY <1>6 DEF RenameShape
  <2>2. CASE kind = "zone"
    <3>1. PICK name \in Names : zonesDrawn' = [zonesDrawn EXCEPT ![i].name = name]
      BY <1>6, <2>2 DEF RenameShape
    <3>2. i \in 1..Len(zonesDrawn) /\ UNCHANGED linesDrawn
      BY <1>6, <2>2, ShapesListed DEF RenameShape, ListOf
    <3>3. \E place : TakenFrom(zonesDrawn', zonesDrawn, place)
      BY <3>1, <3>2, ShapesListed, RenamedTaken
    <3>4. Loadable(zonesDrawn', linesDrawn', drawings')
      BY <1>1, <2>1, <3>2, <3>3, TakenLoadable
    <3> QED
      BY <1>1, <2>1, <3>4 DEF EditorInv
  <2>3. CASE kind = "line"
    <3>1. PICK name \in Names : linesDrawn' = [linesDrawn EXCEPT ![i].name = name]
      BY <1>6, <2>3 DEF RenameShape
    <3>2. i \in 1..Len(linesDrawn) /\ UNCHANGED zonesDrawn
      BY <1>6, <2>3, ShapesListed DEF RenameShape, ListOf
    <3>3. \E place : TakenFrom(linesDrawn', linesDrawn, place)
      BY <3>1, <3>2, ShapesListed, RenamedTaken
    <3>4. Loadable(zonesDrawn', linesDrawn', drawings')
      BY <1>1, <2>1, <3>2, <3>3, TakenLoadable
    <3> QED
      BY <1>1, <2>1, <3>4 DEF EditorInv
  <2> QED
    BY <2>2, <2>3
<1>7. CASE ToggleLine \/ \E m \in {"EDIT", "REMOVE", "RENAME"} : Toggle(m)
  <2>1. clicked' = 0 /\ UNCHANGED <<zonesDrawn, linesDrawn, drawings, file>>
    BY <1>7 DEF ToggleLine, Toggle, shapes
  <2> QED
    BY <1>1, <2>1 DEF EditorInv
<1>8. CASE Save
  <2>1. /\ file'.zones = zonesDrawn /\ file'.lines = linesDrawn
        /\ UNCHANGED <<zonesDrawn, linesDrawn, clicked, drawings>>
    BY <1>8 DEF Save, shapes
  <2> QED
    BY <1>1, <2>1 DEF EditorInv
<1>9. CASE Quit
  <2>1. /\ zonesDrawn' = << >> /\ linesDrawn' = << >> /\ clicked' = 0
        /\ UNCHANGED <<file, drawings>>
    BY <1>9 DEF Quit
  <2>2. << >> \in Seq(Shape) /\ Len(<< >>) = 0
    OBVIOUS
  <2>3. Loadable(<< >>, << >>, drawings)
    BY <2>2 DEF Loadable, OneEach
  <2> QED
    BY <1>1, <2>1, <2>3 DEF EditorInv
<1>10. CASE UNCHANGED editorVars
  <2>1. UNCHANGED <<zonesDrawn, linesDrawn, clicked, drawings, file>>
    BY <1>10 DEF editorVars, shapes
  <2> QED
    BY <1>1, <2>1 DEF EditorInv
<1> QED
  BY <1>2, <1>3, <1>4, <1>5, <1>6, <1>7, <1>8, <1>9, <1>10 DEF EditorNext

(* The list that the tools read: the zones of the file, then its lines,    *)
(* all drawings different.                                                 *)
Listed == [kind : {"zone", "line"}, name : Names \cup Nat, drawing : Nat]

Typed(list, kind) ==
  [i \in DOMAIN list |-> [kind |-> kind, name |-> list[i].name, drawing |-> list[i].drawing]]

Told(list) ==
  \A i, j \in 1..Len(list) : list[i].drawing = list[j].drawing => i = j

LEMMA TypedAre ==
  ASSUME NEW list, OneEach(list, drawings), NEW kind \in {"zone", "line"}
  PROVE  /\ Typed(list, kind) \in Seq(Listed) /\ Len(Typed(list, kind)) = Len(list)
         /\ Told(Typed(list, kind))
         /\ \A i \in 1..Len(list) : Typed(list, kind)[i].drawing = list[i].drawing
<1> DEFINE typed == Typed(list, kind)
<1>1. /\ list \in Seq(Shape) /\ DOMAIN list = 1..Len(list) /\ Len(list) \in Nat
      /\ \A i \in 1..Len(list) : list[i] \in Shape
  BY DEF OneEach
<1>2. ASSUME NEW i \in 1..Len(list)
      PROVE  typed[i] \in Listed /\ typed[i].drawing = list[i].drawing
  BY <1>1 DEF Listed, Shape, Typed
<1>3. typed = [i \in 1..Len(list) |-> typed[i]]
  BY <1>1 DEF Typed
<1> SUFFICES /\ typed \in Seq(Listed) /\ Len(typed) = Len(list) /\ Told(typed)
             /\ \A i \in 1..Len(list) : typed[i].drawing = list[i].drawing
  OBVIOUS
<1> HIDE DEF typed
<1>4. typed \in Seq(Listed) /\ Len(typed) = Len(list)
  BY <1>1, <1>2, <1>3
<1> QED
  BY <1>2, <1>4 DEF OneEach, Told

LEMMA JoinedTold ==
  ASSUME NEW S, NEW front \in Seq(S), NEW back \in Seq(S), Told(front), Told(back),
         \A i \in 1..Len(front), j \in 1..Len(back) : front[i].drawing # back[j].drawing
  PROVE  Told(front \o back)
<1> DEFINE n == Len(front)
           m == Len(back)
           all == front \o back
<1>1. /\ n \in Nat /\ m \in Nat /\ Len(all) = n + m
      /\ \A k \in 1..(n + m) : all[k] = IF k <= n THEN front[k] ELSE back[k - n]
  BY Joined
<1>2. /\ \A i, j \in 1..n : front[i].drawing = front[j].drawing => i = j
      /\ \A i, j \in 1..m : back[i].drawing = back[j].drawing => i = j
      /\ \A i \in 1..n, j \in 1..m : front[i].drawing # back[j].drawing
  BY DEF Told
<1> HIDE DEF n, m, all
<1>3. ASSUME NEW i \in 1..(n + m), NEW j \in 1..(n + m), all[i].drawing = all[j].drawing
      PROVE  i = j
  <2>1. ASSUME NEW k \in 1..(n + m)
        PROVE  \/ k \in 1..n /\ all[k] = front[k]
               \/ ~(k <= n) /\ k - n \in 1..m /\ all[k] = back[k - n] /\ k \in Int
    BY <1>1
  <2>2. CASE i \in 1..n /\ j \in 1..n
    BY <1>1, <1>2, <1>3, <2>1, <2>2
  <2>3. CASE i \in 1..n /\ j \notin 1..n
    BY <1>1, <1>2, <1>3, <2>1, <2>3
  <2>4. CASE i \notin 1..n /\ j \in 1..n
    BY <1>1, <1>2, <1>3, <2>1, <2>4
  <2>5. CASE i \notin 1..n /\ j \notin 1..n
    <3>1. i - n \in 1..m /\ j - n \in 1..m /\ back[i - n].drawing = back[j - n].drawing
      BY <1>3, <2>1, <2>5
    <3>2. i - n = j - n
      BY <1>2, <3>1
    <3> QED
      BY <1>1, <3>2
  <2> QED
    BY <2>2, <2>3, <2>4, <2>5
<1> QED
  BY <1>1, <1>3 DEF Told, all

LEMMA ShapesAre ==
  ASSUME EditorInv, file # NoFile
  PROVE  /\ Shapes \in Seq(Listed) /\ DOMAIN Shapes = 1..Len(Shapes) /\ Len(Shapes) \in Nat
         /\ \A i, j \in DOMAIN Shapes : Shapes[i].drawing = Shapes[j].drawing => i = j
<1> DEFINE zs == Typed(file.zones, "zone")
           ls == Typed(file.lines, "line")
<1>1. Shapes = zs \o ls
  BY DEF Shapes, Typed
<1>2. /\ OneEach(file.zones, drawings) /\ OneEach(file.lines, drawings)
      /\ \A i \in 1..Len(file.zones), j \in 1..Len(file.lines) :
           file.zones[i].drawing # file.lines[j].drawing
  BY DEF EditorInv, Loadable
<1>3. /\ zs \in Seq(Listed) /\ Len(zs) = Len(file.zones) /\ Told(zs)
      /\ \A i \in 1..Len(zs) : zs[i].drawing = file.zones[i].drawing
  BY <1>2, TypedAre
<1>4. /\ ls \in Seq(Listed) /\ Len(ls) = Len(file.lines) /\ Told(ls)
      /\ \A i \in 1..Len(ls) : ls[i].drawing = file.lines[i].drawing
  BY <1>2, TypedAre
<1>5. \A i \in 1..Len(zs), j \in 1..Len(ls) : zs[i].drawing # ls[j].drawing
  BY <1>2, <1>3, <1>4
<1> HIDE DEF zs, ls
<1>6. zs \o ls \in Seq(Listed) /\ Told(zs \o ls)
  BY <1>3, <1>4, <1>5, Joined, JoinedTold
<1> QED
  BY <1>1, <1>6 DEF Told

(* The place of an element in the order of its set tells it apart.         *)
UpTo(S, i) == {j \in S : j <= i}
Rank(S, i) == Cardinality(UpTo(S, i))

LEMMA RanksDiffer ==
  ASSUME NEW S, IsFiniteSet(S), S \subseteq Nat
  PROVE  /\ \A i \in S : Rank(S, i) \in Nat /\ Rank(S, i) >= 1
         /\ \A i, j \in S : Rank(S, i) = Rank(S, j) => i = j
<1>1. ASSUME NEW i \in S
      PROVE  IsFiniteSet(UpTo(S, i)) /\ i \in UpTo(S, i) /\ Rank(S, i) \in Nat
  <2>1. IsFiniteSet(UpTo(S, i)) /\ i \in UpTo(S, i)
    BY FS_Subset DEF UpTo
  <2> QED
    BY <2>1, FS_CardinalityType DEF Rank
<1>2. ASSUME NEW i \in S PROVE Rank(S, i) # 0
  BY <1>1, FS_EmptySet DEF Rank
<1>3. ASSUME NEW i \in S, NEW j \in S, i < j PROVE Rank(S, i) < Rank(S, j)
  <2>1. UpTo(S, i) \subseteq UpTo(S, j)
    <3>1. \A k \in S : k <= i => k <= j
      BY <1>3
    <3> QED
      BY <3>1 DEF UpTo
  <2>2. j \in UpTo(S, j) /\ j \notin UpTo(S, i)
    BY <1>3 DEF UpTo
  <2>3. IsFiniteSet(UpTo(S, j)) /\ UpTo(S, i) # UpTo(S, j)
    BY <1>1, <2>2
  <2>4. Cardinality(UpTo(S, i)) \in Int /\ Cardinality(UpTo(S, j)) \in Int
    BY <1>1 DEF Rank
  <2>5. /\ Cardinality(UpTo(S, i)) <= Cardinality(UpTo(S, j))
        /\ Cardinality(UpTo(S, i)) # Cardinality(UpTo(S, j))
    BY <2>1, <2>3, FS_Subset
  <2> QED
    BY <2>4, <2>5 DEF Rank
<1>4. ASSUME NEW i \in S, NEW j \in S, Rank(S, i) = Rank(S, j) PROVE i = j
  <2>1. i \in Int /\ j \in Int /\ Rank(S, i) \in Int
    BY <1>1
  <2>2. ~(i < j) /\ ~(j < i)
    BY <1>1, <1>3, <1>4
  <2> QED
    BY <2>1, <2>2
<1>5. \A i \in S : Rank(S, i) \in Nat /\ Rank(S, i) >= 1
  BY <1>1, <1>2
<1> QED
  BY <1>4, <1>5

LEMMA HighestIs ==
  ASSUME FilesInv
  PROVE  HighestId \in Nat /\ \A id \in DOMAIN rows : id <= HighestId
<1>1. CASE DOMAIN rows = {}
  BY <1>1 DEF HighestId
<1>2. CASE DOMAIN rows # {}
  <2>1. Max(DOMAIN rows) \in DOMAIN rows /\ \A y \in DOMAIN rows : y <= Max(DOMAIN rows)
    BY <1>2, MaxOfFinite DEF FilesInv
  <2> QED
    BY <1>2, <2>1 DEF HighestId, FilesInv
<1> QED
  BY <1>1, <1>2

(* What an import adds, and that it leaves the rows that are there.        *)
RowsAdded(chosen, idOf) ==
  /\ \A i \in chosen : idOf[i] \in Nat \ DOMAIN rows
  /\ \A i, j \in chosen : idOf[i] = idOf[j] => i = j
  /\ DOMAIN rows' = DOMAIN rows \cup {idOf[i] : i \in chosen}
  /\ rows' \in [DOMAIN rows' -> DrawnRow]
  /\ \A id \in DOMAIN rows : rows'[id] = rows[id]
  /\ \A i \in chosen : KeyOf(rows'[idOf[i]]) = KeyOf(Shapes[i])

LEMMA InsertedAdds ==
  ASSUME EditorInv, FilesInv, file # NoFile, NEW chosen \in SUBSET DOMAIN Shapes,
         Inserted(chosen)
  PROVE  /\ \E idOf : RowsAdded(chosen, idOf)
         /\ FilesInv'
<1> DEFINE idOf(i) == HighestId + Cardinality({j \in chosen : j <= i})
           ids     == {idOf(i) : i \in chosen}
           place(id)  == CHOOSE i \in chosen : idOf(i) = id
<1>1. PICK spaced \in BOOLEAN :
        rows' = [id \in DOMAIN rows \cup ids |->
                   IF id \in DOMAIN rows THEN rows[id]
                   ELSE [kind |-> Shapes[place(id)].kind, name |-> Shapes[place(id)].name,
                         drawing |-> Shapes[place(id)].drawing, spaced |-> spaced]]
  BY DEF Inserted
<1>2. IsFiniteSet(chosen) /\ chosen \subseteq Nat
  <2>1. IsFiniteSet(1..Len(Shapes)) /\ chosen \subseteq 1..Len(Shapes)
    BY ShapesAre, FS_Interval
  <2> QED
    BY <2>1, FS_Subset
<1>3. \A i \in chosen : idOf(i) = HighestId + Rank(chosen, i)
  BY DEF Rank, UpTo
<1>4. /\ \A i \in chosen : idOf(i) \in Nat /\ idOf(i) > HighestId
      /\ \A i, j \in chosen : idOf(i) = idOf(j) => i = j
  <2>1. HighestId \in Nat
    BY HighestIs
  <2>2. /\ \A i \in chosen : Rank(chosen, i) \in Nat /\ Rank(chosen, i) >= 1
        /\ \A i, j \in chosen : Rank(chosen, i) = Rank(chosen, j) => i = j
    BY <1>2, RanksDiffer
  <2> QED
    BY <1>3, <2>1, <2>2
<1>5. \A i \in chosen : idOf(i) \notin DOMAIN rows
  <2>1. HighestId \in Nat /\ DOMAIN rows \subseteq Nat /\ \A id \in DOMAIN rows : id <= HighestId
    BY HighestIs DEF FilesInv
  <2> QED
    BY <1>4, <2>1
<1>6. IsFiniteSet(ids)
  <2> DEFINE f == [i \in chosen |-> idOf(i)]
  <2>1. ids = {f[i] : i \in chosen}
    OBVIOUS
  <2> HIDE DEF f, ids
  <2> QED
    BY <1>2, <2>1, ImageFinite
<1>7. \A i \in chosen : Shapes[i] \in Listed
  BY ShapesAre
<1> HIDE DEF idOf
<1>8. \A i \in chosen : place(idOf(i)) = i
  BY <1>4
<1> HIDE DEF place
<1>9. /\ DOMAIN rows' = DOMAIN rows \cup ids
      /\ \A id \in DOMAIN rows : rows'[id] = rows[id]
  BY <1>1
<1>10. ASSUME NEW i \in chosen
       PROVE  /\ rows'[idOf(i)] = [kind |-> Shapes[i].kind, name |-> Shapes[i].name,
                                   drawing |-> Shapes[i].drawing, spaced |-> spaced]
              /\ rows'[idOf(i)] \in DrawnRow
              /\ KeyOf(rows'[idOf(i)]) = KeyOf(Shapes[i])
  <2>1. rows'[idOf(i)] = [kind |-> Shapes[i].kind, name |-> Shapes[i].name,
                          drawing |-> Shapes[i].drawing, spaced |-> spaced]
    <3>1. idOf(i) \in ids /\ idOf(i) \notin DOMAIN rows
      BY <1>5
    <3> QED
      BY <1>1, <1>8, <3>1
  <2>2. Shapes[i] \in Listed
    BY <1>7
  <2> QED
    BY <2>1, <2>2 DEF Listed, DrawnRow, KeyOf
<1>11. \A id \in DOMAIN rows' : rows'[id] \in DrawnRow
  BY <1>9, <1>10 DEF FilesInv
<1>12. rows' \in [DOMAIN rows' -> DrawnRow]
  <2>1. rows' = [id \in DOMAIN rows' |-> rows'[id]]
    BY <1>1
  <2> QED
    BY <1>11, <2>1
<1>13. FilesInv'
  <2>1. DOMAIN rows' \subseteq Nat
    BY <1>4, <1>9 DEF FilesInv
  <2>2. IsFiniteSet(DOMAIN rows')
    BY <1>6, <1>9, FS_Union DEF FilesInv
  <2> QED
    BY <1>12, <2>1, <2>2 DEF FilesInv
<1>14. RowsAdded(chosen, [i \in chosen |-> idOf(i)])
  <2> DEFINE f == [i \in chosen |-> idOf(i)]
  <2>1. \A i \in chosen : f[i] = idOf(i)
    OBVIOUS
  <2>2. ids = {f[i] : i \in chosen}
    OBVIOUS
  <2> HIDE DEF f, ids
  <2>3. /\ \A i \in chosen : f[i] \in Nat \ DOMAIN rows
        /\ \A i, j \in chosen : f[i] = f[j] => i = j
        /\ \A i \in chosen : KeyOf(rows'[f[i]]) = KeyOf(Shapes[i])
    <3>1. /\ \A i \in chosen : idOf(i) \in Nat \ DOMAIN rows
          /\ \A i \in chosen : KeyOf(rows'[idOf(i)]) = KeyOf(Shapes[i])
      BY <1>4, <1>5, <1>10
    <3> QED
      BY <1>4, <2>1, <3>1
  <2>4. RowsAdded(chosen, f)
    BY <1>9, <1>12, <2>2, <2>3 DEF RowsAdded
  <2> QED
    BY <2>4 DEF f
<1> QED
  BY <1>13, <1>14

(* Of several shapes with one key the first is the one that is new.        *)
LEMMA FirstIsNew ==
  ASSUME EditorInv, file # NoFile, NEW i \in DOMAIN Shapes,
         KeyOf(Shapes[i]) \notin KeysOf(rows)
  PROVE  \E j \in DOMAIN Shapes : New(Shapes, j) /\ KeyOf(Shapes[j]) = KeyOf(Shapes[i])
<1> DEFINE same == {j \in DOMAIN Shapes : KeyOf(Shapes[j]) = KeyOf(Shapes[i])}
           j == Min(same)
<1>1. DOMAIN Shapes = 1..Len(Shapes) /\ Len(Shapes) \in Nat
  BY ShapesAre
<1>2. same \subseteq Nat /\ IsFiniteSet(same) /\ same # {}
  <2>1. IsFiniteSet(1..Len(Shapes)) /\ same \subseteq 1..Len(Shapes) /\ i \in same
    BY <1>1, FS_Interval
  <2> QED
    BY <1>1, <2>1, FS_Subset
<1>3. j \in same /\ \A k \in same : j <= k
  BY <1>2, MinOfFinite
<1> HIDE DEF j
<1>4. ASSUME NEW k \in 1..(j - 1) PROVE KeyOf(Shapes[k]) # KeyOf(Shapes[j])
  <2>1. j \in 1..Len(Shapes) /\ KeyOf(Shapes[j]) = KeyOf(Shapes[i])
    BY <1>1, <1>3
  <2>2. k \in 1..Len(Shapes) /\ ~(j <= k)
    BY <1>1, <2>1
  <2> QED
    BY <1>1, <1>3, <2>1, <2>2
<1>5. New(Shapes, j)
  BY <1>3, <1>4 DEF New, KeysOf
<1> QED
  BY <1>3, <1>5

LEMMA NewOnce ==
  ASSUME EditorInv, file # NoFile, NEW i \in DOMAIN Shapes, NEW j \in DOMAIN Shapes,
         New(Shapes, i), New(Shapes, j), KeyOf(Shapes[i]) = KeyOf(Shapes[j])
  PROVE  i = j
<1>1. i \in Int /\ j \in Int /\ i >= 1 /\ j >= 1
  BY ShapesAre
<1> QED
  BY <1>1 DEF New

LEMMA TargetIs ==
  ASSUME FilesInv, NEW name, NEW id \in Target(name)
  PROVE  /\ id \in DOMAIN rows
         /\ Named(name) # {} => rows[id].name = name
<1>1. CASE Named(name) # {}
  <2>1. IsFiniteSet(Named(name)) /\ Named(name) \subseteq Nat /\ Named(name) \subseteq DOMAIN rows
    BY FS_Subset DEF FilesInv, Named, ZoneRows
  <2>2. Max(Named(name)) \in Named(name)
    BY <1>1, <2>1, MaxOfFinite
  <2>3. id \in Named(name)
    BY <1>1, <2>2 DEF Target
  <2> QED
    BY <2>1, <2>3 DEF Named
<1>2. CASE Named(name) = {}
  BY <1>2 DEF Target, ZoneRows
<1> QED
  BY <1>1, <1>2

LEMMA FilesStep ==
  ASSUME EditorInv, FilesInv, FilesNext
  PROVE  FilesInv' /\ UNCHANGED editorVars
<1>1. CASE IngestDrawn
  <2>1. {i \in DOMAIN Shapes : New(Shapes, i)} \in SUBSET DOMAIN Shapes
    OBVIOUS
  <2> QED
    BY <1>1, <2>1, InsertedAdds DEF IngestDrawn
<1>2. CASE RegisterZones
  BY <1>2, InsertedAdds DEF RegisterZones
<1>3. CASE UpdateZones
  <2>1. PICK id \in Target(Head(file.zones).name) :
          rows' = [rows EXCEPT ![id].drawing = Head(file.zones).drawing]
    BY <1>3 DEF UpdateZones
  <2>2. id \in DOMAIN rows
    BY TargetIs
  <2>3. Head(file.zones).drawing \in Nat
    <3>1. file.zones \in Seq(Shape) /\ file.zones # << >>
      BY <1>3 DEF UpdateZones, EditorInv, Loadable, OneEach
    <3>2. Head(file.zones) \in Shape
      BY <3>1
    <3> QED
      BY <3>2 DEF Shape
  <2>4. rows' \in [DOMAIN rows -> DrawnRow] /\ DOMAIN rows' = DOMAIN rows
    BY <2>1, <2>2, <2>3 DEF FilesInv, DrawnRow
  <2> QED
    BY <1>3, <2>4 DEF FilesInv, UpdateZones
<1>4. CASE PruneUnassigned
  <2>1. rows' = [id \in DOMAIN rows \ Unassigned |-> rows[id]] /\ UNCHANGED editorVars
    BY <1>4 DEF PruneUnassigned, Restrict
  <2>2. DOMAIN rows' \subseteq DOMAIN rows /\ rows' \in [DOMAIN rows' -> DrawnRow]
    BY <2>1 DEF FilesInv
  <2> QED
    BY <2>1, <2>2, FS_Subset DEF FilesInv
<1> QED
  BY <1>1, <1>2, <1>3, <1>4 DEF FilesNext

DrawingInv == EditorInv /\ FilesInv

LEMMA DrawingKept == DrawingInv /\ [DrawingNext]_drawingVars => DrawingInv'
<1> SUFFICES ASSUME DrawingInv, [DrawingNext]_drawingVars PROVE DrawingInv'
  OBVIOUS
<1>1. CASE EditorNext /\ UNCHANGED rows
  BY <1>1, EditorStep DEF DrawingInv, FilesInv
<1>2. CASE FilesNext
  BY <1>2, FilesStep, EditorStep DEF DrawingInv
<1>3. CASE UNCHANGED drawingVars
  BY <1>3, EditorStep DEF DrawingInv, FilesInv, drawingVars
<1> QED
  BY <1>1, <1>2, <1>3 DEF DrawingNext

(* "Re-running is safe" (ingest_drawn.py:17-18), for any drawing, any names *)
(* and any number of imports, updates and removals: an ingest reads zones   *)
(* of three points or more, gives each key that the table lacks one row,    *)
(* also when shapes of the file share a name, and touches no other row; an  *)
(* update moves only the row it names.                                      *)
THEOREM ImportedOnce == DrawingSpec => ImportsOnce
<1>1. DrawingInit => DrawingInv
  <2>1. ASSUME FilesInit PROVE FilesInv
    BY <2>1, FS_EmptySet DEF FilesInit, FilesInv
  <2> QED
    BY <2>1, InitEditor DEF DrawingInit, DrawingInv
<1>2. ASSUME DrawingInv, IngestDrawn
      PROVE  /\ Complete
             /\ \A id \in DOMAIN rows : rows'[id] = rows[id]
             /\ KeysOf(rows') = KeysOf(rows) \cup {KeyOf(Shapes[i]) : i \in DOMAIN Shapes}
             /\ \A a, b \in DOMAIN rows' \ DOMAIN rows :
                  KeyOf(rows'[a]) = KeyOf(rows'[b]) => a = b
  <2> DEFINE new == {i \in DOMAIN Shapes : New(Shapes, i)}
  <2>1. EditorInv /\ FilesInv /\ file # NoFile /\ Inserted(new) /\ new \in SUBSET DOMAIN Shapes
    BY <1>2 DEF DrawingInv, IngestDrawn
  <2>2. PICK idOf : RowsAdded(new, idOf)
    BY <2>1, InsertedAdds
  <2>3. Complete
    <3>1. /\ file.zones \in Seq(Shape)
          /\ \A i \in 1..Len(file.zones) : file.zones[i].points >= 3
      BY <2>1 DEF EditorInv, Loadable, OneEach
    <3>2. DOMAIN file.zones = 1..Len(file.zones)
      BY <3>1
    <3> QED
      BY <2>1, <3>1, <3>2, ShapesAre DEF Complete
  <2>4. \A id \in DOMAIN rows : rows'[id] = rows[id]
    BY <2>2 DEF RowsAdded
  <2>5. \A id \in DOMAIN rows' \ DOMAIN rows :
          \E i \in new : id = idOf[i] /\ KeyOf(rows'[id]) = KeyOf(Shapes[i])
    BY <2>2 DEF RowsAdded
  <2>6. \A a, b \in DOMAIN rows' \ DOMAIN rows : KeyOf(rows'[a]) = KeyOf(rows'[b]) => a = b
    BY <2>1, <2>5, NewOnce
  <2>7. KeysOf(rows') \subseteq KeysOf(rows) \cup {KeyOf(Shapes[i]) : i \in DOMAIN Shapes}
    BY <2>4, <2>5 DEF KeysOf
  <2>8. KeysOf(rows) \subseteq KeysOf(rows')
    BY <2>2 DEF RowsAdded, KeysOf
  <2>9. \A i \in new : KeyOf(Shapes[i]) \in KeysOf(rows')
    BY <2>2 DEF RowsAdded, KeysOf
  <2>10. \A i \in DOMAIN Shapes : KeyOf(Shapes[i]) \in KeysOf(rows')
    BY <2>1, <2>8, <2>9, FirstIsNew
  <2> QED
    BY <2>3, <2>4, <2>6, <2>7, <2>8, <2>10
<1>3. ASSUME DrawingInv, UpdateZones, NEW id \in DOMAIN rows, rows'[id] # rows[id]
      PROVE  /\ KeyOf(rows'[id]) = KeyOf(rows[id])
             /\ Named(Head(file.zones).name) # {} => rows[id].name = Head(file.zones).name
  <2> DEFINE name == Head(file.zones).name
             drawing == Head(file.zones).drawing
  <2>1. PICK to \in Target(name) : rows' = [rows EXCEPT ![to].drawing = drawing]
    BY <1>3 DEF UpdateZones
  <2>2. FilesInv /\ to \in DOMAIN rows /\ (Named(name) # {} => rows[to].name = name)
    BY <1>3, <2>1, TargetIs DEF DrawingInv
  <2> HIDE DEF name, drawing
  <2>3. id = to
    BY <1>3, <2>1, <2>2
  <2>4. rows[id] \in DrawnRow /\ rows'[id] = [rows[id] EXCEPT !.drawing = drawing]
    BY <2>1, <2>2, <2>3 DEF FilesInv
  <2>5. KeyOf(rows'[id]) = KeyOf(rows[id])
    BY <2>4 DEF DrawnRow, KeyOf
  <2> QED
    BY <2>2, <2>3, <2>5 DEF name
<1> DEFINE Once == /\ IngestDrawn =>
                        /\ Complete
                        /\ \A id \in DOMAIN rows : rows'[id] = rows[id]
                        /\ KeysOf(rows') = KeysOf(rows) \cup {KeyOf(Shapes[i]) : i \in DOMAIN Shapes}
                        /\ \A a, b \in DOMAIN rows' \ DOMAIN rows :
                             KeyOf(rows'[a]) = KeyOf(rows'[b]) => a = b
                   /\ UpdateZones =>
                        \A id \in DOMAIN rows : rows'[id] # rows[id] =>
                          /\ KeyOf(rows'[id]) = KeyOf(rows[id])
                          /\ Named(Head(file.zones).name) # {} =>
                               rows[id].name = Head(file.zones).name
<1>4. DrawingInv => Once
  BY <1>2, <1>3
<1>5. DrawingSpec => [][Once]_drawingVars
  <2> HIDE DEF Once
  <2> QED
    BY <1>1, <1>4, DrawingKept, PTL DEF DrawingSpec
<1> QED
  BY <1>5, PTL DEF ImportsOnce
=============================================================================
