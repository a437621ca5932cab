---------------------------- MODULE HistoryRollup ----------------------------
(***************************************************************************)
(* The history worker: one thread that every minute rolls the complete     *)
(* hours up from the table of minutes, and at most once an hour deletes    *)
(* what is past its retention.  The writer of the minutes is the abstract  *)
(* series (MinuteSeries), which the sampler implements.                    *)
(*                                                                         *)
(* Time is the minute of the clock; an hour has HourLen minutes.  MinKeep  *)
(* and HourKeep are the retention windows and Lookback the cold start, in  *)
(* minutes.  Bounds: MaxMinute ends the time, MaxFolds the rows folded     *)
(* into the table, MaxFaults the failed transactions and the restarts;     *)
(* Quiet is the longest time without a new minute, and Lag the longest     *)
(* pause of the worker, whose loop turns every 60 s.                       *)
(***************************************************************************)
EXTENDS RollupRow

CONSTANTS Spaces,
          NewRows,                     \* the rows a writer may bring
          HourLen, MinKeep, HourKeep, Lookback,
          MaxMinute, MaxFolds, MaxFaults, Quiet, Lag,
          None

ASSUME RollupConstants ==
    /\ IsFiniteSet(Spaces) /\ NewRows \subseteq Row
    /\ HourLen \in Nat \ {0} /\ MinKeep \in Nat /\ HourKeep \in Nat /\ Lookback \in Nat
    /\ MaxMinute \in Nat /\ MaxFolds \in Nat /\ MaxFaults \in Nat
    /\ Quiet \in Nat /\ Lag \in Nat
    /\ None \notin Int

Minutes == 0 .. MaxMinute
Hours   == 0 .. MaxMinute \div HourLen

VARIABLES
    now,                 \* the clock
    minutes, newest,     \* the table of minutes, and the newest one ever written
    hours,               \* the table of hours: <<space, hour>> -> row
    pc, at,              \* the worker's step, and `now' of this turn of its loop
    rolled,              \* the hour rows run_once() is about to write
    lastPrune,           \* _last_prune
    truth,               \* ghost: every hour as the writer wrote it
    folds, faults        \* ghosts: the bounds' counters

worker == <<pc, at, rolled, lastPrune>>
vars   == <<now, minutes, newest, hours, worker, truth, folds, faults>>

Series == INSTANCE MinuteSeries

Init ==
    /\ now = 0
    /\ Series!SeriesInit
    /\ hours = EmptyTable
    /\ pc = "wait" /\ at = 0
    /\ rolled = EmptyTable /\ lastPrune = None
    /\ truth = EmptyTable /\ folds = 0 /\ faults = 0

HourOf(t) == t \div HourLen

Tick ==
    /\ now < MaxMinute
    /\ now - newest <= Quiet /\ now - at < Lag
    /\ now' = now + 1
    /\ UNCHANGED <<minutes, newest, hours, worker, truth, folds, faults>>

(* The sampler flushes a minute: this one, or an older one it is late with. *)
Flush ==
    /\ folds < MaxFolds /\ folds' = folds + 1
    /\ \E t \in 0 .. now, S \in (SUBSET Spaces) \ {{}}, r \in NewRows :
         /\ Series!Write(t, [k \in S \X {t} |-> r])
         /\ truth' = Fold(truth, [k \in S \X {HourOf(t)} |-> r])
    /\ UNCHANGED <<now, hours, worker, faults>>

(***************************************************************************)
(* The worker's loop: run_once(now), then prune_if_due(now), then a wait.  *)
(* A job that raises does not keep the other one from running.             *)
(***************************************************************************)

Watermark == Max({k[2] : k \in DOMAIN hours})

Start_AfterWatermark == IF hours = EmptyTable
                       THEN HourOf(now) * HourLen - Lookback
                       ELSE (Watermark + 1) * HourLen

(* The first minute to read: from the watermark hour on, which is rolled again;
   with an empty table, as far back as the cold start reaches. *)
Start == IF hours = EmptyTable
         THEN HourOf(now) * HourLen - Lookback
         ELSE Watermark * HourLen

Due_HourLate == {k \in DOMAIN minutes : k[2] >= Start /\ HourOf(k[2]) < HourOf(now) - 1}

(* The minutes of complete hours to roll up. *)
Due == {k \in DOMAIN minutes : k[2] >= Start /\ HourOf(k[2]) < HourOf(now)}

AggregateToHours(keys) ==
    [h \in {<<k[1], HourOf(k[2])>> : k \in keys} |->
        Aggregate([k \in {j \in keys : <<j[1], HourOf(j[2])>> = h} |-> minutes[k]])]

RunOnce ==
    /\ pc = "wait"
    /\ at' = now
    /\ rolled' = AggregateToHours(Due)
    /\ pc' = IF Due = {} THEN "prune" ELSE "commit"
    /\ UNCHANGED <<now, minutes, newest, hours, lastPrune, truth, folds, faults>>

Commit ==
    /\ pc = "commit"
    /\ hours' = Overwrite(hours, rolled)
    /\ rolled' = EmptyTable
    /\ pc' = "prune"
    /\ UNCHANGED <<now, minutes, newest, at, lastPrune, truth, folds, faults>>

Fault == faults < MaxFaults /\ faults' = faults + 1

RollupFails ==
    /\ pc = "commit" /\ Fault
    /\ rolled' = EmptyTable
    /\ pc' = "prune"
    /\ UNCHANGED <<now, minutes, newest, hours, at, lastPrune, truth, folds>>

PruneDue == IF lastPrune = None THEN TRUE ELSE at - lastPrune >= HourLen

Kept_ShortWindow(table, length, window) ==
    Only(table, {k \in DOMAIN table : window = 0 \/ k[2] * length >= at - window \div HourLen})

(* What delete_before() leaves of a table whose buckets are `length' minutes
   long: the buckets that start within the window; a window of 0 keeps all. *)
Kept(table, length, window) ==
    Only(table, {k \in DOMAIN table : window = 0 \/ k[2] * length >= at - window})

Prune ==
    /\ pc = "prune"
    /\ IF PruneDue
       THEN /\ minutes' = Kept(minutes, 1, MinKeep)
            /\ hours' = Kept(hours, HourLen, HourKeep)
            /\ lastPrune' = at
       ELSE UNCHANGED <<minutes, hours, lastPrune>>
    /\ pc' = "wait"
    /\ UNCHANGED <<now, newest, at, rolled, truth, folds, faults>>

PruneFails ==
    /\ pc = "prune" /\ PruneDue /\ Fault
    /\ pc' = "wait"
    /\ UNCHANGED <<now, minutes, newest, hours, at, rolled, lastPrune, truth, folds>>

(* The process is stopped or crashes, and starts again: a transaction in flight
   is rolled back, the first turn of the loop comes at once. *)
Restart ==
    /\ Fault
    /\ pc' = "wait" /\ rolled' = EmptyTable /\ lastPrune' = None
    /\ UNCHANGED <<now, minutes, newest, hours, at, truth, folds>>

Worker == RunOnce \/ Commit \/ RollupFails \/ Prune \/ PruneFails

Next == Tick \/ Flush \/ Worker \/ Restart

Spec == Init /\ [][Next]_vars

------------------------------------------------------------------------------
TypeOK ==
    /\ now \in Minutes /\ at \in 0 .. now
    /\ newest \in -1 .. now
    /\ DOMAIN minutes \subseteq Spaces \X (0 .. newest)
    /\ \A table \in {hours, rolled, truth} : DOMAIN table \subseteq Spaces \X Hours
    /\ \A table \in {minutes, hours, rolled, truth} : table \in [DOMAIN table -> Row]
    /\ pc \in {"wait", "commit", "prune"}
    /\ lastPrune \in Minutes \cup {None}
    /\ folds \in 0 .. MaxFolds /\ faults \in 0 .. MaxFaults

(***************************************************************************)
(* The windows outlast what the worker may be late with: a turn of its     *)
(* loop leaves at most Slack minutes behind the watermark, and each failed *)
(* turn adds one pause.  A shorter window deletes minutes that were never  *)
(* rolled up.  The windows count days, the lookback a week, a pause 60 s.   *)
(***************************************************************************)
Slack == 2 * HourLen + Quiet - 1

RetentionOutlasts ==
    /\ Lookback >= HourLen + Quiet - 1 + Lag * (MaxFaults + 1)
    /\ \A window \in {MinKeep, HourKeep} : window = 0 \/ window >= Slack + Lag * MaxFaults

(* An hour behind the watermark is final: it is never read again, so by then its
   row must hold every sample of its minutes, the minute that was flushed after
   the hour ended included.  And no hour between two others is missing. *)
Oldest == Min({k[2] : k \in DOMAIN hours})

FinalHoursExact ==
    \A k \in DOMAIN truth :
        hours # EmptyTable /\ Oldest <= k[2] /\ k[2] < Watermark
        => k \in DOMAIN hours /\ hours[k] = truth[k]

(* Retention deletes a minute only when its hour is rolled up for good. *)
PrunedOnlyWhenFinal ==
    [][\A k \in DOMAIN minutes \ DOMAIN minutes' :
          hours # EmptyTable /\ HourOf(k[2]) < Watermark]_vars

(* A turn of the worker's loop leaves no complete hour behind, whatever failed
   before it: each one that is not yet exact in the table is among the rows to be
   written, exact. *)
CatchesUp ==
    [][RunOnce => \A k \in DOMAIN truth :
          \/ k[2] >= HourOf(now)
          \/ HourKeep > 0 /\ k[2] * HourLen < now - HourKeep
          \/ k \in DOMAIN hours   /\ hours[k] = truth[k]
          \/ k \in DOMAIN rolled' /\ rolled'[k] = truth[k]]_vars

(* history_worker.py:119-120: "Re-roll the watermark hour itself: it may have been
   written from a partially-complete set of minutes, and re-running only improves
   it": no hour row ever loses samples. *)
OnlyImproves ==
    [][\A k \in DOMAIN hours \cap DOMAIN hours' : hours'[k].n >= hours[k].n]_vars
==============================================================================
