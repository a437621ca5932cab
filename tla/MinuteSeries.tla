---------------------------- MODULE MinuteSeries -----------------------------
(***************************************************************************)
(* What whoever reads the occupancy_minute table may rely on: rows arrive  *)
(* in the order of time.  A row is only ever folded into the newest minute *)
(* or starts a newer one, and the older minutes do not change any more.    *)
(***************************************************************************)
EXTENDS RollupRow

CONSTANTS Spaces, Minutes

VARIABLES minutes,      \* the table: <<space, minute>> -> row
          newest        \* the newest minute that was ever written

Keys == Spaces \X Minutes

SeriesInit ==
    /\ minutes = EmptyTable
    /\ newest = -1

(* One transaction of the writer: rows of one minute, no older than any before. *)
Write(t, rows) ==
    /\ t >= newest
    /\ DOMAIN rows \subseteq Spaces \X {t}
    /\ minutes' = Fold(minutes, rows)
    /\ newest' = t

(* A row that holds what another one holds, and maybe more. *)
Extends(r, s) ==
    /\ r.sum >= s.sum /\ r.n >= s.n
    /\ r.peak >= s.peak /\ r.low <= s.low
    /\ r.healthy <= s.healthy /\ r.total >= s.total

(* What a reader sees of it: nothing but the rows of minute t changed, and
   those only grew. *)
Grows(t) ==
    /\ t >= newest
    /\ newest' = t
    /\ DOMAIN minutes \subseteq DOMAIN minutes'
    /\ \A k \in DOMAIN minutes' :
         IF k[2] = t
         THEN k \in DOMAIN minutes => Extends(minutes'[k], minutes[k])
         ELSE k \in DOMAIN minutes /\ minutes'[k] = minutes[k]

SeriesNext == \E t \in Minutes : Grows(t)

SeriesSpec == SeriesInit /\ [][SeriesNext]_<<minutes, newest>>
==============================================================================
