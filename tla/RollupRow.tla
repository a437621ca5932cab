------------------------------ MODULE RollupRow ------------------------------
(***************************************************************************)
(* The rows of the occupancy tables (occupancy_minute, occupancy_hour) and *)
(* the two ways the code combines them.                                    *)
(*                                                                         *)
(* A table is a function from keys <<space, bucket>> to rows.  A row keeps *)
(* the sum of its samples where the code keeps their mean: avg * samples.  *)
(* The floor, which only labels a row, is left out.                        *)
(***************************************************************************)
EXTENDS Integers, FiniteSetsExt

Row == [sum : Nat, n : Nat \ {0}, peak : Nat, low : Nat, healthy : Nat, total : Nat]

Least(a, b)    == IF a <= b THEN a ELSE b
Greatest(a, b) == IF a >= b THEN a ELSE b

(* One sample of a space: a people count, seen by `healthy' of its cameras. *)
Sample(count, healthy, total) ==
    [sum |-> count, n |-> 1, peak |-> count, low |-> count,
     healthy |-> healthy, total |-> total]

Merge_BestCoverage(r, s) ==
    [sum |-> r.sum + s.sum, n |-> r.n + s.n,
     peak |-> Greatest(r.peak, s.peak), low |-> Least(r.low, s.low),
     healthy |-> Greatest(r.healthy, s.healthy), total |-> Greatest(r.total, s.total)]

(* Two partial rows of one bucket folded into one: what the accumulator does
   with a sample and upsert(merge=True) with a row. *)
Merge(r, s) ==
    [sum |-> r.sum + s.sum, n |-> r.n + s.n,
     peak |-> Greatest(r.peak, s.peak), low |-> Least(r.low, s.low),
     healthy |-> Least(r.healthy, s.healthy), total |-> Greatest(r.total, s.total)]

(* The row of an hour, from the rows of its minutes: a nonempty table of rows. *)
Aggregate(rows) ==
    LET Of(field) == {rows[k][field] : k \in DOMAIN rows}
        Sum(field) == MapThenSumSet(LAMBDA k : rows[k][field], DOMAIN rows)
    IN [sum |-> Sum("sum"), n |-> Sum("n"),
        peak |-> Max(Of("peak")), low |-> Min(Of("low")),
        healthy |-> Min(Of("healthy")), total |-> Max(Of("total"))]

EmptyTable == [k \in {} |-> 0]

(* Every row of `rows' put in the table, over the row of the same key. *)
Overwrite(table, rows) ==
    [k \in DOMAIN table \cup DOMAIN rows |->
        IF k \in DOMAIN rows THEN rows[k] ELSE table[k]]

(* Every row of `rows' put in the table, folded into the row of the same key. *)
Fold(table, rows) ==
    [k \in DOMAIN table \cup DOMAIN rows |->
        IF k \notin DOMAIN rows THEN table[k]
        ELSE IF k \notin DOMAIN table THEN rows[k]
        ELSE Merge(table[k], rows[k])]

Only(table, keys) == [k \in DOMAIN table \cap keys |-> table[k]]
==============================================================================
