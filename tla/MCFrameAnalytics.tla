-------------------------- MODULE MCFrameAnalytics ---------------------------
(* A door seen from above, in along x: one place before it, one behind it  *)
(* and one behind it that is reached round its end.                        *)
EXTENDS FrameAnalytics, TLC

(* The door's direction is its normal, as its theorem requires. *)
ASSUME InwardIsNormal

CONSTANTS z, door, hall, t1, t2

Before == <<-1, 1>>
Behind == <<1, 1>>
Aside  == <<1, 4>>

MCPoints  == {Before, Behind, Aside}
MCZonesAt == (Before :> {z}) @@ (Behind :> {}) @@ (Aside :> {})
MCLineAt  == door :> [a |-> <<0, 0>>, b |-> <<0, 2>>, inward |-> <<1, 0>>]
MCAreaOf  == door :> hall
MCTracks  == {t1, t2}
MCSymmetry == Permutations(MCTracks)
==============================================================================
