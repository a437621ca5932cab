----------------------------- MODULE RoundTimer -----------------------------
(***************************************************************************)
(* RoundTimer (app/engine/round_timer.py): the worker of each snapshot     *)
(* camera reports every frame it has processed, and reports are grouped    *)
(* into rounds of one report per camera. record() holds one lock           *)
(* throughout. A camera whose fetches fail processes no frame and reports  *)
(* nothing.                                                                *)
(***************************************************************************)
CONSTANT ExpectedCameras     \* the snapshot cameras

VARIABLES
  current,      \* the cameras that have reported in the open round
  odd,          \* whether _round, the number of rounds closed, is odd
  failing       \* the cameras whose fetches fail from now on

roundVars == <<current, odd, failing>>

RoundInit == current = {} /\ odd = FALSE /\ failing = {}

\* Mutant: a second report takes the place of the first in the same round.
ClosesPartial_Never(c) == FALSE

(* A camera that reports again closes the open round without the others.   *)
ClosesPartial(c) == c \in current

Record(c) ==
  LET with == IF ClosesPartial(c) THEN {c} ELSE current \union {c}
      complete == ExpectedCameras \subseteq with
  IN  /\ c \notin failing
      /\ odd' = (odd # (ClosesPartial(c) # complete))
      /\ current' = IF complete THEN {} ELSE with
      /\ UNCHANGED failing

FetchesFail(c) ==
  /\ c \notin failing /\ failing \union {c} # ExpectedCameras
  /\ failing' = failing \union {c}
  /\ UNCHANGED <<current, odd>>

RoundNext == \E c \in ExpectedCameras : Record(c) \/ FetchesFail(c)

(* A capture thread that can fetch goes on fetching, and its worker goes   *)
(* on reporting.                                                           *)
RoundFairness == \A c \in ExpectedCameras : WF_roundVars(Record(c))

RoundSpec == RoundInit /\ [][RoundNext]_roundVars /\ RoundFairness

-----------------------------------------------------------------------------
(* Rounds go on closing whichever cameras fail, as long as one reports     *)
(* ("Rounds are therefore never held open by a camera whose fetch is       *)
(* failing", round_timer.py:53).                                           *)
RoundsClose == []<>odd /\ []<>~odd
=============================================================================
