---------------------------- MODULE LossyStream ----------------------------
(***************************************************************************)
(* What a frame hand-off promises its consumers, whatever its buffering:   *)
(* frames carry the numbers 1, 2, 3, ... in the order they were captured;  *)
(* any frame may be lost, but the newest one is always kept, only the Depth *)
(* newest ones ever wait, and what is received only ever gets newer.       *)
(***************************************************************************)
EXTENDS Naturals

CONSTANT Depth    \* how many frames behind the newest one may wait

VARIABLES
  sent,       \* how many frames were captured; the newest has this number
  waiting,    \* the frames a consumer can still receive
  received    \* the last frame a consumer received, 0 before the first

streamVars == <<sent, waiting, received>>

Init == sent = 0 /\ waiting = {} /\ received = 0

(* A frame arrives. It is kept; older ones may be given up for it.         *)
Send ==
  /\ sent' = sent + 1
  /\ \E kept \in SUBSET waiting : waiting' = kept \union {sent + 1}
  /\ \A p \in waiting' : sent + 1 < p + Depth
  /\ UNCHANGED received

(* A waiting frame is received, and with it every older one is given up.   *)
Receive(p) ==
  /\ p \in waiting
  /\ p > received
  /\ received' = p
  /\ waiting' \subseteq {q \in waiting : q > p}
  /\ UNCHANGED sent

(* The frames that wait are thrown away.                                   *)
Discard ==
  /\ waiting' = {}
  /\ UNCHANGED <<sent, received>>

Next == Send \/ (\E p \in waiting : Receive(p)) \/ Discard

Spec == Init /\ [][Next]_streamVars
=============================================================================
