---------------------------- MODULE MCFrameQueue ----------------------------
(***************************************************************************)
(* A queue of two slots, four packets and three consumers: one that calls  *)
(* get() with no deadline, one that calls get() with a deadline and one    *)
(* that drains with get_latest(). Two slots are what tells "oldest" from   *)
(* "newest" and lets get_latest() skip; four packets overflow them twice.  *)
(***************************************************************************)
EXTENDS FrameQueue

CONSTANTS Patient, Hurried, Latest

MCConsumers == {Patient, Hurried, Latest}
MCDrainers == {Latest}
MCTimed == {Hurried}
=============================================================================
