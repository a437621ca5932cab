---------------------------- MODULE ZonePresence -----------------------------
(***************************************************************************)
(* The debouncing of zone membership: the counters of one track in one     *)
(* zone, and how a frame moves them.  A track without counters is NoTrack. *)
(* Streaks of presence are counted up to EnterFrames, the one value they   *)
(* are compared with.                                                      *)
(***************************************************************************)
EXTENDS Integers

CONSTANTS ConfirmEnterFrames, ConfirmLeaveFrames,  \* as configured
          NoTrack

ASSUME PresenceConstants ==
    /\ ConfirmEnterFrames \in Int /\ ConfirmLeaveFrames \in Int

AtLeastOne(n) == IF n < 1 THEN 1 ELSE n
EnterFrames   == AtLeastOne(ConfirmEnterFrames)
LeaveFrames   == AtLeastOne(ConfirmLeaveFrames)

TrackCounters == [present : 0 .. EnterFrames, absent : 0 .. LeaveFrames - 1,
                  confirmed : BOOLEAN]

ASSUME NoTrackIsNone == NoTrack \notin TrackCounters

Unseen == [present |-> 0, absent |-> 0, confirmed |-> FALSE]

(* The track is in the zone on this frame. *)
StepPresent(c) ==
    LET old    == IF c = NoTrack THEN Unseen ELSE c
        streak == IF old.present < EnterFrames THEN old.present + 1
                                               ELSE EnterFrames
    IN [present |-> streak, absent |-> 0,
        confirmed |-> old.confirmed \/ streak >= EnterFrames]

(* It is not: counters that have waited long enough are dropped, confirmed *)
(* or not.                                                                 *)
StepAbsent_KeepsStreak(c) ==
    IF c = NoTrack \/ c.absent + 1 >= LeaveFrames
    THEN NoTrack
    ELSE [c EXCEPT !.absent = @ + 1]
StepAbsent(c) ==
    IF c = NoTrack \/ c.absent + 1 >= LeaveFrames
    THEN NoTrack
    ELSE [c EXCEPT !.present = 0, !.absent = @ + 1]

IsConfirmed(c) == IF c = NoTrack THEN FALSE ELSE c.confirmed
==============================================================================
