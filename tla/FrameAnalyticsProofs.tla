------------------------ MODULE FrameAnalyticsProofs -------------------------
(***************************************************************************)
(* The debouncing, the memory of the line detector and the read model, for *)
(* any numbers of frames, any gap, any zones, lines, areas and tracks.     *)
(***************************************************************************)
EXTENDS FrameAnalytics, FiniteSetTheorems, TLAPS

-----------------------------------------------------------------------------
(* The windows of frames.                                                  *)

(* The configured numbers are at least one, and the window holds both.     *)
LEMMA WindowFits ==
    /\ EnterFrames \in Nat /\ EnterFrames >= 1
    /\ LeaveFrames \in Nat /\ LeaveFrames >= 1
    /\ Window \in Nat /\ EnterFrames <= Window /\ LeaveFrames <= Window
  BY PresenceConstants DEF EnterFrames, LeaveFrames, AtLeastOne, Window

(* A pair is in the last k frames when it is in the new one and in the     *)
(* k - 1 before it; likewise out of them.                                  *)
LEMMA WindowShifts ==
  ASSUME NEW w \in Nat, NEW f, DOMAIN f = 1 .. w, NEW x, NEW q,
         NEW k \in 1 .. w
  PROVE  /\ Held(k, Pushed(x, f), q) <=> q \in x /\ Held(k - 1, f, q)
         /\ Absent(k, Pushed(x, f), q) <=> q \notin x /\ Absent(k - 1, f, q)
  <1> DEFINE g == Pushed(x, f)
  <1>1. /\ g[1] = x
        /\ \A i \in 2 .. k : g[i] = f[i - 1]
        /\ \A i \in 1 .. k - 1 : g[i + 1] = f[i]
    BY DEF Pushed
  <1>2. Held(k, g, q) <=> q \in x /\ Held(k - 1, f, q)
    <2>1. ASSUME Held(k, g, q) PROVE q \in x /\ Held(k - 1, f, q)
      BY <1>1, <2>1 DEF Held
    <2>2. ASSUME q \in x, Held(k - 1, f, q) PROVE Held(k, g, q)
      BY <1>1, <2>2 DEF Held
    <2> QED BY <2>1, <2>2
  <1>3. Absent(k, g, q) <=> q \notin x /\ Absent(k - 1, f, q)
    <2>1. ASSUME Absent(k, g, q) PROVE q \notin x /\ Absent(k - 1, f, q)
      BY <1>1, <2>1 DEF Absent
    <2>2. ASSUME q \notin x, Absent(k - 1, f, q) PROVE Absent(k, g, q)
      BY <1>1, <2>2 DEF Absent
    <2> QED BY <2>1, <2>2
  <1> QED BY <1>2, <1>3

-----------------------------------------------------------------------------
(* The debouncing of one pair q: c are its counters, p is whether it is    *)
(* present, f are the last frames.                                         *)
Streaks(c, p, f, q) ==
    IF c = NoTrack THEN p = FALSE /\ q \notin f[1]
    ELSE /\ c \in TrackCounters
         /\ c.confirmed = p
         /\ \A k \in 1 .. EnterFrames : c.present >= k <=> Held(k, f, q)
         /\ \A k \in 1 .. LeaveFrames : c.absent >= k <=> Absent(k, f, q)

(* What the frames make of a pair. *)
Judged(p, f, q) ==
    IF Held(EnterFrames, f, q) THEN TRUE
    ELSE IF Absent(LeaveFrames, f, q) THEN FALSE
    ELSE p

LEMMA StreaksStepPresent ==
  ASSUME NEW f \in [1 .. Window -> SUBSET Pairs], NEW x, NEW q \in x,
         NEW p \in BOOLEAN, NEW c, Streaks(c, p, f, q)
  PROVE  Streaks(StepPresent(c), Judged(p, Pushed(x, f), q), Pushed(x, f), q)
  <1> DEFINE g == Pushed(x, f)
             d == StepPresent(c)
             old == IF c = NoTrack THEN Unseen ELSE c
  <1> HIDE DEF g
  <1>1. \A k \in 1 .. Window : /\ Held(k, g, q) <=> Held(k - 1, f, q)
                               /\ ~Absent(k, g, q)
    BY WindowFits, WindowShifts DEF g
  <1>2. old \in [present : 0 .. EnterFrames, absent : 0 .. LeaveFrames - 1,
                 confirmed : BOOLEAN]
    BY WindowFits DEF Streaks, Unseen, TrackCounters
  <1>3. old.confirmed = p
    BY DEF Streaks, Unseen
  <1>4. \A k \in 1 .. EnterFrames : old.present >= k <=> Held(k, f, q)
    <2>1. CASE c = NoTrack
      <3>1. \A k \in 1 .. EnterFrames : ~Held(k, f, q)
        BY <2>1, WindowFits DEF Streaks, Held
      <3> QED BY <2>1, <3>1, WindowFits DEF Unseen
    <2>2. CASE c # NoTrack
      BY <2>2 DEF Streaks
    <2> QED BY <2>1, <2>2
  <1>5. /\ d \in TrackCounters /\ d # NoTrack
        /\ d.present = IF old.present < EnterFrames THEN old.present + 1
                                                    ELSE EnterFrames
        /\ d.absent = 0
        /\ d.confirmed = (old.confirmed \/ d.present >= EnterFrames)
    <2> DEFINE streak == IF old.present < EnterFrames THEN old.present + 1
                                                      ELSE EnterFrames
    <2>1. d = [present |-> streak, absent |-> 0,
               confirmed |-> old.confirmed \/ streak >= EnterFrames]
      BY DEF StepPresent
    <2>2. streak \in 0 .. EnterFrames /\ 0 \in 0 .. LeaveFrames - 1
      BY <1>2, WindowFits
    <2>3. (old.confirmed \/ streak >= EnterFrames) \in BOOLEAN
      BY <1>2
    <2> HIDE DEF streak, d, old
    <2>4. d \in TrackCounters
      BY <2>1, <2>2, <2>3 DEF TrackCounters
    <2>5. d.present = streak /\ d.absent = 0
          /\ d.confirmed = (old.confirmed \/ streak >= EnterFrames)
      BY <2>1
    <2> QED BY <2>4, <2>5, NoTrackIsNone DEF streak
  <1>6. Held(0, f, q)
    BY DEF Held
  <1>7. \A k \in 1 .. EnterFrames : d.present >= k <=> Held(k, g, q)
    <2> TAKE k \in 1 .. EnterFrames
    <2>1. CASE k = 1
      BY <2>1, <1>1, <1>2, <1>5, <1>6, WindowFits
    <2>2. CASE k > 1
      <3>1. old.present >= k - 1 <=> Held(k - 1, f, q)
        BY <2>2, <1>4, WindowFits
      <3>2. d.present >= k <=> old.present >= k - 1
        BY <2>2, <1>2, <1>5, WindowFits
      <3> QED BY <3>1, <3>2, <1>1, WindowFits
    <2> QED BY <2>1, <2>2
  <1>8. \A k \in 1 .. LeaveFrames : d.absent >= k <=> Absent(k, g, q)
    BY <1>1, <1>5, WindowFits
  <1>9. d.confirmed = Judged(p, g, q)
    <2>1. (d.present >= EnterFrames) <=> Held(EnterFrames, g, q)
      BY <1>7, WindowFits
    <2>2. ~Absent(LeaveFrames, g, q)
      BY <1>1, WindowFits
    <2> QED BY <2>1, <2>2, <1>3, <1>5 DEF Judged
  <1> QED BY <1>5, <1>7, <1>8, <1>9 DEF Streaks, g

LEMMA StreaksStepAbsent ==
  ASSUME NEW f \in [1 .. Window -> SUBSET Pairs], NEW x, NEW q, q \notin x,
         NEW p \in BOOLEAN, NEW c, Streaks(c, p, f, q)
  PROVE  Streaks(StepAbsent(c), Judged(p, Pushed(x, f), q), Pushed(x, f), q)
  <1> DEFINE g == Pushed(x, f)
             d == StepAbsent(c)
  <1>0. q \notin g[1]
    BY WindowFits DEF Pushed
  <1> HIDE DEF g
  <1>1. \A k \in 1 .. Window : /\ ~Held(k, g, q)
                               /\ Absent(k, g, q) <=> Absent(k - 1, f, q)
    BY WindowFits, WindowShifts DEF g
  <1>2. ~Held(EnterFrames, g, q)
    BY <1>1, WindowFits
  <1>3. CASE c = NoTrack
    <2>1. p = FALSE
      BY <1>3 DEF Streaks
    <2>2. d = NoTrack
      BY <1>3 DEF StepAbsent
    <2>3. Judged(p, g, q) = FALSE
      BY <2>1, <1>2 DEF Judged
    <2> QED BY <2>2, <2>3, <1>0 DEF Streaks, g
  <1>4. CASE c # NoTrack
    <2>1. /\ c \in [present : 0 .. EnterFrames, absent : 0 .. LeaveFrames - 1,
                    confirmed : BOOLEAN]
          /\ c.confirmed = p
          /\ \A k \in 1 .. LeaveFrames : c.absent >= k <=> Absent(k, f, q)
      BY <1>4 DEF Streaks, TrackCounters
    <2>2. Absent(0, f, q)
      BY DEF Absent
    <2>3. \A k \in 1 .. LeaveFrames : c.absent + 1 >= k <=> Absent(k, g, q)
      <3> TAKE k \in 1 .. LeaveFrames
      <3>1. CASE k = 1
        BY <3>1, <2>1, <2>2, <1>1, WindowFits
      <3>2. CASE k > 1
        <4>1. c.absent >= k - 1 <=> Absent(k - 1, f, q)
          BY <3>2, <2>1, WindowFits
        <4> QED BY <3>2, <4>1, <2>1, <1>1, WindowFits
      <3> QED BY <3>1, <3>2
    <2>4. (c.absent + 1 >= LeaveFrames) <=> Absent(LeaveFrames, g, q)
      BY <2>3, WindowFits
    <2>5. CASE c.absent + 1 >= LeaveFrames
      <3>1. d = NoTrack
        BY <2>5 DEF StepAbsent
      <3>2. Judged(p, g, q) = FALSE
        BY <2>4, <2>5, <1>2 DEF Judged
      <3> QED BY <3>1, <3>2, <1>0 DEF Streaks, g
    <2>6. CASE ~(c.absent + 1 >= LeaveFrames)
      <3>0. d = [c EXCEPT !.present = 0, !.absent = @ + 1]
        BY <2>6, <1>4 DEF StepAbsent
      <3>1. d \in TrackCounters /\ d # NoTrack
        <4>1. 0 \in 0 .. EnterFrames /\ c.absent + 1 \in 0 .. LeaveFrames - 1
          BY <2>6, <2>1, WindowFits
        <4> HIDE DEF d
        <4> QED BY <3>0, <4>1, <2>1, NoTrackIsNone DEF TrackCounters
      <3>2. d.present = 0 /\ d.absent = c.absent + 1 /\ d.confirmed = p
        BY <3>0, <2>1
      <3>3. Judged(p, g, q) = p
        BY <2>4, <2>6, <1>2 DEF Judged
      <3>4. \A k \in 1 .. EnterFrames : d.present >= k <=> Held(k, g, q)
        BY <3>2, <1>1, WindowFits
      <3> QED BY <3>1, <3>2, <3>3, <3>4, <2>3 DEF Streaks, g
    <2> QED BY <2>5, <2>6
  <1> QED BY <1>3, <1>4

-----------------------------------------------------------------------------
(* The memory of one track: last is its point, m its misses, f its last    *)
(* places.                                                                 *)
Kept(last, m, f) ==
    IF last = Nowhere THEN m = 0 /\ \A i \in 1 .. MaxGap + 1 : f[i] = Nowhere
    ELSE /\ m \in 0 .. MaxGap
         /\ f[m + 1] = last
         /\ \A i \in 1 .. m : f[i] = Nowhere

LEMMA KeptStep ==
  ASSUME NEW f \in [1 .. MaxGap + 1 -> Points \cup {Nowhere}],
         NEW last, NEW m, NEW p, Kept(last, m, f)
  PROVE  Kept(NextPoint(p, last, m), NextMisses(p, last, m), Pushed(p, f))
  <1> USE GapIsNatural
  <1> DEFINE g == Pushed(p, f)
  <1>1. g[1] = p /\ \A i \in 2 .. MaxGap + 1 : g[i] = f[i - 1]
    BY DEF Pushed
  <1> HIDE DEF g
  <1>2. CASE p # Nowhere
    BY <1>1, <1>2 DEF Kept, NextPoint, NextMisses, g
  <1>3. CASE p = Nowhere /\ last = Nowhere
    <2>1. NextPoint(p, last, m) = Nowhere /\ NextMisses(p, last, m) = 0
      BY <1>3 DEF NextPoint, NextMisses
    <2>2. \A i \in 1 .. MaxGap + 1 : f[i] = Nowhere
      BY <1>3 DEF Kept
    <2>3. \A i \in 1 .. MaxGap + 1 : g[i] = Nowhere
      <3> TAKE i \in 1 .. MaxGap + 1
      <3>1. CASE i = 1
        BY <3>1, <1>1, <1>3
      <3>2. CASE i # 1
        BY <3>2, <1>1, <2>2
      <3> QED BY <3>1, <3>2
    <2> QED BY <2>1, <2>3 DEF Kept, g
  <1>4. CASE p = Nowhere /\ last # Nowhere
    <2>1. /\ m \in 0 .. MaxGap /\ f[m + 1] = last
          /\ \A i \in 1 .. m : f[i] = Nowhere
      BY <1>4 DEF Kept
    <2>2. CASE m + 1 > MaxGap
      <3>1. NextPoint(p, last, m) = Nowhere /\ NextMisses(p, last, m) = 0
        BY <1>4, <2>2 DEF NextPoint, NextMisses, Forgotten
      <3>2. \A i \in 1 .. MaxGap + 1 : g[i] = Nowhere
        <4> TAKE i \in 1 .. MaxGap + 1
        <4>1. CASE i = 1
          BY <4>1, <1>1, <1>4
        <4>2. CASE i # 1
          <5>1. i - 1 \in 1 .. m
            BY <4>2, <2>1, <2>2
          <5> QED BY <4>2, <5>1, <1>1, <2>1
        <4> QED BY <4>1, <4>2
      <3> QED BY <3>1, <3>2 DEF Kept, g
    <2>3. CASE ~(m + 1 > MaxGap)
      <3>1. NextPoint(p, last, m) = last /\ NextMisses(p, last, m) = m + 1
        BY <1>4, <2>3 DEF NextPoint, NextMisses, Forgotten
      <3>2. m + 1 \in 0 .. MaxGap /\ g[(m + 1) + 1] = last
        BY <1>1, <2>1, <2>3
      <3>3. \A i \in 1 .. m + 1 : g[i] = Nowhere
        <4> TAKE i \in 1 .. m + 1
        <4>1. CASE i = 1
          BY <4>1, <1>1, <1>4
        <4>2. CASE i # 1
          BY <4>2, <1>1, <2>1, <2>3
        <4> QED BY <4>1, <4>2
      <3> QED BY <1>4, <3>1, <3>2, <3>3 DEF Kept, g
    <2> QED BY <2>2, <2>3
  <1> QED BY <1>2, <1>3, <1>4

(* The point kept is the newest place within reach. *)
LEMMA KeptIsPrevious ==
  ASSUME NEW f \in [1 .. MaxGap + 1 -> Points \cup {Nowhere}],
         NEW last, NEW m, Kept(last, m, f)
  PROVE  last = Previous(f)
  <1> USE GapIsNatural
  <1>1. CASE last = Nowhere
    BY <1>1 DEF Kept, Previous, Sightings
  <1>2. CASE last # Nowhere
    <2>1. /\ m \in 0 .. MaxGap /\ f[m + 1] = last
          /\ \A i \in 1 .. m : f[i] = Nowhere
      BY <1>2 DEF Kept
    <2>2. m + 1 \in Sightings(f)
      BY <1>2, <2>1 DEF Sightings
    <2>3. \A j \in Sightings(f) : j \in 1 .. MaxGap + 1 /\ m + 1 <= j
      BY <2>1 DEF Sightings
    <2> DEFINE i == CHOOSE i \in Sightings(f) : \A j \in Sightings(f) : i <= j
    <2>4. i \in Sightings(f) /\ \A j \in Sightings(f) : i <= j
      BY <2>2, <2>3
    <2>5. i = m + 1
      <3> HIDE DEF i
      <3> QED BY <2>1, <2>2, <2>3, <2>4
    <2>6. Previous(f) = f[i]
      BY <2>2 DEF Previous
    <2> QED BY <2>1, <2>5, <2>6
  <1> QED BY <1>1, <1>2

-----------------------------------------------------------------------------
(* The crossings of a frame.                                               *)

LEMMA CrossingsFinite ==
  ASSUME NEW before, NEW seen, NEW a, NEW dir
  PROVE  InArea(CrossingsFrom(before, seen), a, dir) \in Nat
  <1> DEFINE moved == {t \in Tracks : before[t] # Nowhere /\ seen[t] # Nowhere}
             triple == [x \in Lines \X moved |->
                            <<x[1], x[2], Movement[x[1]][before[x[2]]][seen[x[2]]]>>]
             all == {triple[x] : x \in Lines \X moved}
             cs == CrossingsFrom(before, seen)
             mine == {c \in cs : AreaOf[c[1]] = a /\ c[3] = dir}
  <1>1. IsFiniteSet(moved) /\ IsFiniteSet(Lines)
    BY AnalyticsConstants, FS_Subset
  <1>2. IsFiniteSet(Lines \X moved)
    BY <1>1, FS_Product
  <1>3. IsFiniteSet(all)
    <2> DEFINE pairs == Lines \X moved
    <2>1. triple \in [pairs -> all] /\ \A y \in all : \E x \in pairs : triple[x] = y
      OBVIOUS
    <2>2. triple \in Surjection(pairs, all)
      <3> HIDE DEF triple, pairs, all
      <3> QED BY <2>1 DEF Surjection
    <2> HIDE DEF triple, pairs, all
    <2> QED BY <1>2, <2>2, FS_Surjection DEF pairs
  <1>4. cs \subseteq all
    <2> SUFFICES ASSUME NEW c \in cs PROVE c \in all
      OBVIOUS
    <2>1. PICK l \in Lines : \E t \in moved :
              c = <<l, t, Movement[l][before[t]][seen[t]]>>
      BY DEF CrossingsFrom
    <2>2. PICK t \in moved : c = <<l, t, Movement[l][before[t]][seen[t]]>>
      BY <2>1
    <2>3. <<l, t>> \in Lines \X moved /\ triple[<<l, t>>] = c
      BY <2>2
    <2> HIDE DEF triple, moved
    <2> QED BY <2>3
  <1>5. mine \subseteq all
    <2> HIDE DEF all, cs
    <2> QED BY <1>4
  <1>6. IsFiniteSet(mine)
    <2> HIDE DEF all, mine
    <2> QED BY <1>3, <1>5, FS_Subset
  <1>7. Cardinality(mine) \in Nat
    <2> HIDE DEF mine
    <2> QED BY <1>6, FS_CardinalityType
  <1> QED BY <1>7 DEF InArea

LEMMA AddedTally ==
  ASSUME NEW before, NEW seen, NEW tally \in [Areas -> Tally]
  PROVE  Added(tally, CrossingsFrom(before, seen)) \in [Areas -> Tally]
  <1> DEFINE cs == CrossingsFrom(before, seen)
  <1>1. \A a \in Areas : InArea(cs, a, "in") \in Nat /\ InArea(cs, a, "out") \in Nat
    BY CrossingsFinite
  <1> HIDE DEF cs
  <1>2. \A a \in Areas : tally[a].in \in Nat /\ tally[a].out \in Nat
    BY DEF Tally
  <1>3. \A a \in Areas : [in  |-> tally[a].in + InArea(cs, a, "in"),
                          out |-> tally[a].out + InArea(cs, a, "out")] \in Tally
    BY <1>1, <1>2 DEF Tally
  <1>4. Added(tally, cs) \in [Areas -> Tally]
    BY <1>3 DEF Added
  <1> QED BY <1>4 DEF cs

(* An area no crossing affects keeps its tally. *)
LEMMA UnaffectedKeeps ==
  ASSUME NEW cs, NEW tally \in [Areas -> Tally], NEW a \in Areas,
         a \notin Affected(cs)
  PROVE  Added(tally, cs)[a] = tally[a]
  <1>1. \A dir : {c \in cs : AreaOf[c[1]] = a /\ c[3] = dir} = {}
    BY DEF Affected
  <1>2. InArea(cs, a, "in") = 0 /\ InArea(cs, a, "out") = 0
    BY <1>1, FS_EmptySet DEF InArea
  <1>3. tally[a] \in [in : Nat, out : Nat]
    BY DEF Tally
  <1>4. Added(tally, cs)[a] = [in |-> tally[a].in + 0, out |-> tally[a].out + 0]
    BY <1>2 DEF Added
  <1> QED BY <1>3, <1>4

-----------------------------------------------------------------------------
(* The inductive invariant: the types, what the counters and points mean   *)
(* in terms of the last frames, and what was sent and written.             *)

Streaking == \A q \in Pairs : Streaks(counters[q], present[q], ago, q)

Keeping == \A t \in Tracks : Kept(lastPoint[t], misses[t], trail[t])

Sent ==
    /\ lastCount = shown
    /\ areaCounts = crossed
    /\ \A zn \in Zones \ missed :
           lastCount[zn] # None => occupancy[zn] = lastCount[zn]
    /\ \A a \in Areas \ missed :
           areaCounts[a] # Nobody => counts[a] = areaCounts[a]

AnalyticsInv == TypeOK /\ Streaking /\ Keeping /\ Sent

LEMMA InitInv == Init => AnalyticsInv
  <1> SUFFICES ASSUME Init PROVE AnalyticsInv
    OBVIOUS
  <1> USE WindowFits, GapIsNatural, AnalyticsConstants DEF Init
  <1>0. Nobody \in Tally
    BY DEF Nobody, Tally
  <1>1. TypeOK
    <2>1. counters \in [Pairs -> TrackCounters \cup {NoTrack}]
      BY DEF NoCounters
    <2>2. /\ lastPoint \in [Tracks -> Points \cup {Nowhere}]
          /\ misses \in [Tracks -> 0 .. MaxGap]
      BY DEF NoPoints, NoMisses
    <2>3. /\ lastCount \in [Zones -> Nat \cup {None}]
          /\ occupancy \in [Zones -> Nat \cup {None}]
          /\ counts \in [Areas -> Tally \cup {None}]
      BY DEF NothingSent
    <2>4. areaCounts \in [Areas -> Tally]
      BY <1>0 DEF NoCrossings
    <2>5. ago \in [1 .. Window -> SUBSET Pairs] /\ present \in [Pairs -> BOOLEAN]
      BY DEF NoFrames, NoPresence
    <2>6. trail \in [Tracks -> [1 .. MaxGap + 1 -> Points \cup {Nowhere}]]
      BY DEF NoTrail
    <2> QED BY <2>1, <2>2, <2>3, <2>4, <2>5, <2>6 DEF TypeOK
  <1>2. Streaking
    BY DEF Streaking, Streaks, NoCounters, NoPresence, NoFrames
  <1>3. Keeping
    BY DEF Keeping, Kept, NoPoints, NoMisses, NoTrail
  <1>4. Sent
    BY DEF Sent, NothingSent, NoCrossings
  <1> QED BY <1>1, <1>2, <1>3, <1>4 DEF AnalyticsInv

(* A new pipeline knows nothing and has sent nothing. *)
LEMMA RestartInv == AnalyticsInv /\ Restart => AnalyticsInv'
  <1> SUFFICES ASSUME AnalyticsInv, Restart PROVE AnalyticsInv'
    OBVIOUS
  <1> USE WindowFits, GapIsNatural, AnalyticsConstants DEF Restart
  <1>0. Nobody \in Tally
    BY DEF Nobody, Tally
  <1>1. TypeOK'
    <2>1. counters' \in [Pairs -> TrackCounters \cup {NoTrack}]
      BY DEF NoCounters
    <2>2. /\ lastPoint' \in [Tracks -> Points \cup {Nowhere}]
          /\ misses' \in [Tracks -> 0 .. MaxGap]
      BY DEF NoPoints, NoMisses
    <2>3. lastCount' \in [Zones -> Nat \cup {None}]
      BY DEF NothingSent
    <2>4. areaCounts' \in [Areas -> Tally]
      BY <1>0 DEF NoCrossings
    <2>5. ago' \in [1 .. Window -> SUBSET Pairs] /\ present' \in [Pairs -> BOOLEAN]
      BY DEF NoFrames, NoPresence
    <2>6. trail' \in [Tracks -> [1 .. MaxGap + 1 -> Points \cup {Nowhere}]]
      BY DEF NoTrail
    <2> QED BY <2>1, <2>2, <2>3, <2>4, <2>5, <2>6 DEF TypeOK, AnalyticsInv, model
  <1>2. Streaking'
    BY DEF Streaking, Streaks, NoCounters, NoPresence, NoFrames
  <1>3. Keeping'
    BY DEF Keeping, Kept, NoPoints, NoMisses, NoTrail
  <1>4. Sent'
    BY DEF Sent, NothingSent, NoCrossings
  <1> QED BY <1>1, <1>2, <1>3, <1>4 DEF AnalyticsInv

(* What a frame shows is sent and, where the write succeeds, in the read   *)
(* model: the zones ...                                                    *)
LEMMA CountsSent ==
  ASSUME TypeOK, Sent, NEW count \in [Zones -> Nat], NEW cs,
         NEW failing \in SUBSET (Changed(count) \cup Affected(cs)),
         Affected(cs) \subseteq Areas,
         ProcessCounts(count, failing), Missing(count, cs, failing)
  PROVE  /\ lastCount' = count
         /\ occupancy' \in [Zones -> Nat \cup {None}]
         /\ \A zn \in Zones \ missed' : occupancy'[zn] = count[zn]
         /\ missed' \subseteq Zones \cup Areas
  <1> USE DEF TypeOK, ProcessCounts, Changed
  <1>1. lastCount' = count
    OBVIOUS
  <1>2. occupancy' \in [Zones -> Nat \cup {None}]
    OBVIOUS
  <1>3. missed' \subseteq Zones \cup Areas
    BY DEF Missing
  <1>4. ASSUME NEW zn \in Zones, zn \notin missed'
        PROVE  occupancy'[zn] = count[zn]
    <2>0. None \notin Nat
      BY AnalyticsConstants DEF None
    <2>1. zn \notin failing
      BY <1>4 DEF Missing
    <2>2. CASE zn \in Changed(count)
      BY <2>1, <2>2
    <2>3. CASE zn \notin Changed(count)
      <3>1. zn \notin Affected(cs)
        BY AnalyticsConstants
      <3>2. zn \notin missed
        BY <1>4, <2>3, <3>1 DEF Missing
      <3>3. lastCount[zn] = count[zn] /\ lastCount[zn] # None
        BY <2>0, <2>3
      <3> QED BY <2>3, <3>2, <3>3 DEF Sent
    <2> QED BY <2>2, <2>3
  <1> QED BY <1>1, <1>2, <1>3, <1>4

(* ... and the areas.                                                      *)
LEMMA CrossingsSent ==
  ASSUME TypeOK, Sent, NEW count \in [Zones -> Nat], NEW seen,
         NEW cs, cs = CrossingsFrom(lastPoint, seen),
         NEW failing \in SUBSET (Changed(count) \cup Affected(cs)),
         ProcessCrossings(cs, failing), Missing(count, cs, failing)
  PROVE  /\ areaCounts' = Added(areaCounts, cs)
         /\ areaCounts' \in [Areas -> Tally]
         /\ counts' \in [Areas -> Tally \cup {None}]
         /\ \A a \in Areas \ missed' :
                areaCounts'[a] # Nobody => counts'[a] = areaCounts'[a]
  <1>1. areaCounts' = Added(areaCounts, cs) /\ areaCounts \in [Areas -> Tally]
    BY DEF ProcessCrossings, TypeOK
  <1>2. areaCounts' \in [Areas -> Tally]
    BY <1>1, AddedTally
  <1>3. counts' \in [Areas -> Tally \cup {None}]
    BY <1>2 DEF ProcessCrossings, TypeOK
  <1>4. ASSUME NEW a \in Areas, a \notin missed', areaCounts'[a] # Nobody
        PROVE  counts'[a] = areaCounts'[a]
    <2>1. a \notin failing
      BY <1>4 DEF Missing
    <2>2. CASE a \in Affected(cs)
      BY <2>1, <2>2 DEF ProcessCrossings
    <2>3. CASE a \notin Affected(cs)
      <3>1. a \notin Changed(count)
        BY AnalyticsConstants DEF Changed
      <3>2. a \notin missed
        BY <1>4, <2>3, <3>1 DEF Missing
      <3>3. areaCounts'[a] = areaCounts[a]
        BY <1>1, <2>3, UnaffectedKeeps
      <3>4. counts'[a] = counts[a]
        BY <2>3 DEF ProcessCrossings, TypeOK
      <3> QED BY <1>4, <3>2, <3>3, <3>4 DEF Sent
    <2> QED BY <2>2, <2>3
  <1> QED BY <1>1, <1>2, <1>3, <1>4

LEMMA DetectedInv ==
  ASSUME AnalyticsInv, NEW count \in [Zones -> 0 .. MaxPeople],
         DetectedFrame(count)
  PROVE  AnalyticsInv'
  <1> USE DEF DetectedFrame, inputs
  <1>1. count \in [Zones -> Nat]
    BY AnalyticsConstants
  <1>2. Affected({}) = {}
    BY DEF Affected
  <1>3. PICK failing \in SUBSET Changed(count) :
            ProcessCounts(count, failing) /\ Missing(count, {}, failing)
    OBVIOUS
  <1>4. /\ lastCount' = count
        /\ occupancy' \in [Zones -> Nat \cup {None}]
        /\ \A zn \in Zones \ missed' : occupancy'[zn] = count[zn]
        /\ missed' \subseteq Zones \cup Areas
    BY <1>1, <1>2, <1>3, CountsSent DEF AnalyticsInv
  <1>5. TypeOK'
    BY <1>1, <1>4 DEF AnalyticsInv, TypeOK
  <1>6. Streaking' /\ Keeping'
    BY DEF AnalyticsInv, Streaking, Keeping
  <1>7. Sent'
    <2>1. lastCount' = shown' /\ areaCounts' = crossed'
      BY <1>4 DEF AnalyticsInv, Sent
    <2>2. ASSUME NEW a \in Areas, a \notin missed', areaCounts'[a] # Nobody
          PROVE  counts'[a] = areaCounts'[a]
      <3>1. a \notin missed
        BY <1>2, <2>2, <1>3, AnalyticsConstants DEF Missing, Changed
      <3> QED BY <2>2, <3>1 DEF AnalyticsInv, Sent
    <2> QED BY <1>4, <2>1, <2>2 DEF Sent
  <1> QED BY <1>5, <1>6, <1>7 DEF AnalyticsInv

LEMMA TrackedInv ==
  ASSUME AnalyticsInv, NEW seen \in [Tracks -> Points \cup {Nowhere}],
         TrackedFrame(seen)
  PROVE  AnalyticsInv'
  <1> DEFINE here == Membership(seen)
             cs == CrossingsFrom(lastPoint, seen)
             count == [zn \in Zones |-> Cardinality(Confirmed(zn)')]
  <1>1. /\ AdvanceZones(here) /\ DetectLines(seen)
        /\ WatchZones(here) /\ WatchLines(seen)
        /\ shown' = [zn \in Zones |->
                        Cardinality({t \in Tracks : present'[<<zn, t>>]})]
        /\ fromDetections' = fromDetections
    BY DEF TrackedFrame
  <1>2. PICK failing \in SUBSET (Changed(count) \cup Affected(cs)) :
            /\ ProcessCounts(count, failing)
            /\ ProcessCrossings(cs, failing)
            /\ Missing(count, cs, failing)
    BY DEF TrackedFrame
  <1>3. here \subseteq Pairs
    BY DEF Membership
  <1>4. Streaking' /\ present' \in [Pairs -> BOOLEAN]
        /\ ago' \in [1 .. Window -> SUBSET Pairs]
    <2>1. ago' = Pushed(here, ago) /\ ago \in [1 .. Window -> SUBSET Pairs]
      BY <1>1 DEF WatchZones, AnalyticsInv, TypeOK
    <2>2. ago' \in [1 .. Window -> SUBSET Pairs]
      BY <2>1, <1>3, WindowFits DEF Pushed
    <2>3. present' = [q \in Pairs |-> Judged(present[q], ago', q)]
      BY <1>1 DEF WatchZones, Judged
    <2>4. present' \in [Pairs -> BOOLEAN]
      BY <2>3 DEF Judged, AnalyticsInv, TypeOK
    <2>5. ASSUME NEW q \in Pairs
          PROVE  Streaks(counters'[q], present'[q], ago', q)
      <3> HIDE DEF here
      <3>1. present[q] \in BOOLEAN /\ Streaks(counters[q], present[q], ago, q)
        BY DEF AnalyticsInv, TypeOK, Streaking
      <3>2. CASE q \in here
        <4>1. counters'[q] = StepPresent(counters[q])
          BY <1>1, <3>2 DEF AdvanceZones
        <4> QED BY <2>1, <2>3, <3>1, <3>2, <4>1, StreaksStepPresent
      <3>3. CASE q \notin here
        <4>1. counters'[q] = StepAbsent(counters[q])
          BY <1>1, <3>3 DEF AdvanceZones
        <4> QED BY <2>1, <2>3, <3>1, <3>3, <4>1, StreaksStepAbsent
      <3> QED BY <3>2, <3>3
    <2> QED BY <2>2, <2>4, <2>5 DEF Streaking
  <1>5. counters' \in [Pairs -> TrackCounters \cup {NoTrack}]
    <2>1. \A q \in Pairs : counters'[q] \in TrackCounters \cup {NoTrack}
      BY <1>4 DEF Streaking, Streaks
    <2> QED BY <1>1, <2>1 DEF AdvanceZones
  <1>6. /\ trail' = [t \in Tracks |-> Pushed(seen[t], trail[t])]
        /\ trail \in [Tracks -> [1 .. MaxGap + 1 -> Points \cup {Nowhere}]]
        /\ Keeping
    BY <1>1 DEF WatchLines, AnalyticsInv, TypeOK
  <1>7. Keeping'
    BY <1>1, <1>6, KeptStep DEF Keeping, DetectLines
  <1>8. trail' \in [Tracks -> [1 .. MaxGap + 1 -> Points \cup {Nowhere}]]
    BY <1>6, GapIsNatural DEF Pushed
  <1>9. /\ lastPoint' \in [Tracks -> Points \cup {Nowhere}]
        /\ misses' \in [Tracks -> 0 .. MaxGap]
    <2>1. lastPoint' \in [Tracks -> Points \cup {Nowhere}]
      BY <1>1 DEF DetectLines, NextPoint, AnalyticsInv, TypeOK
    <2>2. \A t \in Tracks : misses'[t] \in 0 .. MaxGap
      BY <1>7, GapIsNatural DEF Keeping, Kept
    <2> QED BY <1>1, <2>1, <2>2 DEF DetectLines
  <1>10. count = shown'
    <2>1. ASSUME NEW zn \in Zones
          PROVE  Confirmed(zn)' = {t \in Tracks : present'[<<zn, t>>]}
      <3>1. \A t \in Tracks : IsConfirmed(counters'[<<zn, t>>]) = present'[<<zn, t>>]
        BY <1>4 DEF Streaking, Streaks, IsConfirmed, Pairs
      <3> QED BY <3>1 DEF Confirmed
    <2> QED BY <1>1, <2>1
  <1>11. count \in [Zones -> Nat]
    <2>1. ASSUME NEW zn \in Zones PROVE Cardinality(Confirmed(zn)') \in Nat
      <3>1. IsFiniteSet(Confirmed(zn)')
        BY AnalyticsConstants, FS_Subset DEF Confirmed
      <3> QED BY <3>1, FS_CardinalityType
    <2> QED BY <2>1
  <1>12. Affected(cs) \subseteq Areas
    BY AnalyticsConstants DEF Affected, CrossingsFrom
  <1>13. /\ lastCount' = count
         /\ occupancy' \in [Zones -> Nat \cup {None}]
         /\ \A zn \in Zones \ missed' : occupancy'[zn] = count[zn]
         /\ missed' \subseteq Zones \cup Areas
    <2> HIDE DEF count, cs
    <2> QED BY <1>2, <1>11, <1>12, CountsSent DEF AnalyticsInv
  <1>14. /\ areaCounts' = Added(areaCounts, cs)
         /\ areaCounts' \in [Areas -> Tally]
         /\ counts' \in [Areas -> Tally \cup {None}]
         /\ \A a \in Areas \ missed' :
                areaCounts'[a] # Nobody => counts'[a] = areaCounts'[a]
    <2> HIDE DEF count
    <2> QED BY <1>2, <1>11, CrossingsSent DEF AnalyticsInv
  <1>15. crossed' = areaCounts'
    <2>1. lastPoint = [t \in Tracks |-> Previous(trail[t])]
      BY <1>6, KeptIsPrevious DEF Keeping, AnalyticsInv, TypeOK
    <2>2. Passages(seen) = cs
      BY <2>1 DEF Passages
    <2>3. crossed' = Added(crossed, cs)
      BY <1>1, <2>2 DEF WatchLines
    <2> QED BY <1>14, <2>3 DEF AnalyticsInv, Sent
  <1> HIDE DEF here, cs, count
  <1>16. TypeOK'
    BY <1>1, <1>4, <1>5, <1>8, <1>9, <1>11, <1>13, <1>14
       DEF AnalyticsInv, TypeOK
  <1>17. Sent'
    BY <1>10, <1>13, <1>14, <1>15 DEF Sent
  <1> QED BY <1>4, <1>7, <1>16, <1>17 DEF AnalyticsInv

-----------------------------------------------------------------------------
LEMMA StutterInv == AnalyticsInv /\ UNCHANGED vars => AnalyticsInv'
  BY DEF AnalyticsInv, TypeOK, Streaking, Keeping, Sent, vars, model, ghosts, inputs

THEOREM Inductive == Spec => []AnalyticsInv
  <1>1. AnalyticsInv /\ [Next]_vars => AnalyticsInv'
    BY DetectedInv, TrackedInv, RestartInv, StutterInv DEF Next
  <1> QED BY InitInv, <1>1, PTL DEF Spec

(* The state of the analytics keeps its types, whatever is seen and        *)
(* whichever writes fail, for any tracks, zones, lines and thresholds.     *)
THEOREM AnalyticsTypes == Spec => []TypeOK
  <1>1. AnalyticsInv => TypeOK
    BY DEF AnalyticsInv
  <1> QED BY Inductive, <1>1, PTL

(* A track is confirmed in a zone exactly when its frames say so, for any  *)
(* numbers of frames to confirm and any flicker between them.              *)
THEOREM DebounceCorrect == Spec => []Debounced
  <1>1. AnalyticsInv => Debounced
    BY DEF AnalyticsInv, TypeOK, Streaking, Streaks, IsConfirmed, Debounced
  <1> QED BY Inductive, <1>1, PTL

(* A track is remembered at its newest place in the last MaxGap + 1 frames *)
(* and forgotten after, for any gap.                                       *)
THEOREM GapsBridged == Spec => []Remembered
  <1>1. AnalyticsInv => Remembered
    BY KeptIsPrevious DEF AnalyticsInv, TypeOK, Keeping, Remembered
  <1> QED BY Inductive, <1>1, PTL

(* The read model shows the newest frame and all the crossings of this     *)
(* pipeline wherever the last write succeeded, for any writes that fail.   *)
THEOREM ReadModelTrue == Spec => []ReadModel
  <1>1. AnalyticsInv => ReadModel
    BY DEF AnalyticsInv, Sent, ReadModel
  <1> QED BY Inductive, <1>1, PTL

-----------------------------------------------------------------------------
(* The geometry of one line: x and y are places seen from one of its ends, *)
(* d is its other end, v its direction in.                                 *)

Dot(x1, x2, y1, y2)   == x1 * y1 + x2 * y2
Cross(x1, x2, y1, y2) == x1 * y2 - x2 * y1

LEMMA ProductSign ==
  ASSUME NEW m \in Int, NEW n \in Int
  PROVE  /\ m > 0 /\ n > 0 => m * n > 0
         /\ m > 0 /\ n < 0 => m * n < 0
         /\ m < 0 /\ n > 0 => m * n < 0
         /\ m < 0 /\ n < 0 => m * n > 0
         /\ m = 0 \/ n = 0 => m * n = 0
  OBVIOUS

(* Places on either side of an end, in line with it, are not both inside.  *)
LEMMA NotBothInside ==
  ASSUME NEW x1 \in Int, NEW x2 \in Int, NEW y1 \in Int, NEW y2 \in Int,
         NEW v1 \in Int, NEW v2 \in Int, Cross(x1, x2, y1, y2) = 0,
         Between(0, x1, y1), Between(0, x2, y2)
  PROVE  /\ ~(Dot(x1, x2, v1, v2) > 0 /\ Dot(y1, y2, v1, v2) > 0)
         /\ ~(Dot(x1, x2, v1, v2) < 0 /\ Dot(y1, y2, v1, v2) < 0)
  <1>0. PICK depthX, depthY : depthX = x1 * v1 + x2 * v2 /\ depthY = y1 * v1 + y2 * v2
    OBVIOUS
  <1>6. x1 * y2 = x2 * y1
    BY DEF Cross
  <1>1. depthX \in Int /\ depthY \in Int
    BY <1>0
  <1>2. x1 * depthY = y1 * depthX
    <2>1. x1 * depthY = x1 * y1 * v1 + (x1 * y2) * v2
      BY <1>0
    <2>2. y1 * depthX = x1 * y1 * v1 + (x2 * y1) * v2
      BY <1>0
    <2> QED BY <1>6, <2>1, <2>2
  <1>3. x2 * depthY = y2 * depthX
    <2>1. x2 * depthY = (x2 * y1) * v1 + x2 * y2 * v2
      BY <1>0
    <2>2. y2 * depthX = (x1 * y2) * v1 + x2 * y2 * v2
      BY <1>0
    <2> QED BY <1>6, <2>1, <2>2
  <1>4. ASSUME (depthX > 0 /\ depthY > 0) \/ (depthX < 0 /\ depthY < 0)
        PROVE  x1 = 0 /\ x2 = 0
    <2>1. x1 = 0
      BY <1>1, <1>2, <1>4, ProductSign DEF Between
    <2>2. x2 = 0
      BY <1>1, <1>3, <1>4, ProductSign DEF Between
    <2> QED BY <2>1, <2>2
  <1>5. x1 = 0 /\ x2 = 0 => depthX = 0
    BY <1>0
  <1> QED BY <1>0, <1>1, <1>4, <1>5 DEF Dot

(* How far in a place is and which side of the line it is on agree, up to  *)
(* the way the line runs.                                                  *)
LEMMA SideIsDepth ==
  ASSUME NEW d1 \in Int, NEW d2 \in Int, NEW v1 \in Int, NEW v2 \in Int,
         d1 * v1 + d2 * v2 = 0, NEW x1 \in Int, NEW x2 \in Int
  PROVE  (d1 * d1 + d2 * d2) * (x1 * v1 + x2 * v2)
           = (d1 * v2 - d2 * v1) * (d1 * x2 - d2 * x1)
  <1>1. (d1 * x1) * (d1 * v1 + d2 * v2) = 0 /\ (d2 * x2) * (d1 * v1 + d2 * v2) = 0
    OBVIOUS
  <1>2. (d1 * d1 + d2 * d2) * (x1 * v1 + x2 * v2) - (d1 * v2 - d2 * v1) * (d1 * x2 - d2 * x1)
          = (d1 * x1) * (d1 * v1 + d2 * v2) + (d2 * x2) * (d1 * v1 + d2 * v2)
    OBVIOUS
  <1> QED BY <1>1, <1>2

LEMMA SquarePositive ==
  ASSUME NEW m \in Int, NEW n \in Int, m # 0 \/ n # 0
  PROVE  m * m + n * n > 0
  <1>1. m * m >= 0 /\ n * n >= 0 /\ (m # 0 => m * m > 0) /\ (n # 0 => n * n > 0)
    BY ProductSign
  <1>2. m * m \in Int /\ n * n \in Int
    OBVIOUS
  <1> QED BY <1>1, <1>2

(* So two places are apart by depth when they are apart by side.           *)
SameSides(c, d1, d2, v1, v2) ==
    \A x1, x2 \in Int : /\ Dot(x1, x2, v1, v2) > 0 <=> c * Cross(d1, d2, x1, x2) > 0
                        /\ Dot(x1, x2, v1, v2) < 0 <=> c * Cross(d1, d2, x1, x2) < 0

LEMMA SidesAgree ==
  ASSUME NEW d1 \in Int, NEW d2 \in Int, NEW v1 \in Int, NEW v2 \in Int,
         Dot(d1, d2, v1, v2) = 0, d1 # 0 \/ d2 # 0, v1 # 0 \/ v2 # 0
  PROVE  \E c \in {-1, 1} : SameSides(c, d1, d2, v1, v2)
  <1> DEFINE size == d1 * d1 + d2 * d2
             turn == d1 * v2 - d2 * v1
             depth(x1, x2) == Dot(x1, x2, v1, v2)
             side(x1, x2) == Cross(d1, d2, x1, x2)
  <1>1. size \in Int /\ size > 0 /\ turn \in Int
    BY SquarePositive
  <1>2. \A x1, x2 \in Int : /\ depth(x1, x2) \in Int /\ side(x1, x2) \in Int
                            /\ size * depth(x1, x2) = turn * side(x1, x2)
    <2> TAKE x1, x2 \in Int
    <2>1. d1 * v1 + d2 * v2 = 0
      BY DEF Dot
    <2> QED BY <2>1, SideIsDepth DEF Dot, Cross
  <1>3. depth(v1, v2) > 0
    BY SquarePositive DEF Dot
  <1> HIDE DEF size, turn, depth, side
  <1>4. turn # 0
    <2>1. size * depth(v1, v2) > 0
      BY <1>1, <1>2, <1>3, ProductSign
    <2> QED BY <1>2, <2>1
  <1>5. ASSUME NEW x1 \in Int, NEW x2 \in Int
        PROVE  /\ turn > 0 => /\ depth(x1, x2) > 0 <=> side(x1, x2) > 0
                              /\ depth(x1, x2) < 0 <=> side(x1, x2) < 0
               /\ turn < 0 => /\ depth(x1, x2) > 0 <=> side(x1, x2) < 0
                              /\ depth(x1, x2) < 0 <=> side(x1, x2) > 0
    <2>1. PICK e \in Int : e = depth(x1, x2)
      BY <1>2
    <2>2. PICK s \in Int : s = side(x1, x2)
      BY <1>2
    <2>3. size * e = turn * s
      BY <1>2, <2>1, <2>2
    <2>4. /\ e > 0 => size * e > 0
          /\ e < 0 => size * e < 0
          /\ e = 0 => size * e = 0
      BY <1>1, ProductSign
    <2>5. /\ turn > 0 /\ s > 0 => turn * s > 0
          /\ turn > 0 /\ s < 0 => turn * s < 0
          /\ turn < 0 /\ s > 0 => turn * s < 0
          /\ turn < 0 /\ s < 0 => turn * s > 0
          /\ s = 0 => turn * s = 0
      BY <1>1, ProductSign
    <2>6. PICK w \in Int : w = size * e
      BY <1>1
    <2> QED BY <2>1, <2>2, <2>3, <2>4, <2>5, <2>6
  <1>6. CASE turn > 0
    <2>1. \A x1, x2 \in Int : side(x1, x2) = 1 * side(x1, x2)
      BY <1>2
    <2> QED BY <1>5, <1>6, <2>1 DEF SameSides, depth, side
  <1>7. CASE turn < 0
    <2>1. \A s \in Int : ((-1) * s > 0 <=> s < 0) /\ ((-1) * s < 0 <=> s > 0)
      OBVIOUS
    <2>2. \A x1, x2 \in Int : /\ (-1) * side(x1, x2) > 0 <=> side(x1, x2) < 0
                              /\ (-1) * side(x1, x2) < 0 <=> side(x1, x2) > 0
      BY <1>2, <2>1
    <2>3. \A x1, x2 \in Int : /\ depth(x1, x2) > 0 <=> (-1) * side(x1, x2) > 0
                              /\ depth(x1, x2) < 0 <=> (-1) * side(x1, x2) < 0
      BY <1>5, <1>7, <2>2
    <2>4. SameSides(-1, d1, d2, v1, v2)
      BY <2>3 DEF SameSides, depth, side
    <2> QED BY <2>4
  <1> QED BY <1>1, <1>4, <1>6, <1>7

LEMMA Difference ==
  ASSUME NEW x1 \in Int, NEW x2 \in Int, NEW y1 \in Int, NEW y2 \in Int,
         NEW v1 \in Int, NEW v2 \in Int
  PROVE  Dot(y1 - x1, y2 - x2, v1, v2) = Dot(y1, y2, v1, v2) - Dot(x1, x2, v1, v2)
  BY DEF Dot

(* A line's ends, its direction and a place, as numbers.                   *)
LEMMA Coordinates ==
  ASSUME NEW l \in Lines, NEW p \in Points
  PROVE  /\ LineAt[l].a[1] \in Int /\ LineAt[l].a[2] \in Int
         /\ LineAt[l].b[1] \in Int /\ LineAt[l].b[2] \in Int
         /\ LineAt[l].inward[1] \in Int /\ LineAt[l].inward[2] \in Int
         /\ p[1] \in Int /\ p[2] \in Int
  <1>1. /\ LineAt[l].a \in Int \X Int /\ LineAt[l].b \in Int \X Int
        /\ LineAt[l].inward \in Int \X Int /\ p \in Int \X Int
    BY AnalyticsConstants
  <1> QED BY <1>1

LEMMA LineIsUpright ==
  ASSUME InwardIsNormal, NEW l \in Lines,
         NEW a, a = LineAt[l].a, NEW b, b = LineAt[l].b, NEW v, v = LineAt[l].inward
  PROVE  /\ b[1] - a[1] # 0 \/ b[2] - a[2] # 0
         /\ v[1] # 0 \/ v[2] # 0
         /\ (b[1] - a[1]) * v[1] + (b[2] - a[2]) * v[2] = 0
  <1>1. a \in Int \X Int /\ b \in Int \X Int /\ v \in Int \X Int
    BY AnalyticsConstants
  <1>2. a # b /\ v # <<0, 0>> /\ (b[1] - a[1]) * v[1] + (b[2] - a[2]) * v[2] = 0
    BY DEF InwardIsNormal
  <1>3. a[1] # b[1] \/ a[2] # b[2]
    BY <1>1, <1>2
  <1>4. v[1] # 0 \/ v[2] # 0
    BY <1>1, <1>2
  <1>5. PICK a1 \in Int, a2 \in Int, b1 \in Int, b2 \in Int :
            a1 = a[1] /\ a2 = a[2] /\ b1 = b[1] /\ b2 = b[2]
    BY <1>1
  <1>6. a1 # b1 \/ a2 # b2
    BY <1>3, <1>5, Zenon
  <1>7. b1 - a1 # 0 \/ b2 - a2 # 0
    BY <1>5, <1>6
  <1> QED BY <1>2, <1>4, <1>5, <1>7

(* Depth and point_side() tell the same sides of a line apart.             *)
LEMMA LineSides ==
  ASSUME InwardIsNormal, NEW l \in Lines, NEW p \in Points, NEW q \in Points,
         NEW a, a = LineAt[l].a, NEW b, b = LineAt[l].b
  PROVE  /\ Depth(l, p) \in Int /\ Depth(l, q) \in Int
         /\ Apart(Depth(l, p), Depth(l, q)) <=> Apart(PointSide(a, b, p), PointSide(a, b, q))
         /\ PointSide(a, b, p) = 0 => Depth(l, p) = 0
         /\ PointSide(a, b, q) = 0 => Depth(l, q) = 0
         /\ Along(p, q, LineAt[l].inward) = Depth(l, q) - Depth(l, p)
  <1> DEFINE v == LineAt[l].inward
  <1>1. PICK d1 \in Int, d2 \in Int, v1 \in Int, v2 \in Int :
            d1 = b[1] - a[1] /\ d2 = b[2] - a[2] /\ v1 = v[1] /\ v2 = v[2]
    <2>1. b[1] - a[1] \in Int /\ b[2] - a[2] \in Int /\ v[1] \in Int /\ v[2] \in Int
      BY Coordinates
    <2> QED BY <2>1
  <1>2. PICK x1 \in Int, x2 \in Int, y1 \in Int, y2 \in Int :
            x1 = p[1] - a[1] /\ x2 = p[2] - a[2] /\ y1 = q[1] - a[1] /\ y2 = q[2] - a[2]
    <2>1. /\ p[1] - a[1] \in Int /\ p[2] - a[2] \in Int
          /\ q[1] - a[1] \in Int /\ q[2] - a[2] \in Int
      BY Coordinates
    <2> QED BY <2>1
  <1>3. /\ Depth(l, p) = Dot(x1, x2, v1, v2) /\ Depth(l, q) = Dot(y1, y2, v1, v2)
        /\ PointSide(a, b, p) = Cross(d1, d2, x1, x2)
        /\ PointSide(a, b, q) = Cross(d1, d2, y1, y2)
    BY <1>1, <1>2 DEF Depth, PointSide, Dot, Cross
  <1>4. Along(p, q, v) = Depth(l, q) - Depth(l, p)
    <2>1. q[1] - p[1] = y1 - x1 /\ q[2] - p[2] = y2 - x2
      <3>1. /\ p[1] \in Int /\ p[2] \in Int /\ q[1] \in Int /\ q[2] \in Int
            /\ a[1] \in Int /\ a[2] \in Int
        BY Coordinates
      <3> HIDE DEF v
      <3> QED BY <1>2, <3>1
    <2>2. Along(p, q, v) = Dot(y1 - x1, y2 - x2, v1, v2)
      BY <1>1, <2>1 DEF Along, Dot
    <2>3. Dot(y1 - x1, y2 - x2, v1, v2) = Dot(y1, y2, v1, v2) - Dot(x1, x2, v1, v2)
      <3>1. /\ x1 \in Int /\ x2 \in Int /\ y1 \in Int /\ y2 \in Int
            /\ v1 \in Int /\ v2 \in Int
        BY <1>1, <1>2
      <3> QED BY <3>1, Difference
    <2> HIDE DEF v
    <2> QED BY <1>3, <2>2, <2>3
  <1>5. PICK c \in {-1, 1} : SameSides(c, d1, d2, v1, v2)
    <2>1. Dot(d1, d2, v1, v2) = 0 /\ (d1 # 0 \/ d2 # 0) /\ (v1 # 0 \/ v2 # 0)
      BY <1>1, LineIsUpright DEF Dot
    <2> QED BY <1>1, <2>1, SidesAgree
  <1> HIDE DEF v
  <1>6. /\ Dot(x1, x2, v1, v2) > 0 <=> c * Cross(d1, d2, x1, x2) > 0
        /\ Dot(x1, x2, v1, v2) < 0 <=> c * Cross(d1, d2, x1, x2) < 0
        /\ Dot(y1, y2, v1, v2) > 0 <=> c * Cross(d1, d2, y1, y2) > 0
        /\ Dot(y1, y2, v1, v2) < 0 <=> c * Cross(d1, d2, y1, y2) < 0
    BY <1>2, <1>5 DEF SameSides
  <1>7. PICK ep \in Int, eq \in Int, sp \in Int, sq \in Int :
            /\ ep = Dot(x1, x2, v1, v2) /\ eq = Dot(y1, y2, v1, v2)
            /\ sp = Cross(d1, d2, x1, x2) /\ sq = Cross(d1, d2, y1, y2)
    <2>1. /\ Dot(x1, x2, v1, v2) \in Int /\ Dot(y1, y2, v1, v2) \in Int
          /\ Cross(d1, d2, x1, x2) \in Int /\ Cross(d1, d2, y1, y2) \in Int
      BY <1>1, <1>2 DEF Dot, Cross
    <2> QED BY <2>1
  <1>8. /\ ep > 0 <=> c * sp > 0
        /\ ep < 0 <=> c * sp < 0
        /\ eq > 0 <=> c * sq > 0
        /\ eq < 0 <=> c * sq < 0
    BY <1>6, <1>7
  <1>9. \/ c * sp = sp /\ c * sq = sq
        \/ c * sp = -sp /\ c * sq = -sq
    <2>1. \A s \in Int : 1 * s = s /\ -1 * s = -s
      OBVIOUS
    <2> QED BY <1>5, <1>7, <2>1
  <1>10. /\ Depth(l, p) = ep /\ Depth(l, q) = eq
         /\ PointSide(a, b, p) = sp /\ PointSide(a, b, q) = sq
    BY <1>3, <1>7
  <1> QED BY <1>4, <1>7, <1>8, <1>9, <1>10 DEF Apart, v

(* The turn from x to y is that from y - x to -x.                          *)
LEMMA SameTurn ==
  ASSUME NEW x1 \in Int, NEW x2 \in Int, NEW y1 \in Int, NEW y2 \in Int
  PROVE  x1 * y2 - x2 * y1 = (y1 - x1) * (0 - x2) - (y2 - x2) * (0 - x1)
OBVIOUS

LEMMA SumTimes ==
  ASSUME NEW m \in Int, NEW n \in Int, NEW k \in Int
  PROVE  (m + n) * k = m * k + n * k /\ m * k \in Int /\ n * k \in Int
OBVIOUS

(* A detour over the end of the line does not change a depth.              *)
LEMMA Detour ==
  ASSUME NEW x1 \in Int, NEW x2 \in Int, NEW w1 \in Int, NEW w2 \in Int,
         NEW v1 \in Int, NEW v2 \in Int
  PROVE  (x1 + w1) * v1 + (x2 + w2) * v2 = x1 * v1 + x2 * v2 + (w1 * v1 + w2 * v2)
<1>1. (x1 + w1) * v1 = x1 * v1 + w1 * v1 /\ x1 * v1 \in Int /\ w1 * v1 \in Int
  BY SumTimes
<1>2. (x2 + w2) * v2 = x2 * v2 + w2 * v2 /\ x2 * v2 \in Int /\ w2 * v2 \in Int
  BY SumTimes
<1> QED
  BY <1>1, <1>2

(* An end of the line is not passed by a movement on one side of the line. *)
LEMMA EndNotPassed ==
  ASSUME InwardIsNormal, NEW l \in Lines, NEW p \in Points, NEW q \in Points,
         NEW e \in {LineAt[l].a, LineAt[l].b}, OnSegment(e, p, q)
  PROVE  ~(Depth(l, p) > 0 /\ Depth(l, q) > 0) /\ ~(Depth(l, p) < 0 /\ Depth(l, q) < 0)
  <1> DEFINE v == LineAt[l].inward a == LineAt[l].a
  <1>1. PICK a1 \in Int, a2 \in Int, v1 \in Int, v2 \in Int, e1 \in Int, e2 \in Int :
            a1 = a[1] /\ a2 = a[2] /\ v1 = v[1] /\ v2 = v[2] /\ e1 = e[1] /\ e2 = e[2]
    BY Coordinates
  <1>2. PICK p1 \in Int, p2 \in Int, q1 \in Int, q2 \in Int :
            p1 = p[1] /\ p2 = p[2] /\ q1 = q[1] /\ q2 = q[2]
    BY Coordinates
  <1>3. /\ Depth(l, p) = (p1 - a1) * v1 + (p2 - a2) * v2
        /\ Depth(l, q) = (q1 - a1) * v1 + (q2 - a2) * v2
    BY <1>1, <1>2 DEF Depth
  <1>4. /\ (q1 - p1) * (e2 - p2) - (q2 - p2) * (e1 - p1) = 0
        /\ Between(e1, p1, q1) /\ Between(e2, p2, q2)
    BY <1>1, <1>2 DEF OnSegment, PointSide
  <1>5. (e1 - a1) * v1 + (e2 - a2) * v2 = 0
    <2>1. CASE e = LineAt[l].a
      <3>1. e1 - a1 = 0 /\ e2 - a2 = 0
        BY <1>1, <2>1
      <3>2. 0 * v1 + 0 * v2 = 0
        BY <1>1
      <3> QED BY <3>1, <3>2
    <2>2. CASE e = LineAt[l].b
      BY <1>1, <2>2, LineIsUpright
    <2> QED BY <2>1, <2>2
  <1> HIDE DEF v, a
  <1>6. PICK x1 \in Int, x2 \in Int, y1 \in Int, y2 \in Int :
            x1 = p1 - e1 /\ x2 = p2 - e2 /\ y1 = q1 - e1 /\ y2 = q2 - e2
    <2>1. p1 - e1 \in Int /\ p2 - e2 \in Int /\ q1 - e1 \in Int /\ q2 - e2 \in Int
      BY <1>1, <1>2
    <2> QED BY <2>1
  <1>7. Cross(x1, x2, y1, y2) = 0
    <2>1. x1 * y2 - x2 * y1 = (q1 - p1) * (e2 - p2) - (q2 - p2) * (e1 - p1)
      <3>1. /\ q1 - p1 = y1 - x1 /\ q2 - p2 = y2 - x2
            /\ e1 - p1 = 0 - x1 /\ e2 - p2 = 0 - x2
        BY <1>1, <1>2, <1>6
      <3> QED BY <3>1, SameTurn
    <2> QED BY <1>4, <2>1 DEF Cross
  <1>8. Between(0, x1, y1) /\ Between(0, x2, y2)
    BY <1>1, <1>2, <1>4, <1>6 DEF Between
  <1>9. Depth(l, p) = Dot(x1, x2, v1, v2)
    <2>1. (p1 - a1) * v1 + (p2 - a2) * v2 = x1 * v1 + x2 * v2 + ((e1 - a1) * v1 + (e2 - a2) * v2)
      <3>1. /\ p1 - a1 = x1 + (e1 - a1) /\ p2 - a2 = x2 + (e2 - a2)
            /\ e1 - a1 \in Int /\ e2 - a2 \in Int
        BY <1>1, <1>2, <1>6
      <3> QED BY <3>1, Detour
    <2> QED BY <1>1, <1>3, <1>5, <1>6, <2>1 DEF Dot
  <1>10. Depth(l, q) = Dot(y1, y2, v1, v2)
    <2>1. (q1 - a1) * v1 + (q2 - a2) * v2 = y1 * v1 + y2 * v2 + ((e1 - a1) * v1 + (e2 - a2) * v2)
      <3>1. /\ q1 - a1 = y1 + (e1 - a1) /\ q2 - a2 = y2 + (e2 - a2)
            /\ e1 - a1 \in Int /\ e2 - a2 \in Int
        BY <1>1, <1>2, <1>6
      <3> QED BY <3>1, Detour
    <2> QED BY <1>1, <1>3, <1>5, <1>6, <2>1 DEF Dot
  <1>11. /\ ~(Dot(x1, x2, v1, v2) > 0 /\ Dot(y1, y2, v1, v2) > 0)
         /\ ~(Dot(x1, x2, v1, v2) < 0 /\ Dot(y1, y2, v1, v2) < 0)
    BY <1>1, <1>6, <1>7, <1>8, NotBothInside
  <1> QED BY <1>9, <1>10, <1>11

(* A movement that leaves no doubt crosses in when it ends inside and did  *)
(* not begin there, out when it began inside and does not end there.       *)
LEMMA CleanMovement ==
  ASSUME InwardIsNormal, NEW l \in Lines, NEW p \in Points, NEW q \in Points, Clean[l][p][q]
  PROVE  Movement[l][p][q] = IF Inside(l, p) = Inside(l, q) THEN "none"
                             ELSE IF Inside(l, q) = 1 THEN "in" ELSE "out"
  <1> DEFINE a == LineAt[l].a
             b == LineAt[l].b
             v == LineAt[l].inward
             crosses == SegmentCrossesLine(p, q, a, b)
  <1>1. Movement[l][p][q] = IF ~crosses THEN "none"
                            ELSE IF Along(p, q, v) > 0 THEN "in" ELSE "out"
    BY DEF Movement, CrossingDirection
  <1>2. /\ Depth(l, p) # 0 /\ Depth(l, q) # 0
        /\ Apart(Depth(l, p), Depth(l, q)) => Apart(PointSide(p, q, a), PointSide(p, q, b))
    BY DEF Clean
  <1>3. /\ Depth(l, p) \in Int /\ Depth(l, q) \in Int
        /\ Apart(Depth(l, p), Depth(l, q)) <=> Apart(PointSide(a, b, p), PointSide(a, b, q))
        /\ PointSide(a, b, p) # 0 /\ PointSide(a, b, q) # 0
        /\ Along(p, q, v) = Depth(l, q) - Depth(l, p)
    BY <1>2, LineSides
  <1>4. OnSegment(a, p, q) \/ OnSegment(b, p, q)
          => ~(Depth(l, p) > 0 /\ Depth(l, q) > 0) /\ ~(Depth(l, p) < 0 /\ Depth(l, q) < 0)
    BY EndNotPassed
  <1>5. ~OnSegment(p, a, b) /\ ~OnSegment(q, a, b)
    BY <1>3 DEF OnSegment
  <1> HIDE DEF a, b, v
  <1>6. CASE Apart(Depth(l, p), Depth(l, q))
    <2>1. crosses
      BY <1>2, <1>3, <1>6 DEF SegmentCrossesLine
    <2> QED BY <1>1, <1>3, <1>6, <2>1 DEF Apart, Inside
  <1>7. CASE ~Apart(Depth(l, p), Depth(l, q))
    <2>1. \/ Depth(l, p) > 0 /\ Depth(l, q) > 0
          \/ Depth(l, p) < 0 /\ Depth(l, q) < 0
      BY <1>2, <1>3, <1>7 DEF Apart
    <2>2. ~crosses
      BY <1>3, <1>4, <1>5, <1>7, <2>1 DEF SegmentCrossesLine
    <2>3. Inside(l, p) = Inside(l, q)
      BY <1>3, <2>1 DEF Inside
    <2> QED BY <1>1, <2>2, <2>3
  <1> QED BY <1>6, <1>7

(* What the crossings counted say of a track, one frame on.                *)
LEMMA PostedTrue ==
  ASSUME InwardIsNormal, AnalyticsInv, NetTellsSide, NEW l \in Lines, NEW t \in Tracks,
         NEW seen \in [Tracks -> Points \cup {Nowhere}],
         NEW next, next = NextPoint(seen[t], lastPoint[t], misses[t])
  PROVE  Posted(l, t, seen[t], CrossingsFrom(lastPoint, seen))
           \subseteq IF next = Nowhere THEN {} ELSE {Inside(l, next)}
  <1> DEFINE cs == CrossingsFrom(lastPoint, seen)
             old == ledger[<<l, t>>]
             prev == lastPoint[t]
             p == seen[t]
  <1> SUFFICES Posted(l, t, p, cs) \subseteq IF next = Nowhere THEN {} ELSE {Inside(l, next)}
    OBVIOUS
  <1>1. /\ p \in Points \cup {Nowhere} /\ prev \in Points \cup {Nowhere}
        /\ old \subseteq IF prev = Nowhere THEN {} ELSE {Inside(l, prev)}
    BY DEF AnalyticsInv, TypeOK, NetTellsSide
  <1>2. Posted(l, t, p, cs) =
            IF p = Nowhere
            THEN IF NextPoint(p, prev, misses[t]) = Nowhere THEN {} ELSE old
            ELSE IF prev = Nowhere
            THEN IF Depth(l, p) = 0 THEN {} ELSE {Inside(l, p)}
            ELSE IF ~Clean[l][prev][p] THEN {}
            ELSE IF <<l, t, "in">> \in cs  THEN {n + 1 : n \in old}
            ELSE IF <<l, t, "out">> \in cs THEN {n - 1 : n \in old}
            ELSE old
    BY DEF Posted
  <1>3. CASE p = Nowhere
    <2>1. next = Nowhere \/ next = prev
      BY <1>3 DEF NextPoint
    <2>2. NextPoint(p, prev, misses[t]) = next
      OBVIOUS
    <2> HIDE DEF cs, old, prev, p
    <2> QED BY <1>1, <1>2, <1>3, <2>1, <2>2
  <1>4. CASE p # Nowhere
    <2>1. next = p /\ p \in Points
      BY <1>1, <1>4 DEF NextPoint
    <2>2. CASE prev = Nowhere
      <3> HIDE DEF cs, old, prev, p
      <3> QED BY <1>2, <1>4, <2>1, <2>2
    <2>3. CASE prev # Nowhere /\ Clean[l][prev][p]
      <3>1. \A dir \in {"in", "out"} : <<l, t, dir>> \in cs <=> Movement[l][prev][p] = dir
        <4> DEFINE moved == {u \in Tracks : lastPoint[u] # Nowhere /\ seen[u] # Nowhere}
        <4>1. t \in moved
          BY <1>4, <2>3
        <4> TAKE dir \in {"in", "out"}
        <4>2. <<l, t, dir>> \notin Lines \X Tracks \X {"none"}
          OBVIOUS
        <4>3. <<l, t, dir>> \in cs <=>
                <<l, t, dir>> \in {<<k, u, Movement[k][lastPoint[u]][seen[u]]>> : k \in Lines, u \in moved}
          BY <4>2 DEF CrossingsFrom
        <4> QED BY <4>1, <4>3
      <3>2. Movement[l][prev][p] = IF Inside(l, prev) = Inside(l, p) THEN "none"
                                   ELSE IF Inside(l, p) = 1 THEN "in" ELSE "out"
        BY <1>1, <2>1, <2>3, CleanMovement
      <3>3. Inside(l, prev) \in {0, 1} /\ Inside(l, p) \in {0, 1}
        BY DEF Inside
      <3> HIDE DEF cs, old, prev, p
      <3>4. CASE Inside(l, prev) = Inside(l, p)
        BY <1>1, <1>2, <1>4, <2>1, <2>3, <3>1, <3>2, <3>4
      <3>5. CASE Inside(l, prev) = 0 /\ Inside(l, p) = 1
        BY <1>1, <1>2, <1>4, <2>1, <2>3, <3>1, <3>2, <3>5
      <3>6. CASE Inside(l, prev) = 1 /\ Inside(l, p) = 0
        BY <1>1, <1>2, <1>4, <2>1, <2>3, <3>1, <3>2, <3>6
      <3> QED BY <3>3, <3>4, <3>5, <3>6
    <2>4. CASE prev # Nowhere /\ ~Clean[l][prev][p]
      <3> HIDE DEF cs, old, prev, p
      <3> QED BY <1>2, <1>4, <2>4
    <2> QED BY <2>2, <2>3, <2>4
  <1> QED BY <1>3, <1>4

(* The crossings counted of a track add up to the side of the line it is   *)
(* on, for any gap, any lines whose direction in is their normal (as       *)
(* draw_zones.py makes them) and any paths over any points.                *)
THEOREM NetTellsSideEver ==
  ASSUME InwardIsNormal
  PROVE  Spec => []NetTellsSide
  <1>1. Init => NetTellsSide
    BY DEF Init, NoLedger, NetTellsSide
  <1>2. AnalyticsInv /\ NetTellsSide /\ [Next]_vars => NetTellsSide'
    <2> SUFFICES ASSUME AnalyticsInv, NetTellsSide, [Next]_vars PROVE NetTellsSide'
      OBVIOUS
    <2>1. ASSUME NEW seen \in [Tracks -> Points \cup {Nowhere}], TrackedFrame(seen)
          PROVE  NetTellsSide'
      <3>1. /\ lastPoint' = [t \in Tracks |-> NextPoint(seen[t], lastPoint[t], misses[t])]
            /\ ledger' = [q \in Lines \X Tracks |->
                            Posted(q[1], q[2], seen[q[2]], CrossingsFrom(lastPoint, seen))]
        BY <2>1 DEF TrackedFrame, DetectLines, Post
      <3>2. ASSUME NEW l \in Lines, NEW t \in Tracks
            PROVE  ledger'[<<l, t>>] \subseteq IF lastPoint'[t] = Nowhere THEN {}
                                               ELSE {Inside(l, lastPoint'[t])}
        <4>1. ledger'[<<l, t>>] = Posted(l, t, seen[t], CrossingsFrom(lastPoint, seen))
          BY <3>1
        <4>2. lastPoint'[t] = NextPoint(seen[t], lastPoint[t], misses[t])
          BY <3>1
        <4> QED BY <4>1, <4>2, PostedTrue
      <3>3. \A l, p : Inside(l, p)' = Inside(l, p)
        BY DEF Inside, Depth
      <3> QED BY <3>2, <3>3 DEF NetTellsSide, Inside, Depth
    <2>2. CASE UNCHANGED <<lastPoint, ledger>>
      BY <2>2 DEF NetTellsSide, Inside, Depth
    <2>3. CASE \E count \in [Zones -> 0 .. MaxPeople] : DetectedFrame(count)
      BY <2>2, <2>3 DEF DetectedFrame
    <2>4. CASE Restart
      BY <2>4 DEF Restart, NoLedger, NetTellsSide
    <2>5. CASE UNCHANGED vars
      BY <2>2, <2>5 DEF vars, ghosts
    <2> QED BY <2>1, <2>3, <2>4, <2>5 DEF Next
  <1> QED BY <1>1, <1>2, Inductive, PTL DEF Spec
==============================================================================
