---------------------------- MODULE SamplerProofs ----------------------------
(***************************************************************************)
(* Proofs about the occupancy sampler, for every set of zones, cameras and *)
(* spaces, however often a write fails, the process stops or crashes and a *)
(* worker ends: no sample is counted twice or lost silently, and whoever   *)
(* reads the table sees the rows arrive in the order of time.              *)
(***************************************************************************)
EXTENDS OccupancySampler, RowProofs

-----------------------------------------------------------------------------
(* What is counted.                                                        *)

LEMMA SampleRow ==
  \A count, live, all \in Nat : Sample(count, live, all) \in Row
BY DEF Sample, Row

LEMMA SamplesTable ==
  ASSUME TypeOK
  PROVE  IsTable(Samples) /\ DOMAIN Samples \subseteq Spaces
<1>1. ASSUME NEW s \in Spaces
      PROVE  Sample(MapThenSumSet(LAMBDA z : occupancy[z], Summed(s)),
                    Cardinality(LiveIn(s)), Cardinality(SeenBy(s))) \in Row
  <2>1. IsFiniteSet(Summed(s)) /\ \A z \in Summed(s) : occupancy[z] \in Nat
    <3>1. Summed(s) \subseteq Zones /\ \A z \in Summed(s) : occupancy[z] # None
      BY DEF Summed, Seen, TypeOK
    <3> QED
      BY <3>1, SamplerConstants, FS_Subset DEF TypeOK
  <2>2. MapThenSumSet(LAMBDA z : occupancy[z], Summed(s)) \in Nat
    <3>1. MapThenSumSet(LAMBDA z : occupancy[z], Summed(s)) = Total(occupancy, Summed(s))
      BY DEF MapThenSumSet, MapThenFoldSet, Total
    <3> QED
      BY <2>1, <3>1, TotalIsNatural
  <2>3. IsFiniteSet(SeenBy(s))
    <3>1. IsFiniteSet({y \in Seen : SpaceOf[y] = s})
      BY SamplerConstants, FS_Subset DEF Seen, TypeOK
    <3> QED
      BY <3>1, ImageFinite DEF SeenBy
  <2>4. IsFiniteSet(LiveIn(s))
    BY <2>3, FS_Subset DEF LiveIn
  <2>5. Cardinality(LiveIn(s)) \in Nat /\ Cardinality(SeenBy(s)) \in Nat
    BY <2>3, <2>4, FS_CardinalityType
  <2> QED
    BY <2>2, <2>5, SampleRow
<1> QED
  BY <1>1 DEF Samples, IsTable

(* The rows that an accumulator of spaces stands for.                      *)
At(b, t) == [k \in (DOMAIN b) \X {t} |-> b[k[1]]]

LEMMA AtTable ==
  ASSUME NEW b, NEW t, IsTable(b)
  PROVE  IsTable(At(b, t))
BY DEF At, IsTable

LEMMA AtFold ==
  ASSUME NEW b, NEW s, NEW t, IsTable(b), IsTable(s)
  PROVE  At(Fold(b, s), t) = Fold(At(b, t), At(s, t))
<1> PICK f : f = Fold(b, s)
  OBVIOUS
<1> PICK l : l = At(f, t)
  OBVIOUS
<1> PICK p : p = At(b, t)
  OBVIOUS
<1> PICK q : q = At(s, t)
  OBVIOUS
<1> PICK r : r = Fold(p, q)
  OBVIOUS
<1>1. IsTable(l) /\ IsTable(r)
  BY FoldTable, AtTable
<1>2. /\ DOMAIN l = (DOMAIN f) \X {t} /\ \A x \in DOMAIN f : l[<<x, t>>] = f[x]
      /\ DOMAIN p = (DOMAIN b) \X {t} /\ \A x \in DOMAIN b : p[<<x, t>>] = b[x]
      /\ DOMAIN q = (DOMAIN s) \X {t} /\ \A x \in DOMAIN s : q[<<x, t>>] = s[x]
  BY DEF At
<1>3. DOMAIN f = DOMAIN b \union DOMAIN s
  BY DEF Fold
<1>4. DOMAIN r = DOMAIN p \union DOMAIN q
  BY DEF Fold
<1>5. DOMAIN l = DOMAIN r
  BY <1>2, <1>3, <1>4
<1>6. ASSUME NEW x \in DOMAIN f PROVE l[<<x, t>>] = r[<<x, t>>]
  <2> PICK k : k = <<x, t>>
    OBVIOUS
  <2>1. /\ k \in DOMAIN p <=> x \in DOMAIN b
        /\ k \in DOMAIN q <=> x \in DOMAIN s
    BY <1>2
  <2>2. /\ l[k] = f[x]
        /\ x \in DOMAIN b => p[k] = b[x]
        /\ x \in DOMAIN s => q[k] = s[x]
    BY <1>2
  <2>3. /\ x \in DOMAIN f <=> (x \in DOMAIN b \/ x \in DOMAIN s)
        /\ (x \in DOMAIN b /\ x \notin DOMAIN s) => f[x] = b[x]
        /\ (x \in DOMAIN s /\ x \notin DOMAIN b) => f[x] = s[x]
        /\ (x \in DOMAIN b /\ x \in DOMAIN s) => f[x] = Merge(b[x], s[x])
    BY FoldAt
  <2>4. /\ (k \in DOMAIN p /\ k \notin DOMAIN q) => r[k] = p[k]
        /\ (k \in DOMAIN q /\ k \notin DOMAIN p) => r[k] = q[k]
        /\ (k \in DOMAIN p /\ k \in DOMAIN q) => r[k] = Merge(p[k], q[k])
    BY FoldAt
  <2>5. l[k] = r[k]
    BY <2>1, <2>2, <2>3, <2>4
  <2> QED
    BY <2>5
<1>7. \A k \in DOMAIN l : l[k] = r[k]
  BY <1>2, <1>6
<1>8. l = r
  BY <1>1, <1>5, <1>7, SameTable
<1> QED
  BY <1>8

LEMMA RowsAt == Rows = At(buckets, bucketTs)
BY DEF Rows, At

-----------------------------------------------------------------------------
(* What is accounted for.                                                  *)

(* e is what is kept of t, all but what was under the keys of l.           *)
Accounts(e, t, l) ==
  /\ DOMAIN e \subseteq DOMAIN t
  /\ \A k \in DOMAIN e : e[k].n <= t[k].n
  /\ \A k \in DOMAIN t \ l : k \in DOMAIN e /\ e[k] = t[k]

LEMMA SampleAccounted ==
  ASSUME NEW e, NEW t, NEW l, NEW s, IsTable(e), IsTable(t), IsTable(s), Accounts(e, t, l)
  PROVE  Accounts(Fold(e, s), Fold(t, s), l)
<1> PICK f : f = Fold(e, s)
  OBVIOUS
<1> PICK u : u = Fold(t, s)
  OBVIOUS
<1>1. ASSUME NEW k
      PROVE  /\ k \in DOMAIN f => k \in DOMAIN u /\ f[k].n <= u[k].n
             /\ k \in DOMAIN u /\ k \notin l => k \in DOMAIN f /\ f[k] = u[k]
  <2>1. /\ k \in DOMAIN f <=> (k \in DOMAIN e \/ k \in DOMAIN s)
        /\ (k \in DOMAIN e /\ k \notin DOMAIN s) => f[k] = e[k]
        /\ (k \in DOMAIN s /\ k \notin DOMAIN e) => f[k] = s[k]
        /\ (k \in DOMAIN e /\ k \in DOMAIN s) => f[k] = Merge(e[k], s[k])
    BY FoldAt
  <2>2. /\ k \in DOMAIN u <=> (k \in DOMAIN t \/ k \in DOMAIN s)
        /\ (k \in DOMAIN t /\ k \notin DOMAIN s) => u[k] = t[k]
        /\ (k \in DOMAIN s /\ k \notin DOMAIN t) => u[k] = s[k]
        /\ (k \in DOMAIN t /\ k \in DOMAIN s) => u[k] = Merge(t[k], s[k])
    BY FoldAt
  <2>3. /\ k \in DOMAIN e => e[k] \in Row /\ e[k].n \in Nat
        /\ k \in DOMAIN t => t[k] \in Row /\ t[k].n \in Nat
        /\ k \in DOMAIN s => s[k] \in Row /\ s[k].n \in Nat
    BY DEF IsTable, Row
  <2>4. /\ k \in DOMAIN e => k \in DOMAIN t /\ e[k].n <= t[k].n
        /\ k \in DOMAIN t /\ k \notin l => k \in DOMAIN e /\ e[k] = t[k]
    BY DEF Accounts
  <2>5. /\ (k \in DOMAIN e /\ k \in DOMAIN s) => Merge(e[k], s[k]).n = e[k].n + s[k].n
        /\ (k \in DOMAIN t /\ k \in DOMAIN s) => Merge(t[k], s[k]).n = t[k].n + s[k].n
    BY DEF Merge
  <2>6. k \in DOMAIN f => k \in DOMAIN u
    BY <2>1, <2>2, <2>4
  <2>7. k \in DOMAIN f => f[k].n <= u[k].n
    <3>1. CASE k \in DOMAIN s /\ k \in DOMAIN e
      BY <2>1, <2>2, <2>3, <2>4, <2>5, <3>1
    <3>2. CASE k \in DOMAIN s /\ k \notin DOMAIN e
      BY <2>1, <2>2, <2>3, <2>4, <2>5, <3>2
    <3>3. CASE k \notin DOMAIN s
      BY <2>1, <2>2, <2>3, <2>4, <3>3
    <3> QED
      BY <3>1, <3>2, <3>3
  <2>8. k \in DOMAIN u /\ k \notin l => k \in DOMAIN f /\ f[k] = u[k]
    BY <2>1, <2>2, <2>4
  <2> QED
    BY <2>6, <2>7, <2>8
<1>2. Accounts(f, u, l)
  BY <1>1 DEF Accounts
<1> QED
  BY <1>2

(* Rows that are dropped are accounted for by their keys.                  *)
LEMMA DropAccounted ==
  ASSUME NEW e, NEW w, NEW t, NEW l, IsTable(e), IsTable(w), Accounts(Fold(e, w), t, l),
         IsTable(t)
  PROVE  Accounts(e, t, l \union DOMAIN w)
<1> PICK f : f = Fold(e, w)
  OBVIOUS
<1> PICK x : x = l \union DOMAIN w
  OBVIOUS
<1>1. ASSUME NEW k
      PROVE  /\ k \in DOMAIN e => k \in DOMAIN t /\ e[k].n <= t[k].n
             /\ k \in DOMAIN t /\ k \notin x => k \in DOMAIN e /\ e[k] = t[k]
  <2>1. /\ k \in DOMAIN f <=> (k \in DOMAIN e \/ k \in DOMAIN w)
        /\ (k \in DOMAIN e /\ k \notin DOMAIN w) => f[k] = e[k]
    BY FoldAt
  <2>2. /\ k \in DOMAIN f => k \in DOMAIN t /\ f[k].n <= t[k].n
        /\ k \in DOMAIN t /\ k \notin l => k \in DOMAIN f /\ f[k] = t[k]
    BY DEF Accounts
  <2>3. k \in DOMAIN e => e[k].n \in Nat /\ f[k].n \in Nat /\ e[k].n <= f[k].n
    BY FoldCounts
  <2>4. k \in DOMAIN t => t[k].n \in Nat
    BY DEF IsTable, Row
  <2> QED
    BY <2>1, <2>2, <2>3, <2>4
<1>2. Accounts(e, t, x)
  BY <1>1 DEF Accounts
<1> QED
  BY <1>2
-----------------------------------------------------------------------------
(* Types.                                                                  *)

KeyTable(t) == IsTable(t) /\ DOMAIN t \subseteq Keys

Tables ==
  /\ KeyTable(minutes) /\ KeyTable(writing) /\ KeyTable(closing) /\ KeyTable(taken)
  /\ IsTable(buckets) /\ DOMAIN buckets \subseteq Spaces
  /\ buckets # EmptyTable => bucketTs # None

Scalars ==
  /\ now \in Minutes /\ ticks \in 0..MaxTicks /\ at \in Minutes
  /\ assigned \subseteq Zones /\ zoneMap \subseteq Zones
  /\ mapAt \in Minutes \cup {None} /\ bucketTs \in Minutes \cup {None}
  /\ occupancy \in [Zones -> Counts \cup {None}]
  /\ healthy \subseteq Cameras
  /\ ended \in [Cameras -> Minutes \cup {None}]
  /\ main \in {"run", "join", "flush", "closed", "down"} /\ stopping \in BOOLEAN
  /\ pc \in {"wait", "flush", "map", "sample", "off"}
  /\ lost \subseteq Keys /\ faults \in 0..MaxFaults

LEMMA TypeParts == TypeOK <=> Tables /\ Scalars
BY DEF TypeOK, Tables, Scalars, KeyTable, IsTable

LEMMA EmptyKeyTable == KeyTable(EmptyTable)
BY EmptyIsTable DEF KeyTable

LEMMA FoldKeyTable ==
  ASSUME NEW t, NEW u, KeyTable(t), KeyTable(u)
  PROVE  KeyTable(Fold(t, u))
<1>1. IsTable(Fold(t, u))
  BY FoldTable DEF KeyTable
<1>2. DOMAIN Fold(t, u) = DOMAIN t \union DOMAIN u
  BY DEF Fold
<1> QED
  BY <1>1, <1>2 DEF KeyTable

LEMMA EmptyDomain ==
  ASSUME NEW t, IsTable(t), \A k : k \notin DOMAIN t
  PROVE  t = EmptyTable
BY DEF IsTable, EmptyTable

LEMMA AtEmpty ==
  ASSUME NEW t PROVE At(EmptyTable, t) = EmptyTable
BY DEF At, EmptyTable

LEMMA RowsKeyTable ==
  ASSUME TypeOK PROVE KeyTable(Rows)
<1>1. IsTable(Rows)
  BY TypeParts, RowsAt, AtTable DEF Tables
<1>2. CASE buckets = EmptyTable
  BY <1>2, RowsAt, AtEmpty, EmptyKeyTable
<1>3. CASE buckets # EmptyTable
  <2>1. bucketTs \in Minutes
    BY <1>3, TypeParts DEF Tables, Scalars
  <2>2. DOMAIN Rows \subseteq Keys
    BY <2>1, TypeParts DEF Rows, Keys, Tables
  <2> QED
    BY <1>1, <2>2 DEF KeyTable
<1> QED
  BY <1>2, <1>3

(* Where a sample is folded in.                                            *)
Sampled(t) == At(Samples, t)

LEMMA SampledKeyTable ==
  ASSUME TypeOK PROVE KeyTable(Sampled(at))
<1>1. IsTable(Sampled(at))
  BY SamplesTable, AtTable DEF Sampled
<1>2. DOMAIN Sampled(at) \subseteq Keys
  BY SamplesTable, TypeParts DEF Sampled, At, Keys, Scalars
<1> QED
  BY <1>1, <1>2 DEF KeyTable

LEMMA InitTypes == Init => TypeOK
<1> SUFFICES ASSUME Init PROVE Tables /\ Scalars
  BY TypeParts
<1>1. Tables
  BY EmptyKeyTable, EmptyIsTable DEF Init, Tables
<1>2. Scalars
  <2>1. 0 \in Minutes /\ 0 \in 0..MaxTicks /\ 0 \in 0..MaxFaults
    BY SamplerConstants DEF Minutes
  <2>2. occupancy \in [Zones -> Counts \cup {None}] /\ ended \in [Cameras -> Minutes \cup {None}]
    BY DEF Init
  <2> QED
    BY <2>1, <2>2 DEF Init, Scalars
<1> QED
  BY <1>1, <1>2

(* Where the rows in memory are: what is being written belongs to the one  *)
(* minute of the buckets, the main thread writes only once the thread does *)
(* not, and nothing is ahead of the tick.                                  *)
Control ==
  /\ stopping <=> main \in {"join", "flush", "closed"}
  /\ pc # "flush" => writing = EmptyTable
  /\ pc = "flush" => buckets = EmptyTable /\ closing = EmptyTable
  /\ main # "flush" => closing = EmptyTable
  /\ main = "down" => pc = "off" /\ buckets = EmptyTable
  /\ pc \in {"map", "sample"} => bucketTs = at
  /\ DOMAIN writing \subseteq Spaces \X {bucketTs}
  /\ DOMAIN closing \subseteq Spaces \X {bucketTs}

LEMMA TablesKept ==
  ASSUME TypeOK, Control, [Next]_vars PROVE Tables'
<1>1. Tables /\ Scalars
  BY TypeParts
<1>2. KeyTable(EmptyTable) /\ KeyTable(Rows) /\ IsTable(EmptyTable) /\ DOMAIN EmptyTable = {}
  BY EmptyKeyTable, RowsKeyTable, EmptyIsTable
<1>3. CASE UNCHANGED <<minutes, writing, closing, taken, open>>
  BY <1>1, <1>3 DEF Tables, KeyTable, IsTable, open
<1>4. CASE Tick \/ (\E z \in Zones : EditZone(z)) \/ Camera \/ UNCHANGED vars
  BY <1>3, <1>4 DEF Tick, EditZone, Camera, Count, Heartbeat, WorkerEnds, vars, db
<1>5. CASE RefreshZoneMap \/ TickFails \/ Exit \/ Stop \/ ProcessStarts
  BY <1>3, <1>5 DEF RefreshZoneMap, TickFails, Exit, Stop, ProcessStarts, db
<1>6. CASE Wake
  <2>1. UNCHANGED <<minutes, closing, taken>>
    BY <1>6 DEF Wake, db
  <2>2. now # None
    BY <1>1, SamplerConstants DEF Scalars, Minutes
  <2>3. CASE RolledOver
    BY <1>1, <1>2, <1>6, <2>1, <2>3 DEF Wake, Tables
  <2>4. CASE ~RolledOver
    BY <1>1, <1>6, <2>1, <2>2, <2>4 DEF Wake, Tables
  <2> QED
    BY <2>3, <2>4
<1>7. CASE FlushCommits
  <2>1. KeyTable(Fold(minutes, writing))
    BY <1>1, FoldKeyTable DEF Tables
  <2>2. at # None
    BY <1>1, SamplerConstants DEF Scalars, Minutes
  <2> QED
    BY <1>1, <1>2, <1>7, <2>1, <2>2 DEF FlushCommits, Tables
<1>8. CASE FlushFails
  BY <1>1, <1>2, <1>8 DEF FlushFails, Tables, db, open
<1>9. CASE TakeSample
  <2>1. /\ IsTable(Fold(buckets, Samples)) /\ DOMAIN Fold(buckets, Samples) \subseteq Spaces
    <3>1. IsTable(Fold(buckets, Samples))
      BY <1>1, SamplesTable, FoldTable DEF Tables
    <3>2. DOMAIN Fold(buckets, Samples) = DOMAIN buckets \union DOMAIN Samples
      BY DEF Fold
    <3> QED
      BY <1>1, <3>1, <3>2, SamplesTable DEF Tables
  <2>2. KeyTable(Fold(taken, Sampled(at)))
    BY <1>1, SampledKeyTable, FoldKeyTable DEF Tables
  <2>3. taken' = Fold(taken, Sampled(at))
    BY <1>9 DEF TakeSample, Sampled, At
  <2>4. bucketTs # None
    BY <1>1, <1>9, SamplerConstants DEF Control, TakeSample, Scalars, Minutes
  <2> QED
    BY <1>1, <1>9, <2>1, <2>2, <2>3, <2>4 DEF TakeSample, Tables, db
<1>10. CASE CloseFlush
  BY <1>1, <1>2, <1>10 DEF CloseFlush, Tables, db
<1>11. CASE CloseCommits
  <2>1. KeyTable(Fold(minutes, closing))
    BY <1>1, FoldKeyTable DEF Tables
  <2> QED
    BY <1>1, <1>2, <1>11, <2>1 DEF CloseCommits, Tables, open
<1>12. CASE ProcessEnds
  BY <1>1, <1>2, <1>12 DEF ProcessEnds, Tables, db
<1> QED
  BY <1>4, <1>5, <1>6, <1>7, <1>8, <1>9, <1>10, <1>11, <1>12 DEF Next, Thread, Process

LEMMA FaultCounted ==
  ASSUME Scalars, Fault PROVE faults' \in 0..MaxFaults
BY SamplerConstants DEF Scalars, Fault

LEMMA ScalarsKept ==
  ASSUME TypeOK, Control, [Next]_vars PROVE Scalars'
<1>1. Tables /\ Scalars
  BY TypeParts
<1> USE DEF Scalars
<1>2. CASE Tick
  BY <1>1, <1>2, SamplerConstants DEF Tick, Minutes, db, store, process, thread, map, open
<1>3. CASE \E z \in Zones : EditZone(z)
  BY <1>1, <1>3, FaultCounted DEF EditZone, clock, store, process, thread, map, open
<1>4. CASE Camera
  <2>1. CASE \E z \in Zones, n \in Counts : Count(z, n)
    BY <1>1, <2>1 DEF Count, clock, db, process, thread, map, open
  <2>2. ASSUME NEW c \in Cameras, WorkerEnds(c) PROVE Scalars'
    BY <1>1, <2>2, FaultCounted DEF WorkerEnds, clock, db, process, thread, map, open
  <2>3. CASE \E c \in Cameras, ok \in BOOLEAN : Heartbeat(c, ok)
    BY <1>1, <2>3 DEF Heartbeat, clock, db, process, thread, map, open
  <2> QED
    BY <1>4, <2>1, <2>2, <2>3 DEF Camera
<1>5. CASE Wake
  <2>1. /\ pc' \in {"map", "flush"} /\ at' = now /\ bucketTs' \in {bucketTs, now}
        /\ ticks' = ticks + 1 /\ ticks < MaxTicks
    BY <1>5 DEF Wake
  <2> QED
    BY <1>1, <1>5, <2>1, SamplerConstants DEF Wake, db, store, process, map
<1>6. CASE FlushCommits
  BY <1>1, <1>6 DEF FlushCommits, clock, store, process, map
<1>7. CASE FlushFails
  BY <1>1, <1>7, FaultCounted DEF FlushFails, clock, db, store, process, map, open, Tables, KeyTable
<1>8. CASE RefreshZoneMap
  BY <1>1, <1>8 DEF RefreshZoneMap, clock, db, store, process, open, map
<1>9. CASE TickFails
  BY <1>1, <1>9, FaultCounted DEF TickFails, clock, db, store, process, map, open
<1>10. CASE TakeSample
  BY <1>1, <1>10 DEF TakeSample, clock, db, store, process, map
<1>11. CASE Exit
  BY <1>1, <1>11 DEF Exit, clock, db, store, process, map, open
<1>12. CASE Stop
  BY <1>1, <1>12, FaultCounted DEF Stop, clock, db, store, thread, map, open
<1>13. CASE CloseFlush
  BY <1>1, <1>13 DEF CloseFlush, clock, db, store, thread, map
<1>14. CASE CloseCommits
  BY <1>1, <1>14 DEF CloseCommits, clock, store, thread, map, open
<1>15. CASE ProcessEnds
  <2>1. Unwritten \subseteq Keys
    BY <1>1, RowsKeyTable DEF Unwritten, Tables, KeyTable
  <2>2. faults' \in 0..MaxFaults
    BY <1>1, <1>15, SamplerConstants DEF ProcessEnds
  <2>3. /\ occupancy' \in [Zones -> Counts \cup {None}]
        /\ ended' \in [Cameras -> Minutes \cup {None}]
    BY <1>1, <1>15 DEF ProcessEnds
  <2> QED
    BY <1>1, <1>15, <2>1, <2>2, <2>3 DEF ProcessEnds, clock, db
<1>16. CASE ProcessStarts
  BY <1>1, <1>16 DEF ProcessStarts, clock, db, map, open
<1>17. CASE UNCHANGED vars
  BY <1>1, <1>17 DEF vars, clock, db, store, process, thread, map, open
<1> QED
  BY <1>2, <1>3, <1>4, <1>5, <1>6, <1>7, <1>8, <1>9, <1>10, <1>11, <1>12, <1>13, <1>14,
     <1>15, <1>16, <1>17 DEF Next, Thread, Process

LEMMA ControlKept ==
  ASSUME TypeOK, Control, [Next]_vars PROVE Control'
<1>1. Tables /\ Scalars
  BY TypeParts
<1>2. DOMAIN EmptyTable = {}
  BY EmptyIsTable
<1>3. buckets = EmptyTable => Rows = EmptyTable
  BY RowsAt, AtEmpty
<1>4. DOMAIN Rows \subseteq Spaces \X {bucketTs}
  BY <1>1 DEF Rows, Tables
<1> USE DEF Control
<1>5. CASE UNCHANGED <<process, thread, open, writing, closing>>
  BY <1>5 DEF process, thread, open
<1>6. CASE Tick \/ (\E z \in Zones : EditZone(z)) \/ Camera \/ UNCHANGED vars
  BY <1>5, <1>6 DEF Tick, EditZone, Camera, Count, Heartbeat, WorkerEnds, vars
<1>7. CASE Wake
  <2>1. UNCHANGED <<process, closing>> /\ closing = EmptyTable
    BY <1>7, <1>1 DEF Wake, Scalars
  <2>2. CASE RolledOver
    BY <1>2, <1>3, <1>4, <1>7, <2>1, <2>2 DEF Wake, process
  <2>3. CASE ~RolledOver
    BY <1>2, <1>7, <2>1, <2>3 DEF Wake, process
  <2> QED
    BY <2>2, <2>3
<1>8. CASE FlushCommits
  BY <1>2, <1>8 DEF FlushCommits, process
<1>9. CASE FlushFails
  BY <1>2, <1>9 DEF FlushFails, process, open
<1>10. CASE RefreshZoneMap \/ TickFails
  BY <1>2, <1>10 DEF RefreshZoneMap, TickFails, process, open
<1>11. CASE TakeSample
  BY <1>2, <1>11 DEF TakeSample, process
<1>12. CASE Exit
  BY <1>2, <1>12 DEF Exit, process, open
<1>13. CASE Stop
  BY <1>2, <1>13 DEF Stop, thread, open
<1>14. CASE CloseFlush
  BY <1>2, <1>3, <1>4, <1>14 DEF CloseFlush, thread
<1>15. CASE CloseCommits
  BY <1>2, <1>15 DEF CloseCommits, thread, open
<1>16. CASE ProcessEnds
  BY <1>2, <1>16 DEF ProcessEnds
<1>17. CASE ProcessStarts
  BY <1>2, <1>17 DEF ProcessStarts, open
<1> QED
  BY <1>6, <1>7, <1>8, <1>9, <1>10, <1>11, <1>12, <1>13, <1>14,
     <1>15, <1>16, <1>17 DEF Next, Thread, Process

-----------------------------------------------------------------------------
(* Every sample is accounted for.                                          *)

LEMMA ExactAccounts == Exact <=> Accounts(Everything, taken, lost)
BY DEF Exact, Accounts

(* What is kept, with the rows of m in the table, w and c being written    *)
(* and r in the accumulators.                                              *)
Kept(m, w, c, r) == Fold(Fold(Fold(m, w), c), r)

LEMMA KeptEmpty ==
  ASSUME NEW m, NEW w, NEW c, NEW r, IsTable(m), IsTable(w), IsTable(c), IsTable(r)
  PROVE  /\ Kept(m, r, EmptyTable, EmptyTable) = Kept(m, EmptyTable, EmptyTable, r)
         /\ Kept(m, w, r, EmptyTable) = Kept(m, w, EmptyTable, r)
         /\ Kept(m, EmptyTable, c, EmptyTable) = Fold(m, c)
         /\ Kept(m, EmptyTable, EmptyTable, EmptyTable) = m
         /\ Kept(Fold(m, w), EmptyTable, c, r) = Kept(m, w, c, r)
         /\ Kept(m, w, c, EmptyTable) = Fold(Fold(m, w), c)
<1> PICK e : e = EmptyTable
  OBVIOUS
<1>1. IsTable(e) /\ \A t : IsTable(t) => Fold(t, e) = t
  BY EmptyIsTable, FoldEmpty
<1>2. \A t, u : IsTable(t) /\ IsTable(u) => IsTable(Fold(t, u))
  BY FoldTable
<1> QED
  BY <1>1, <1>2 DEF Kept

LEMMA KeptCommutes ==
  ASSUME NEW m, NEW w, NEW c, NEW r, IsTable(m), IsTable(w), IsTable(c), IsTable(r)
  PROVE  Kept(Fold(m, c), w, EmptyTable, r) = Kept(m, w, c, r)
<1>1. Fold(Fold(m, c), w) = Fold(Fold(m, w), c)
  BY FoldAssociates, FoldCommutes
<1>2. IsTable(Fold(Fold(m, c), w))
  BY FoldTable
<1> QED
  BY <1>1, <1>2, FoldEmpty DEF Kept

LEMMA EverythingKept == Everything = Kept(minutes, writing, closing, Rows)
BY DEF Everything, Kept

LEMMA KeptTable ==
  ASSUME NEW m, NEW w, NEW c, NEW r, IsTable(m), IsTable(w), IsTable(c), IsTable(r)
  PROVE  IsTable(Kept(m, w, c, r))
BY FoldTable DEF Kept

LEMMA KeptSample ==
  ASSUME NEW m, NEW w, NEW c, NEW r, NEW s,
         IsTable(m), IsTable(w), IsTable(c), IsTable(r), IsTable(s)
  PROVE  Kept(m, w, c, Fold(r, s)) = Fold(Kept(m, w, c, r), s)
<1>1. IsTable(Fold(Fold(m, w), c))
  BY FoldTable
<1> QED
  BY <1>1, FoldAssociates DEF Kept

(* A crash: only the table is left of everything.                          *)
LEMMA CrashAccounted ==
  ASSUME NEW m, NEW w, NEW c, NEW r, NEW t, NEW l,
         IsTable(m), IsTable(w), IsTable(c), IsTable(r), IsTable(t),
         Accounts(Kept(m, w, c, r), t, l)
  PROVE  Accounts(m, t, l \union (DOMAIN r \union DOMAIN w \union DOMAIN c))
<1>1. IsTable(Fold(m, w)) /\ IsTable(Fold(Fold(m, w), c))
  BY FoldTable
<1>2. Accounts(Fold(Fold(m, w), c), t, l \union DOMAIN r)
  BY <1>1, DropAccounted DEF Kept
<1>3. Accounts(Fold(m, w), t, (l \union DOMAIN r) \union DOMAIN c)
  BY <1>1, <1>2, DropAccounted
<1>4. Accounts(m, t, ((l \union DOMAIN r) \union DOMAIN c) \union DOMAIN w)
  BY <1>1, <1>3, DropAccounted
<1>5. ((l \union DOMAIN r) \union DOMAIN c) \union DOMAIN w
      = l \union (DOMAIN r \union DOMAIN w \union DOMAIN c)
  OBVIOUS
<1> QED
  BY <1>4, <1>5

LEMMA InitExact == Init => Exact
<1> SUFFICES ASSUME Init PROVE Exact
  OBVIOUS
<1>1. Rows = EmptyTable
  BY RowsAt, AtEmpty DEF Init
<1>2. Everything = EmptyTable
  BY <1>1, EverythingKept, KeptEmpty, EmptyIsTable DEF Init
<1> QED
  BY <1>2, EmptyIsTable DEF Exact, Init

LEMMA ExactKept ==
  ASSUME TypeOK, Control, Exact, [Next]_vars PROVE Exact'
<1>1. /\ IsTable(minutes) /\ IsTable(writing) /\ IsTable(closing) /\ IsTable(taken)
      /\ IsTable(buckets) /\ IsTable(Rows)
      /\ pc \in {"wait", "flush", "map", "sample", "off"}
      /\ main \in {"run", "join", "flush", "closed", "down"}
  BY TypeParts, RowsKeyTable DEF Tables, Scalars, KeyTable
<1>2. Accounts(Kept(minutes, writing, closing, Rows), taken, lost)
  BY ExactAccounts, EverythingKept
<1>3. Exact' <=> Accounts(Kept(minutes', writing', closing', Rows'), taken', lost')
  BY DEF Exact, Everything, Accounts, Kept
<1>4. Rows' = At(buckets', bucketTs') /\ Rows = At(buckets, bucketTs)
  BY DEF Rows, At
<1>5. CASE UNCHANGED <<minutes, writing, closing, buckets, bucketTs, taken, lost>>
  BY <1>2, <1>3, <1>4, <1>5
<1>6. CASE Tick \/ (\E z \in Zones : EditZone(z)) \/ Camera \/ UNCHANGED vars
  BY <1>5, <1>6 DEF Tick, EditZone, Camera, Count, Heartbeat, WorkerEnds, vars, db, open
<1>7. CASE RefreshZoneMap \/ TickFails \/ Exit \/ Stop \/ ProcessStarts
  BY <1>5, <1>7 DEF RefreshZoneMap, TickFails, Exit, Stop, ProcessStarts, db, open
<1>8. CASE Wake
  <2>1. UNCHANGED <<minutes, closing, taken, lost>> /\ writing = EmptyTable /\ closing = EmptyTable
    BY <1>8, <1>1 DEF Wake, db, Control
  <2>2. CASE RolledOver
    <3>1. writing' = Rows /\ buckets' = EmptyTable
      BY <1>8, <2>2 DEF Wake
    <3>2. Rows' = EmptyTable
      BY <1>4, <3>1, AtEmpty
    <3> QED
      BY <1>1, <1>2, <1>3, <2>1, <3>1, <3>2, KeptEmpty
  <2>3. CASE ~RolledOver
    <3>1. writing' = writing /\ buckets' = buckets /\ bucketTs' = now
      BY <1>8, <2>3 DEF Wake
    <3>2. bucketTs # now => buckets = EmptyTable
      BY <2>3, TypeParts DEF RolledOver, Tables
    <3>3. Rows' = Rows
      BY <1>4, <3>1, <3>2, AtEmpty
    <3> QED
      BY <1>2, <1>3, <2>1, <3>1, <3>3
  <2> QED
    BY <2>2, <2>3
<1>9. CASE FlushCommits
  <2>1. /\ minutes' = Fold(minutes, writing) /\ writing' = EmptyTable
        /\ UNCHANGED <<closing, taken, lost, buckets>> /\ buckets = EmptyTable
    BY <1>9 DEF FlushCommits, Control
  <2>2. Rows' = Rows
    BY <1>4, <2>1, AtEmpty
  <2> QED
    BY <1>1, <1>2, <1>3, <2>1, <2>2, KeptEmpty
<1>10. CASE FlushFails
  <2>1. /\ UNCHANGED <<minutes, closing, taken, buckets, bucketTs>> /\ writing' = EmptyTable
        /\ buckets = EmptyTable /\ closing = EmptyTable /\ lost' = lost \cup DOMAIN writing
    BY <1>10 DEF FlushFails, Control, db, open
  <2>2. Rows' = EmptyTable /\ Rows = EmptyTable
    BY <1>4, <2>1, AtEmpty
  <2>3. Accounts(Fold(minutes, writing), taken, lost)
    <3>1. IsTable(Fold(minutes, writing))
      BY <1>1, FoldTable
    <3> QED
      BY <1>2, <2>1, <2>2, <3>1, FoldEmpty DEF Kept
  <2>4. Accounts(minutes, taken, lost \union DOMAIN writing)
    BY <1>1, <2>3, DropAccounted
  <2> QED
    BY <1>1, <1>3, <2>1, <2>2, <2>4, KeptEmpty
<1>11. CASE TakeSample
  <2>1. /\ UNCHANGED <<minutes, writing, closing, bucketTs, lost>>
        /\ buckets' = Fold(buckets, Samples) /\ taken' = Fold(taken, Sampled(at))
        /\ bucketTs = at
    BY <1>11 DEF TakeSample, db, Control, Sampled, At
  <2>2. IsTable(Samples) /\ IsTable(Sampled(at))
    BY SamplesTable, AtTable DEF Sampled
  <2>3. Rows' = Fold(Rows, Sampled(at))
    BY <1>1, <1>4, <2>1, <2>2, AtFold DEF Sampled
  <2>4. IsTable(Kept(minutes, writing, closing, Rows))
    BY <1>1, KeptTable
  <2>5. Accounts(Fold(Kept(minutes, writing, closing, Rows), Sampled(at)), Fold(taken, Sampled(at)), lost)
    BY <1>1, <1>2, <2>2, <2>4, SampleAccounted
  <2>6. Kept(minutes, writing, closing, Fold(Rows, Sampled(at)))
        = Fold(Kept(minutes, writing, closing, Rows), Sampled(at))
    BY <1>1, <2>2, KeptSample
  <2> QED
    BY <1>3, <2>1, <2>3, <2>5, <2>6
<1>12. CASE CloseFlush
  <2>1. /\ UNCHANGED <<minutes, writing, taken, lost>> /\ buckets' = EmptyTable
        /\ closing = EmptyTable /\ closing' = Rows
    BY <1>12 DEF CloseFlush, Control, db
  <2>2. Rows' = EmptyTable
    BY <1>4, <2>1, AtEmpty
  <2> QED
    BY <1>1, <1>2, <1>3, <2>1, <2>2, KeptEmpty
<1>13. CASE CloseCommits
  <2>1. /\ UNCHANGED <<writing, taken, lost, buckets, bucketTs>> /\ closing' = EmptyTable
        /\ minutes' = Fold(minutes, closing)
    BY <1>13 DEF CloseCommits, open
  <2>2. Rows' = Rows
    BY <1>4, <2>1
  <2> QED
    BY <1>1, <1>2, <1>3, <2>1, <2>2, KeptCommutes
<1>14. CASE ProcessEnds
  <2>1. /\ UNCHANGED <<minutes, taken>> /\ writing' = EmptyTable /\ closing' = EmptyTable
        /\ buckets' = EmptyTable /\ lost' = lost \cup Unwritten
    BY <1>14 DEF ProcessEnds, db
  <2>2. Rows' = EmptyTable
    BY <1>4, <2>1, AtEmpty
  <2>3. Accounts(minutes, taken, lost \union Unwritten)
    BY <1>1, <1>2, CrashAccounted DEF Unwritten
  <2> QED
    BY <1>1, <1>3, <2>1, <2>2, <2>3, KeptEmpty
<1> QED
  BY <1>6, <1>7, <1>8, <1>9, <1>10, <1>11, <1>12, <1>13, <1>14 DEF Next, Thread, Process

Inv == TypeOK /\ Control /\ Exact

LEMMA InitControl == Init => Control
BY EmptyIsTable DEF Init, Control

THEOREM InvariantEver == Spec => []Inv
<1>1. Init => Inv
  BY InitTypes, InitControl, InitExact DEF Inv
<1>2. Inv /\ [Next]_vars => Inv'
  BY TablesKept, ScalarsKept, ControlKept, ExactKept, TypeParts DEF Inv, TypeOK, Tables, Scalars, KeyTable, IsTable
<1> QED
  BY <1>1, <1>2, PTL DEF Spec

(* Through flushes, failed writes, stops, crashes and restarts a row never *)
(* holds a sample twice nor one of another minute, and only the keys of a  *)
(* failed write or a lost process miss some.                               *)
THEOREM ExactEver == Spec => []Exact
<1>1. Inv => Exact
  BY DEF Inv
<1> QED
  BY <1>1, InvariantEver, PTL

(* The variables of the sampler, its process and its tables keep their     *)
(* types: what is written is always a row of a space and a minute.         *)
THEOREM SamplerTypes == Spec => []TypeOK
<1>1. Inv => TypeOK
  BY DEF Inv
<1> QED
  BY <1>1, InvariantEver, PTL

(* A minute that was sampled is in the table, or known to have lost its    *)
(* write, before a later one is sampled and once the process is gone.      *)
THEOREM WrittenEver == Spec => []Written
<1>1. ASSUME Inv PROVE Written
  <2>1. TypeOK /\ Control /\ Exact /\ Tables
    BY <1>1, TypeParts DEF Inv
  <2>2. ASSUME NEW k \in DOMAIN taken, k \notin lost
        PROVE  \/ k \in DOMAIN minutes \/ k \in DOMAIN writing \/ k \in DOMAIN closing
               \/ k \in DOMAIN Rows
    <3>1. k \in DOMAIN Everything
      BY <2>1, <2>2 DEF Exact
    <3> QED
      BY <3>1 DEF Everything, Fold
  <2>3. DOMAIN EmptyTable = {}
    BY EmptyIsTable
  <2>4. CASE main = "down"
    <3>1. Rows = EmptyTable
      BY <2>1, <2>4, RowsAt, AtEmpty DEF Control
    <3> QED
      BY <2>1, <2>2, <2>3, <2>4, <3>1 DEF Written, Control
  <2>5. ASSUME pc = "sample", NEW k \in DOMAIN taken, k[2] < at, k \notin lost
        PROVE  k \in DOMAIN minutes
    <3>1. at \in Int
      BY <2>1, TypeParts DEF Scalars, Minutes
    <3>2. bucketTs = at /\ writing = EmptyTable /\ DOMAIN closing \subseteq Spaces \X {bucketTs}
      BY <2>1, <2>5 DEF Control
    <3>3. k \notin DOMAIN Rows /\ k \notin DOMAIN closing
      BY <2>5, <3>1, <3>2 DEF Rows
    <3> QED
      BY <2>2, <2>3, <2>5, <3>2, <3>3
  <2> QED
    BY <2>4, <2>5 DEF Written
<1> QED
  BY <1>1, InvariantEver, PTL

-----------------------------------------------------------------------------
(* The sampler implements the abstract series of minutes.                  *)

LEMMA MergeExtends == \A r, s \in Row : Series!Extends(Merge(r, s), r)
BY SMT DEF Row, Merge, Least, Greatest, Series!Extends

LEMMA SeriesFold ==
  /\ \A t, u : Series!Fold(t, u) = Fold(t, u)
  /\ Series!EmptyTable = EmptyTable
BY DEF Fold, Merge, Least, Greatest, EmptyTable, Series!Fold, Series!Merge, Series!Least,
       Series!Greatest, Series!EmptyTable

(* Any transaction that folds rows of one minute, no older than the        *)
(* newest, into the table is a step of the series: older minutes stay, the *)
(* rows of this one only grow.                                             *)
THEOREM WriteGrows ==
  ASSUME NEW t, NEW rows, IsTable(minutes), IsTable(rows), Series!Write(t, rows)
  PROVE  Series!Grows(t)
<1>1. /\ t >= Newest /\ Newest' = t
      /\ minutes' = Fold(minutes, rows)
      /\ DOMAIN rows \subseteq Spaces \X {t}
  BY SeriesFold DEF Series!Write
<1>2. DOMAIN minutes' = DOMAIN minutes \cup DOMAIN rows
  BY <1>1 DEF Fold
<1>3. ASSUME NEW k \in DOMAIN minutes'
      PROVE  IF k[2] = t
             THEN k \in DOMAIN minutes => Series!Extends(minutes'[k], minutes[k])
             ELSE k \in DOMAIN minutes /\ minutes'[k] = minutes[k]
  <2>1. CASE k \notin DOMAIN rows
    <3>1. k \in DOMAIN minutes /\ minutes'[k] = minutes[k]
      BY <1>1, <1>2, <1>3, <2>1 DEF Fold
    <3>2. minutes[k] \in Row
      BY <3>1 DEF IsTable
    <3>3. Series!Extends(minutes[k], minutes[k])
      BY <3>2 DEF Series!Extends, Row
    <3> QED
      BY <3>1, <3>3
  <2>2. CASE k \in DOMAIN rows
    <3>1. k[2] = t
      BY <1>1, <2>2
    <3>2. k \in DOMAIN minutes => minutes'[k] = Merge(minutes[k], rows[k])
      BY <1>1, <2>2, FoldAt
    <3>3. k \in DOMAIN minutes => Series!Extends(minutes'[k], minutes[k])
      BY <3>2, <2>2, MergeExtends DEF IsTable
    <3> QED
      BY <3>1, <3>3
  <2> QED
    BY <2>1, <2>2
<1> QED
  BY <1>1, <1>2, <1>3 DEF Series!Grows

(* No minute is ahead of the buckets, nor they of the tick, nor it of the  *)
(* clock.                                                                  *)
Ahead ==
  /\ at <= now
  /\ bucketTs # None => bucketTs <= at
  /\ \A k \in DOMAIN minutes : k[2] <= at /\ (bucketTs # None => k[2] <= bucketTs)

NewestOf(table) == IF table = EmptyTable THEN -1 ELSE Max({k[2] : k \in DOMAIN table})

LEMMA NewestAtMost ==
  ASSUME NEW table, KeyTable(table), NEW t \in Minutes, \A k \in DOMAIN table : k[2] <= t
  PROVE  /\ NewestOf(table) <= t /\ NewestOf(table) \in Int
         /\ (\E k \in DOMAIN table : k[2] = t) => NewestOf(table) = t
<1> DEFINE S == {k[2] : k \in DOMAIN table}
<1>1. CASE table = EmptyTable
  BY <1>1, EmptyIsTable, SamplerConstants DEF NewestOf, Minutes
<1>2. CASE table # EmptyTable
  <2>1. S \subseteq 0..MaxMinute /\ MaxMinute \in Nat
    BY SamplerConstants DEF KeyTable, Keys, Minutes
  <2>2. S # {}
    <3>1. \E k : k \in DOMAIN table
      BY <1>2, EmptyDomain DEF KeyTable
    <3> QED
      BY <3>1
  <2>3. Max(S) \in S /\ \A y \in S : y <= Max(S)
    <3> HIDE DEF S
    <3> QED
      BY <2>1, <2>2, MaxOfBounded
  <2>4. Max(S) <= t /\ Max(S) \in Int /\ t \in Int
    BY <2>1, <2>3 DEF Minutes
  <2>5. NewestOf(table) = Max(S)
    BY <1>2 DEF NewestOf
  <2>6. (\E k \in DOMAIN table : k[2] = t) => t <= Max(S)
    BY <2>3
  <2> HIDE DEF S
  <2> QED
    BY <2>4, <2>5, <2>6
<1> QED
  BY <1>1, <1>2

LEMMA FoldGrows ==
  ASSUME KeyTable(minutes), NEW rows, KeyTable(rows), NEW t, DOMAIN rows \subseteq Spaces \X {t},
         \A k \in DOMAIN minutes : k[2] \in Int /\ (DOMAIN rows # {} => k[2] <= t),
         minutes' = Fold(minutes, rows)
  PROVE  [Series!SeriesNext]_<<minutes, Newest>>
<1>1. Newest = NewestOf(minutes) /\ Newest' = NewestOf(minutes')
  BY DEF Newest, NewestOf
<1>2. CASE DOMAIN rows = {}
  <2>1. rows = EmptyTable
    BY <1>2, EmptyDomain DEF KeyTable
  <2>2. minutes' = minutes
    BY <2>1, FoldEmpty DEF KeyTable
  <2> QED
    BY <1>1, <2>2
<1>3. CASE DOMAIN rows # {}
  <2>1. t \in Minutes
    BY <1>3 DEF KeyTable, Keys
  <2>2. Newest <= t /\ Newest \in Int
    BY <1>1, <1>3, <2>1, NewestAtMost
  <2>3. DOMAIN minutes' = DOMAIN minutes \union DOMAIN rows /\ KeyTable(minutes')
    BY FoldKeyTable DEF Fold
  <2>4. Newest' = t
    <3>1. \A k \in DOMAIN minutes' : k[2] <= t
      BY <1>3, <2>1, <2>3 DEF Minutes
    <3>2. \E k \in DOMAIN minutes' : k[2] = t
      BY <1>3, <2>3
    <3> QED
      BY <1>1, <2>1, <2>3, <3>1, <3>2, NewestAtMost
  <2>5. Series!Write(t, rows)
    BY <2>1, <2>2, <2>4, SeriesFold DEF Series!Write, Minutes
  <2>6. Series!Grows(t)
    BY <2>5, WriteGrows DEF KeyTable
  <2> QED
    BY <2>1, <2>6 DEF Series!SeriesNext
<1> QED
  BY <1>2, <1>3

LEMMA StepAhead ==
  ASSUME Inv, Ahead, [Next]_vars
  PROVE  Ahead' /\ [Series!SeriesNext]_<<minutes, Newest>>
<1>1. /\ Tables /\ Control
      /\ now \in Int /\ at \in Int /\ (bucketTs # None => bucketTs \in Int)
      /\ pc \in {"wait", "flush", "map", "sample", "off"} /\ None \notin Int
      /\ \A k \in DOMAIN minutes : k[2] \in Int
  BY TypeParts, SamplerConstants DEF Inv, Scalars, Minutes, Tables, KeyTable, Keys
<1>2. minutes' = minutes => UNCHANGED <<minutes, Newest>>
  BY DEF Newest
<1> USE DEF Ahead
<1>3. CASE UNCHANGED <<now, at, bucketTs, minutes>>
  BY <1>2, <1>3
<1>4. CASE (\E z \in Zones : EditZone(z)) \/ Camera \/ UNCHANGED vars
  BY <1>3, <1>4 DEF EditZone, Camera, Count, Heartbeat, WorkerEnds, vars, clock, thread, open, db
<1>5. CASE FlushFails \/ RefreshZoneMap \/ TickFails \/ TakeSample \/ Exit
  BY <1>3, <1>5 DEF FlushFails, RefreshZoneMap, TickFails, TakeSample, Exit, clock, open, db
<1>6. CASE Stop \/ CloseFlush \/ ProcessStarts
  BY <1>3, <1>6 DEF Stop, CloseFlush, ProcessStarts, clock, thread, open, db
<1>7. CASE Tick
  BY <1>1, <1>2, <1>7 DEF Tick, thread, open, db
<1>8. CASE Wake
  <2>1. UNCHANGED <<now, minutes>> /\ at' = now /\ bucketTs' \in {bucketTs, now}
    BY <1>8 DEF Wake, db
  <2> QED
    BY <1>1, <1>2, <2>1
<1>9. CASE FlushCommits
  <2>1. minutes' = Fold(minutes, writing) /\ UNCHANGED <<now, at>> /\ bucketTs' = at
    BY <1>9 DEF FlushCommits, clock
  <2>2. DOMAIN minutes' = DOMAIN minutes \union DOMAIN writing
    BY <2>1 DEF Fold
  <2>3. \A k \in DOMAIN writing : k[2] = bucketTs /\ k[2] \in Int
    BY <1>1 DEF Tables, KeyTable, Keys, Minutes, Control
  <2>4. DOMAIN writing # {} => bucketTs # None
    BY <1>1, <2>3
  <2>5. \A k \in DOMAIN minutes' : k[2] <= at
    BY <1>1, <2>2, <2>3, <2>4
  <2>6. [Series!SeriesNext]_<<minutes, Newest>>
    BY <1>1, <2>1, <2>4, FoldGrows DEF Tables, Control
  <2> QED
    BY <1>1, <2>1, <2>5, <2>6
<1>10. CASE CloseCommits
  <2>1. minutes' = Fold(minutes, closing) /\ UNCHANGED <<now, at, bucketTs>>
    BY <1>10 DEF CloseCommits, clock, thread, open
  <2>2. DOMAIN minutes' = DOMAIN minutes \union DOMAIN closing
    BY <2>1 DEF Fold
  <2>3. \A k \in DOMAIN closing : k[2] = bucketTs /\ k[2] \in Int
    BY <1>1 DEF Tables, KeyTable, Keys, Minutes, Control
  <2>4. DOMAIN closing # {} => bucketTs # None
    BY <1>1, <2>3
  <2>5. \A k \in DOMAIN minutes' : k[2] <= at /\ (bucketTs # None => k[2] <= bucketTs)
    BY <1>1, <2>2, <2>3, <2>4
  <2>6. [Series!SeriesNext]_<<minutes, Newest>>
    BY <1>1, <2>1, <2>4, FoldGrows DEF Tables, Control
  <2> QED
    BY <1>1, <2>1, <2>5, <2>6
<1>11. CASE ProcessEnds
  BY <1>1, <1>2, <1>11 DEF ProcessEnds, clock, db
<1> QED
  BY <1>4, <1>5, <1>6, <1>7, <1>8, <1>9, <1>10, <1>11 DEF Next, Thread, Process

(* Whoever reads the table sees only its newest minute grow or a newer one *)
(* start, whatever fails, stops or restarts: every step of the sampler is  *)
(* a step of the abstract series, or none.                                 *)
THEOREM SamplerImplementsSeries == Spec => ImplementsSeries
<1>1. Init => Ahead /\ Series!SeriesInit
  BY EmptyIsTable, SeriesFold DEF Init, Ahead, Series!SeriesInit, Newest
<1>2. Inv /\ Ahead /\ [Next]_vars => Ahead' /\ [Series!SeriesNext]_<<minutes, Newest>>
  BY StepAhead
<1> QED
  BY <1>1, <1>2, InvariantEver, PTL DEF Spec, ImplementsSeries, Series!SeriesSpec
==============================================================================
