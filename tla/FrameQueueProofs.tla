-------------------------- MODULE FrameQueueProofs --------------------------
(***************************************************************************)
(* Proofs about the frame queue, for every set of consumers and capacity.  *)
(***************************************************************************)
EXTENDS FrameQueue, FiniteSetTheorems, TLAPS

(* What is known of the sequences the two ends of the deque produce.       *)
LEMMA SeqFacts ==
  ASSUME NEW s \in Seq(Nat)
  PROVE  /\ Len(s) \in Nat
         /\ (s = <<>>) <=> (Len(s) = 0)
         /\ s # <<>> => /\ Tail(s) \in Seq(Nat)
                        /\ Len(Tail(s)) = Len(s) - 1
                        /\ \A i \in 1..Len(Tail(s)) : Tail(s)[i] = s[i + 1]
                        /\ Head(s) = s[1] /\ Head(s) \in Nat
         /\ \A i \in 1..Len(s) : s[i] \in Nat
  OBVIOUS

LEMMA AppendFacts ==
  ASSUME NEW s \in Seq(Nat), NEW e \in Nat
  PROVE  /\ Append(s, e) \in Seq(Nat)
         /\ Len(Append(s, e)) = Len(s) + 1
         /\ \A i \in 1..Len(s) : Append(s, e)[i] = s[i]
         /\ Append(s, e)[Len(s) + 1] = e
  OBVIOUS

-----------------------------------------------------------------------------
(* The type invariant is inductive.                                        *)
LEMMA TypeStep == ASSUME TypeOK, [Next]_vars PROVE TypeOK'
<1> USE QueueAssumption
<1> USE DEF TypeOK
<1>1. CASE Put
  <2>1. (IF Full THEN Tail(buffer) ELSE buffer) \in Seq(Nat)
    BY SeqFacts DEF Full
  <2> QED
    BY <1>1, <2>1, AppendFacts DEF Put, Notify
<1>2. CASE Clear
  BY <1>2, SeqFacts DEF Clear
<1>3. ASSUME NEW c \in Consumers, Take(c) PROVE TypeOK'
  <2>0. buffer # <<>> /\ Len(buffer) \in Nat \ {0}
    BY <1>3, SeqFacts DEF Take
  <2>1. last' \in Nat /\ buffer' \in Seq(Nat) /\ dropped' \in Nat
    <3>1. CASE TakeOldest
      BY <2>0, <3>1, SeqFacts DEF TakeOldest
    <3>2. CASE TakeNewest
      BY <2>0, <3>2, SeqFacts DEF TakeNewest
    <3> QED
      BY <1>3, <3>1, <3>2 DEF Take
  <2> QED
    BY <1>3, <2>1 DEF Take, Leave
<1>4. ASSUME NEW c \in Consumers, Consume(c) PROVE TypeOK'
  <2>1. CASE CallAndTake(c) \/ WakeAndTake(c)
    BY <2>1, <1>3 DEF CallAndTake, WakeAndTake
  <2>2. CASE CallAndWait(c)
    BY <2>2 DEF CallAndWait
  <2>3. CASE Expire(c)
    BY <2>3 DEF Expire
  <2>4. CASE WakeAndGiveUp(c)
    BY <2>4 DEF WakeAndGiveUp, Leave
  <2>5. CASE WakeAndWait(c)
    BY <2>5 DEF WakeAndWait, Resumable
  <2> QED
    BY <1>4, <2>1, <2>2, <2>3, <2>4, <2>5 DEF Consume, Wake
<1>5. CASE UNCHANGED vars
  BY <1>5 DEF vars
<1> QED
  BY <1>1, <1>2, <1>4, <1>5 DEF Next

(* The type invariant: the waiter list only holds blocked consumers, which *)
(* is what lets notify() spend itself on a thread that will look again.    *)
THEOREM TypeCorrect == Spec => []TypeOK
<1>1. Init => TypeOK
  BY DEF Init, TypeOK
<1>2. TypeOK /\ [Next]_vars => TypeOK'
  BY TypeStep
<1> QED
  BY <1>1, <1>2, PTL DEF Spec

-----------------------------------------------------------------------------
(* Accounted and Ordered hold of the packets whatever the consumers do.    *)
PacketInv == TypeOK /\ Accounted /\ Ordered

LEMMA TakePreservesPackets ==
  ASSUME PacketInv, NEW c \in Consumers, Take(c)
  PROVE  Accounted' /\ Ordered'
<1> USE QueueAssumption DEF PacketInv, TypeOK, Accounted, Ordered
<1>1. CASE c \in Drainers
  <2>1. /\ buffer' = <<>> /\ last' = buffer[Len(buffer)]
        /\ dropped' = dropped + (Len(buffer) - 1)
        /\ buffer # <<>> /\ got' = got + 1
        /\ produced' = produced /\ cleared' = cleared
    BY <1>1 DEF Take, TakeNewest
  <2>2. Len(buffer) \in Nat \ {0} /\ Len(buffer') = 0
    BY <2>1, SeqFacts
  <2>3. last' = produced
    BY <2>1, <2>2
  <2> QED
    BY <2>1, <2>2, <2>3
<1>2. CASE c \notin Drainers
  <2>1. /\ buffer' = Tail(buffer) /\ last' = Head(buffer) /\ dropped' = dropped
        /\ buffer # <<>> /\ got' = got + 1
        /\ produced' = produced /\ cleared' = cleared
    BY <1>2 DEF Take, TakeOldest
  <2>2. Len(buffer') = Len(buffer) - 1 /\ Len(buffer) >= 1
    BY <2>1, SeqFacts
  <2>3. last' = produced - Len(buffer) + 1
    BY <2>1, <2>2, SeqFacts
  <2>4. \A i \in 1..Len(buffer') : buffer'[i] = buffer[i + 1]
    BY <2>1, SeqFacts
  <2> QED
    BY <2>1, <2>2, <2>3, <2>4, SeqFacts
<1> QED
  BY <1>1, <1>2

LEMMA PutPreservesPackets ==
  ASSUME PacketInv, Put
  PROVE  Accounted' /\ Ordered'
<1> USE QueueAssumption DEF PacketInv, TypeOK, Accounted, Ordered
<1> DEFINE kept == IF Full THEN Tail(buffer) ELSE buffer
<1>1. /\ produced' = produced + 1 /\ buffer' = Append(kept, produced + 1)
      /\ dropped' = IF Full THEN dropped + 1 ELSE dropped
      /\ got' = got /\ cleared' = cleared /\ last' = last
  BY DEF Put
<1>2. /\ kept \in Seq(Nat) /\ Len(kept) < MaxSize
      /\ Len(kept) = IF Full THEN Len(buffer) - 1 ELSE Len(buffer)
      /\ Len(kept) \in Nat /\ Len(buffer) \in Nat
      /\ Full => kept = Tail(buffer) /\ buffer # <<>>
      /\ ~Full => kept = buffer
  BY SeqFacts DEF Full
<1> HIDE DEF kept
<1>3. \A i \in 1..Len(kept) : kept[i] = produced - Len(kept) + i
  <2>1. \A j \in 1..Len(buffer) : buffer[j] = produced - Len(buffer) + j
    OBVIOUS
  <2>2. CASE ~Full
    BY <1>2, <2>1, <2>2
  <2>3. CASE Full
    <3>1. \A i \in 1..Len(kept) : kept[i] = buffer[i + 1]
      BY <1>2, <2>3, SeqFacts
    <3>2. Len(kept) = Len(buffer) - 1 /\ Len(buffer) \in Nat /\ Len(kept) \in Nat
      BY <1>2, <2>3
    <3>3. ASSUME NEW i \in 1..Len(kept)
          PROVE  kept[i] = produced - Len(kept) + i
      <4>1. i + 1 \in 1..Len(buffer) /\ i \in Nat
        BY <3>2
      <4>2. kept[i] = produced - Len(buffer) + (i + 1)
        BY <2>1, <3>1, <4>1
      <4>3. produced \in Nat
        OBVIOUS
      <4> HIDE DEF PacketInv, TypeOK, Accounted, Ordered
      <4> QED
        BY <3>2, <4>1, <4>2, <4>3
    <3> QED
      BY <3>3
  <2> QED
    BY <2>2, <2>3
<1>4. /\ Len(buffer') = Len(kept) + 1
      /\ \A i \in 1..Len(kept) : buffer'[i] = kept[i]
      /\ buffer'[Len(kept) + 1] = produced + 1
  BY <1>1, <1>2, AppendFacts
<1>5. Accounted'
  <2>1. /\ produced \in Nat /\ got \in Nat /\ dropped \in Nat /\ cleared \in Nat
        /\ Len(buffer) \in Nat
        /\ produced = Len(buffer) + got + dropped + cleared
    BY <1>2
  <2>2. produced' = produced + 1 /\ got' = got /\ cleared' = cleared
    BY <1>1
  <2>3. CASE Full
    <3>1. dropped' = dropped + 1 /\ Len(buffer') = Len(buffer)
      BY <1>1, <1>2, <1>4, <2>3
    <3> HIDE QueueAssumption DEF PacketInv, TypeOK, Ordered
    <3> QED
      BY <2>1, <2>2, <3>1
  <2>4. CASE ~Full
    <3>1. dropped' = dropped /\ Len(buffer') = Len(buffer) + 1
      BY <1>1, <1>2, <1>4, <2>4
    <3> HIDE QueueAssumption DEF PacketInv, TypeOK, Ordered
    <3> QED
      BY <2>1, <2>2, <3>1
  <2> QED
    BY <2>3, <2>4
<1>6. Len(buffer') <= MaxSize /\ last' <= produced' - Len(buffer')
  BY <1>1, <1>2, <1>4, SeqFacts
<1>7. \A i \in 1..Len(buffer') : buffer'[i] = produced' - Len(buffer') + i
  <2>1. Len(kept) \in Nat
    BY <1>2, SeqFacts
  <2> QED
    BY <1>1, <1>3, <1>4, <2>1
<1> QED
  BY <1>5, <1>6, <1>7

(* Every packet is accounted for, and consumers only ever see newer ones.  *)
THEOREM PacketsSafe == Spec => [](Accounted /\ Ordered)
<1> USE QueueAssumption
<1>1. Init => Accounted /\ Ordered
  BY DEF Init, Accounted, Ordered
<1>2. PacketInv /\ [Next]_vars => Accounted' /\ Ordered'
  <2> SUFFICES ASSUME PacketInv, [Next]_vars PROVE Accounted' /\ Ordered'
    OBVIOUS
  <2>1. CASE Put
    BY <2>1, PutPreservesPackets
  <2>2. CASE Clear
    BY <2>2, SeqFacts DEF Clear, PacketInv, TypeOK, Accounted, Ordered
  <2>3. CASE UNCHANGED <<buffer, dropped, produced, got, cleared, last>>
    BY <2>3 DEF PacketInv, Accounted, Ordered
  <2>4. ASSUME NEW c \in Consumers, Consume(c) PROVE Accounted' /\ Ordered'
    <3>1. CASE CallAndTake(c) \/ WakeAndTake(c)
      BY <3>1, TakePreservesPackets DEF CallAndTake, WakeAndTake
    <3>2. CASE ~(CallAndTake(c) \/ WakeAndTake(c))
      BY <2>3, <2>4, <3>2
      DEF Consume, Wake, CallAndWait, Expire, WakeAndGiveUp, WakeAndWait
    <3> QED
      BY <3>1, <3>2
  <2> QED
    BY <2>1, <2>2, <2>3, <2>4 DEF Next, vars
<1> QED
  BY <1>1, <1>2, TypeCorrect, PTL DEF Spec, PacketInv

-----------------------------------------------------------------------------
(* The consumers on their way to the lock.                                 *)
Awake == blocked \ waiters

LEMMA AwakeFinite ==
  ASSUME TypeOK PROVE IsFiniteSet(Awake) /\ Cardinality(Awake) \in Nat
<1>1. IsFiniteSet(Awake)
  BY QueueAssumption, FS_Subset DEF TypeOK, Awake
<1> QED
  BY <1>1, FS_CardinalityType

(* A packet shortens the queue by one at least when it is taken, and a put *)
(* lengthens it by one at most.                                            *)
LEMMA TakeShortens ==
  ASSUME TypeOK, NEW c \in Consumers, Take(c)
  PROVE  Len(buffer') \in Nat /\ Len(buffer') <= Len(buffer) - 1
<1>1. Len(buffer) \in Nat \ {0}
  BY SeqFacts DEF Take, TypeOK
<1>2. CASE TakeOldest
  BY <1>1, <1>2, SeqFacts DEF TakeOldest, TypeOK, Take
<1>3. CASE TakeNewest
  BY <1>1, <1>3, SeqFacts DEF TakeNewest
<1> QED
  BY <1>2, <1>3 DEF Take

LEMMA PutLengthens ==
  ASSUME TypeOK, Put
  PROVE  Len(buffer') \in Nat /\ Len(buffer') <= Len(buffer) + 1
<1>1. Len(buffer) \in Nat
  BY SeqFacts DEF TypeOK
<1>2. CASE Full
  <2>1. buffer # <<>>
    BY <1>2, QueueAssumption, SeqFacts DEF Full, TypeOK
  <2> QED
    BY <1>1, <1>2, <2>1, SeqFacts, AppendFacts DEF Put, TypeOK
<1>3. CASE ~Full
  BY <1>1, <1>3, AppendFacts DEF Put, TypeOK
<1> QED
  BY <1>2, <1>3

LEMMA WakeupStep ==
  ASSUME TypeOK, NoLostWakeup, [Next]_vars
  PROVE  NoLostWakeup'
<1> USE DEF NoLostWakeup
<1>len. Len(buffer) \in Nat
  BY SeqFacts DEF TypeOK
<1>fin. IsFiniteSet(Awake) /\ Cardinality(Awake) \in Nat
  BY AwakeFinite
<1>old. (waiters \ expired) # {} => Len(buffer) <= Cardinality(Awake)
  BY DEF Awake
<1>goal. SUFFICES ASSUME (waiters' \ expired') # {}
                  PROVE  Len(buffer') <= Cardinality(Awake')
  BY DEF Awake
<1>tok. TypeOK'
  BY TypeStep
<1>fin2. IsFiniteSet(Awake') /\ Cardinality(Awake') \in Nat
  <2>1. IsFiniteSet(Awake')
    BY <1>tok, QueueAssumption, FS_Subset DEF TypeOK, Awake
  <2> QED
    BY <2>1, FS_CardinalityType
<1>empty. ASSUME buffer' = <<>> PROVE Len(buffer') <= Cardinality(Awake')
  BY <1>empty, <1>fin2
<1>1. CASE Put
  <2>1. PICK c \in waiters : waiters' = waiters \ {c}
    BY <1>1, <1>goal DEF Put, Notify
  <2>2. Awake' = Awake \union {c} /\ c \notin Awake
    BY <1>1, <2>1 DEF Put, Awake, TypeOK
  <2>3. Cardinality(Awake') = Cardinality(Awake) + 1
    BY <1>fin, <2>2, FS_AddElement
  <2>4. (waiters \ expired) # {}
    BY <1>1, <1>goal, <2>1 DEF Put
  <2> QED
    BY <1>1, <1>len, <1>fin, <1>old, <2>3, <2>4, PutLengthens
<1>2. CASE Clear
  BY <1>2, <1>empty DEF Clear
<1>3. ASSUME NEW c \in Consumers, CallAndTake(c)
      PROVE  Len(buffer') <= Cardinality(Awake')
  <2>1. waiters' = waiters /\ expired' = expired /\ Awake' = Awake
    BY <1>3 DEF CallAndTake, Take, Leave, Awake, TypeOK
  <2> QED
    BY <1>3, <1>len, <1>fin, <1>old, <1>goal, <2>1, TakeShortens DEF CallAndTake
<1>4. ASSUME NEW c \in Consumers, WakeAndTake(c)
      PROVE  Len(buffer') <= Cardinality(Awake')
  <2>1. Len(buffer') \in Nat /\ Len(buffer') <= Len(buffer) - 1
    BY <1>4, TakeShortens DEF WakeAndTake
  <2>2. (waiters \ expired) # {}
    BY <1>4, <1>goal DEF WakeAndTake, Take, Leave
  <2>3. CASE c \in waiters
    <3>1. Awake' = Awake
      BY <1>4, <2>3 DEF WakeAndTake, Take, Leave, Awake
    <3> QED
      BY <1>len, <1>fin, <1>old, <2>1, <2>2, <3>1
  <2>4. CASE c \notin waiters
    <3>1. Awake' = Awake \ {c} /\ c \in Awake
      BY <1>4, <2>4 DEF WakeAndTake, Resumable, Take, Leave, Awake
    <3>2. Cardinality(Awake') = Cardinality(Awake) - 1
      BY <1>fin, <3>1, FS_RemoveElement
    <3> QED
      BY <1>len, <1>fin, <1>old, <2>1, <2>2, <3>2
  <2> QED
    BY <2>3, <2>4
<1>5. ASSUME NEW c \in Consumers, CallAndWait(c) \/ WakeAndGiveUp(c) \/ WakeAndWait(c)
      PROVE  Len(buffer') <= Cardinality(Awake')
  BY <1>5, <1>empty DEF CallAndWait, WakeAndGiveUp, WakeAndWait
<1>6. ASSUME NEW c \in Consumers, Expire(c)
      PROVE  Len(buffer') <= Cardinality(Awake')
  <2>1. (waiters \ expired) # {} /\ Awake' = Awake /\ buffer' = buffer
    BY <1>6, <1>goal DEF Expire, Awake
  <2> QED
    BY <1>old, <2>1
<1>7. CASE UNCHANGED vars
  BY <1>7, <1>old, <1>goal DEF vars, Awake
<1> QED
  BY <1>1, <1>2, <1>3, <1>4, <1>5, <1>6, <1>7 DEF Next, Consume, Wake

(* No consumer sleeps beside a packet nobody is coming for.                *)
THEOREM NoWakeupLost == Spec => []NoLostWakeup
<1>1. Init => NoLostWakeup
  BY DEF Init, NoLostWakeup
<1>2. TypeOK /\ NoLostWakeup /\ [Next]_vars => NoLostWakeup'
  BY WakeupStep
<1> QED
  BY <1>1, <1>2, TypeCorrect, PTL DEF Spec

-----------------------------------------------------------------------------
(* Refinement: the queue is a stream that only ever gets newer.            *)
InBuffer == {buffer[i] : i \in 1..Len(buffer)}

(* The buffer is the run of numbers that ends with the newest packet.      *)
LEMMA BufferIsRun ==
  PacketInv => /\ InBuffer = (produced - Len(buffer) + 1)..produced
               /\ Len(buffer) \in Nat /\ Len(buffer) <= MaxSize
               /\ produced \in Nat /\ last \in Nat
               /\ last <= produced - Len(buffer)
<1> SUFFICES ASSUME PacketInv
             PROVE  /\ InBuffer = (produced - Len(buffer) + 1)..produced
                    /\ Len(buffer) \in Nat /\ Len(buffer) <= MaxSize
                    /\ produced \in Nat /\ last \in Nat
                    /\ last <= produced - Len(buffer)
  OBVIOUS
<1>1. /\ Len(buffer) \in Nat /\ produced \in Nat /\ last \in Nat
      /\ Len(buffer) <= MaxSize /\ last <= produced - Len(buffer)
      /\ \A i \in 1..Len(buffer) : buffer[i] = produced - Len(buffer) + i
  BY SeqFacts DEF PacketInv, TypeOK, Ordered
<1>2. ASSUME NEW q \in InBuffer
      PROVE  q \in (produced - Len(buffer) + 1)..produced
  BY <1>1 DEF InBuffer
<1>3. ASSUME NEW q \in (produced - Len(buffer) + 1)..produced
      PROVE  q \in InBuffer
  <2>1. q - (produced - Len(buffer)) \in 1..Len(buffer)
    BY <1>1
  <2>2. buffer[q - (produced - Len(buffer))] = q
    BY <1>1, <2>1
  <2> QED
    BY <2>1, <2>2 DEF InBuffer
<1> QED
  BY <1>1, <1>2, <1>3

LEMMA PutSends ==
  ASSUME PacketInv, PacketInv', Put
  PROVE  Stream!Send
<1>1. /\ InBuffer = (produced - Len(buffer) + 1)..produced
      /\ Len(buffer) \in Nat /\ produced \in Nat
  BY BufferIsRun
<1>2. /\ InBuffer' = (produced' - Len(buffer') + 1)..produced'
      /\ Len(buffer') \in Nat /\ Len(buffer') <= MaxSize
  <2>1. PacketInv' => (/\ InBuffer = (produced - Len(buffer) + 1)..produced
                       /\ Len(buffer) \in Nat /\ Len(buffer) <= MaxSize
                       /\ produced \in Nat /\ last \in Nat
                       /\ last <= produced - Len(buffer))'
    BY BufferIsRun, PTL
  <2> QED
    BY <2>1
<1>3. produced' = produced + 1 /\ last' = last
  BY DEF Put
<1>4. Len(buffer') <= Len(buffer) + 1
  BY PutLengthens DEF PacketInv
<1>5. Len(buffer') >= 1
  <2>1. produced \in Nat /\ IF Full THEN Tail(buffer) \in Seq(Nat) ELSE buffer \in Seq(Nat)
    BY QueueAssumption, SeqFacts DEF PacketInv, TypeOK, Full
  <2>2. (IF Full THEN Tail(buffer) ELSE buffer) \in Seq(Nat)
    BY <2>1
  <2> QED
    BY <2>1, <2>2, SeqFacts, AppendFacts DEF Put
<1>6. \E kept \in SUBSET InBuffer : InBuffer' = kept \union {produced + 1}
  <2> DEFINE kept == (produced' - Len(buffer') + 1)..produced
  <2>1. kept \subseteq InBuffer
    BY <1>1, <1>2, <1>3, <1>4
  <2>2. InBuffer' = kept \union {produced + 1}
    BY <1>1, <1>2, <1>3, <1>5
  <2> QED
    BY <2>1, <2>2
<1>7. \A p \in InBuffer' : produced + 1 < p + MaxSize
  BY <1>1, <1>2, <1>3, QueueAssumption
<1> QED
  BY <1>3, <1>6, <1>7 DEF Stream!Send, InBuffer

LEMMA TakeReceives ==
  ASSUME PacketInv, PacketInv', NEW c \in Consumers, Take(c)
  PROVE  \E p \in InBuffer : Stream!Receive(p)
<1>1. /\ InBuffer = (produced - Len(buffer) + 1)..produced
      /\ Len(buffer) \in Nat /\ produced \in Nat /\ last \in Nat
      /\ last <= produced - Len(buffer)
  BY BufferIsRun
<1>2. /\ InBuffer' = (produced' - Len(buffer') + 1)..produced'
      /\ Len(buffer') \in Nat /\ last' \in Nat
      /\ last' <= produced' - Len(buffer')
  <2>1. PacketInv' => (/\ InBuffer = (produced - Len(buffer) + 1)..produced
                       /\ Len(buffer) \in Nat /\ Len(buffer) <= MaxSize
                       /\ produced \in Nat /\ last \in Nat
                       /\ last <= produced - Len(buffer))'
    BY BufferIsRun, PTL
  <2> QED
    BY <2>1
<1>3. produced' = produced
  BY DEF Take
<1>4. Len(buffer') <= Len(buffer) - 1
  BY TakeShortens DEF PacketInv
<1>5. last' \in InBuffer
  <2>1. 1 \in 1..Len(buffer) /\ Len(buffer) \in 1..Len(buffer) /\ Head(buffer) = buffer[1]
    BY <1>1, <1>2, <1>4, SeqFacts DEF PacketInv, TypeOK, Take
  <2> QED
    BY <2>1 DEF Take, TakeOldest, TakeNewest, InBuffer
<1>6. last' > last
  BY <1>1, <1>5
<1>7. InBuffer' \subseteq {q \in InBuffer : q > last'}
  BY <1>1, <1>2, <1>3, <1>4
<1> QED
  BY <1>3, <1>5, <1>6, <1>7 DEF Stream!Receive, InBuffer

(* For any capacity and any consumers, what the queue does is what the     *)
(* abstract stream allows: bounded, newest kept, nothing older or twice.   *)
THEOREM QueueImplementsStream == Spec => ImplementsStream
<1>1. Init => Stream!Init
  BY DEF Init, Stream!Init
<1>2. PacketInv /\ PacketInv' /\ [Next]_vars => [Stream!Next]_(Stream!streamVars)
  <2> SUFFICES ASSUME PacketInv, PacketInv', [Next]_vars
               PROVE  Stream!Next \/ UNCHANGED <<buffer, produced, last>>
    BY DEF Stream!streamVars
  <2>1. CASE Put
    BY <2>1, PutSends DEF Stream!Next
  <2>2. CASE Clear
    <3>1. {buffer[i] : i \in 1..Len(buffer)}' = {}
      BY <2>2 DEF Clear
    <3> QED
      BY <2>2, <3>1 DEF Clear, Stream!Next, Stream!Discard
  <2>3. ASSUME NEW c \in Consumers, Take(c) PROVE Stream!Next
    BY <2>3, TakeReceives DEF Stream!Next, InBuffer
  <2>4. ASSUME NEW c \in Consumers, Consume(c)
        PROVE  Stream!Next \/ UNCHANGED <<buffer, produced, last>>
    BY <2>3, <2>4 DEF Consume, Wake, CallAndTake, WakeAndTake, CallAndWait,
       Expire, WakeAndGiveUp, WakeAndWait
  <2>5. CASE UNCHANGED vars
    BY <2>5 DEF vars
  <2> QED
    BY <2>1, <2>2, <2>4, <2>5 DEF Next
<1> QED
  BY <1>1, <1>2, TypeCorrect, PacketsSafe, PTL
  DEF Spec, Stream!Spec, ImplementsStream, PacketInv

=============================================================================
