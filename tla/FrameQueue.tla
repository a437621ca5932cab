----------------------------- MODULE FrameQueue -----------------------------
(***************************************************************************)
(* BoundedFrameQueue (app/ingestion/frame_queue.py): a deque under one     *)
(* threading.Condition, filled by a capture thread that never blocks and   *)
(* emptied by consumers that block in get() or get_latest().               *)
(*                                                                         *)
(* The condition variable is modelled as CPython implements it: a consumer *)
(* that finds the deque empty releases the lock and joins the waiter list, *)
(* notify() takes ONE consumer off that list, and the consumer goes on     *)
(* only once it holds the lock again, when another consumer may have been  *)
(* faster. A deadline can pass while a consumer is still on the list, and  *)
(* the notify() that then picks it is spent on a consumer that would have  *)
(* woken anyway.                                                           *)
(***************************************************************************)
EXTENDS Naturals, Sequences, FiniteSets

CONSTANTS
  Consumers,    \* the threads that call get() or get_latest()
  Drainers,     \* those of them that call get_latest()
  Timed,        \* those of them that pass a finite timeout
  MaxSize,      \* BoundedFrameQueue(maxsize)
  MaxPackets    \* bound of the model: frames the producer ever puts

ASSUME QueueAssumption ==
  /\ IsFiniteSet(Consumers)
  /\ Drainers \subseteq Consumers
  /\ Timed \subseteq Consumers
  /\ MaxSize \in Nat \ {0}
  /\ MaxPackets \in Nat

VARIABLES
  buffer,       \* self._buffer: packets by number, oldest first
  dropped,      \* self._dropped
  blocked,      \* consumers inside Condition.wait_for
  waiters,      \* those of them still on the condition's waiter list
  expired,      \* those of them whose deadline has passed
  produced,     \* history: packets put so far
  got,          \* history: packets returned so far
  cleared,      \* history: packets thrown away by clear()
  last          \* history: the packet returned last, 0 before the first

vars == <<buffer, dropped, blocked, waiters, expired,
          produced, got, cleared, last>>

Init ==
  /\ buffer = <<>>
  /\ dropped = 0
  /\ blocked = {} /\ waiters = {} /\ expired = {}
  /\ produced = 0 /\ got = 0 /\ cleared = 0 /\ last = 0

-----------------------------------------------------------------------------
(* The critical sections.                                                  *)

\* Mutant: wake a consumer only when the queue was empty.
Notify_WhenEmpty ==
  \/ (waiters = {} \/ buffer # <<>>) /\ UNCHANGED waiters
  \/ buffer = <<>> /\ \E c \in waiters : waiters' = waiters \ {c}

\* Mutant: put() forgets to notify.
Notify_Never == UNCHANGED waiters

(* Condition.notify(): take one consumer off the list, if there is one.    *)
Notify ==
  \/ waiters = {} /\ UNCHANGED waiters
  \/ \E c \in waiters : waiters' = waiters \ {c}

Full == Len(buffer) >= MaxSize

\* Mutant: a full queue turns the new packet away instead of the oldest.
Put_DropNewest ==
  /\ produced < MaxPackets
  /\ produced' = produced + 1
  /\ buffer' = IF Full THEN buffer ELSE Append(buffer, produced + 1)
  /\ dropped' = IF Full THEN dropped + 1 ELSE dropped
  /\ Notify
  /\ UNCHANGED <<blocked, expired, got, cleared, last>>

Put ==
  /\ produced < MaxPackets
  /\ produced' = produced + 1
  /\ buffer' = Append(IF Full THEN Tail(buffer) ELSE buffer, produced + 1)
  /\ dropped' = IF Full THEN dropped + 1 ELSE dropped
  /\ Notify
  /\ UNCHANGED <<blocked, expired, got, cleared, last>>

(* The consumer leaves wait_for, with or without a packet.                 *)
Leave(c) ==
  /\ blocked' = blocked \ {c}
  /\ waiters' = waiters \ {c}
  /\ expired' = expired \ {c}

(* get(): popleft().                                                       *)
TakeOldest ==
  /\ last' = Head(buffer)
  /\ buffer' = Tail(buffer)
  /\ UNCHANGED dropped

\* Mutant: the skipped packets are not counted.
TakeNewest_Uncounted ==
  /\ last' = buffer[Len(buffer)]
  /\ buffer' = <<>>
  /\ UNCHANGED dropped

(* get_latest(): the newest packet; the skipped ones count as drops.       *)
TakeNewest ==
  /\ last' = buffer[Len(buffer)]
  /\ buffer' = <<>>
  /\ dropped' = dropped + (Len(buffer) - 1)

Take(c) ==
  /\ buffer # <<>>
  /\ got' = got + 1
  /\ \/ c \in Drainers /\ TakeNewest
     \/ c \notin Drainers /\ TakeOldest
  /\ Leave(c)
  /\ UNCHANGED <<produced, cleared>>

(* get() or get_latest() finds a packet at once, or starts to wait.        *)
CallAndTake(c) == c \notin blocked /\ Take(c)

CallAndWait(c) ==
  /\ c \notin blocked
  /\ buffer = <<>>
  /\ blocked' = blocked \union {c}
  /\ waiters' = waiters \union {c}
  /\ UNCHANGED <<buffer, dropped, expired, produced, got, cleared, last>>

(* The deadline of a waiting consumer passes.                              *)
Expire(c) ==
  /\ c \in blocked \intersect Timed
  /\ expired' = expired \union {c}
  /\ UNCHANGED <<buffer, dropped, blocked, waiters, produced, got, cleared, last>>

(* A consumer that was notified, or whose deadline passed, has the lock    *)
(* again and re-evaluates the predicate of wait_for.                       *)
Resumable(c) == c \in blocked /\ (c \notin waiters \/ c \in expired)

WakeAndTake(c) == Resumable(c) /\ Take(c)

WakeAndGiveUp(c) ==
  /\ Resumable(c) /\ c \in expired
  /\ buffer = <<>>
  /\ Leave(c)
  /\ UNCHANGED <<buffer, dropped, produced, got, cleared, last>>

WakeAndWait(c) ==
  /\ Resumable(c) /\ c \notin expired
  /\ buffer = <<>>
  /\ waiters' = waiters \union {c}
  /\ UNCHANGED <<buffer, dropped, blocked, expired, produced, got, cleared, last>>

Wake(c) == WakeAndTake(c) \/ WakeAndGiveUp(c) \/ WakeAndWait(c)

Clear ==
  /\ cleared' = cleared + Len(buffer)
  /\ buffer' = <<>>
  /\ UNCHANGED <<dropped, blocked, waiters, expired, produced, got, last>>

Consume(c) == CallAndTake(c) \/ CallAndWait(c) \/ Expire(c) \/ Wake(c)

Next == Put \/ Clear \/ \E c \in Consumers : Consume(c)

Spec == Init /\ [][Next]_vars

(* A runnable thread runs: the operating system schedules every consumer   *)
(* that can take the lock. Nothing is assumed of the producer, of clear(), *)
(* of deadlines or of consumers that have not called yet.                  *)
Fairness == \A c \in Consumers : WF_vars(Wake(c))

FairSpec == Spec /\ Fairness

-----------------------------------------------------------------------------
TypeOK ==
  /\ buffer \in Seq(Nat)
  /\ dropped \in Nat /\ produced \in Nat /\ got \in Nat
  /\ cleared \in Nat /\ last \in Nat
  /\ blocked \subseteq Consumers
  /\ waiters \subseteq blocked
  /\ expired \subseteq blocked

(* Every packet is accounted for: it waits, was returned, was counted as   *)
(* a drop, or was cleared; no path loses one silently or counts one twice. *)
Accounted == produced = Len(buffer) + got + dropped + cleared

(* The buffer is the newest packets, without a gap and in order, and all   *)
(* of them are newer than what any consumer has seen ("packets returned    *)
(* are strictly newer over time", frame_queue.py:115).                     *)
Ordered ==
  /\ Len(buffer) <= MaxSize
  /\ last <= produced - Len(buffer)
  /\ \A i \in 1..Len(buffer) : buffer[i] = produced - Len(buffer) + i

(* No lost wakeup: while a consumer sleeps with no deadline behind it, so  *)
(* many others are on their way to the lock that each waiting packet has   *)
(* one. A put() that notified only on an empty queue would break this.     *)
NoLostWakeup ==
  (waiters \ expired) # {} => Len(buffer) <= Cardinality(blocked \ waiters)

(* The newest frame is never the one given up while packets wait.          *)
Stream == INSTANCE LossyStream WITH
  Depth <- MaxSize, sent <- produced, received <- last,
  waiting <- {buffer[i] : i \in 1..Len(buffer)}

(* The queue implements the stream a consumer is promised.                 *)
ImplementsStream == Stream!Spec

(* A consumer blocked in get() is not left asleep beside a packet: it      *)
(* returns, unless others (or clear()) empty the queue first.              *)
Delivered ==
  \A c \in Consumers :
    (c \in blocked /\ buffer # <<>>) ~> (c \notin blocked \/ buffer = <<>>)
=============================================================================
