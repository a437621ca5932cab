--------------------------- MODULE DeliveryProofs ---------------------------
(***************************************************************************)
(* Proofs about one process around its event bus, for every set of camera  *)
(* workers, clients, areas and capacity: no crossing is written twice, out *)
(* of order or lost by a stop of the projector, and a client is sent what  *)
(* is newest, in order. All of it rests on the place an event is at: still *)
(* to be handed over by its publish, waiting in a queue, in a thread's     *)
(* hands, or done.                                                         *)
(***************************************************************************)
EXTENDS EventDelivery, SequenceTheorems, TLAPS

Ev == Threads \X Nat
Before(e, f) == e[1] = f[1] => e[2] < f[2]
Elements(s) == {s[i] : i \in 1..Len(s)}

-----------------------------------------------------------------------------
(* Types. The lists of handlers the bus goes through are few: the projectors *)
(* subscribe in one order and unsubscribe in the same.                     *)

Lists == {<<>>, <<"state">>, <<"persist">>, <<"state", "persist">>}
ToPersist == {<<"persist">>, <<"state", "persist">>}

StreamTypes ==
  /\ subs \subseteq Clients
  /\ stream \in [Clients -> {"none", "created", "open", "gone", "abandoned", "closed"}]
  /\ callbacks \in [Clients -> Seq(Ev)] /\ pending \in [Clients -> Seq(Ev)]
  /\ received \in [Clients -> Seq(Ev)] /\ scheduled \in [Clients -> Seq(Ev)]

PublishTypes ==
  /\ mode \in {"workers", "api"} /\ engine \in {"off", "on", "stopped"}
  /\ handlers \in Lists /\ todo \in [Threads -> Lists]
  /\ offers \in [Threads -> SUBSET Clients]
  /\ sent \in [Threads -> Nat]
  /\ queue \in Seq(Ev) /\ rows \in Seq(Ev)
  /\ writing \subseteq Ev /\ failed \subseteq Ev /\ owed \subseteq Ev

(* What is attached when, and where the thread and the engine are then.    *)
Attached ==
  /\ \/ wiring \in {"off", "started", "draining", "joining", "closed"} /\ handlers = <<>>
     \/ wiring = "half" /\ handlers = <<"state">>
     \/ wiring = "up" /\ handlers = <<"state", "persist">>
     \/ wiring = "detaching" /\ handlers = <<"persist">>
  /\ wiring = "off" => worker = "none"
  /\ IF worker = "writing" THEN \E e \in writing : writing = {e} ELSE writing = {}
  /\ unfinished = Len(queue) + (IF writing = {} THEN 0 ELSE 1)
  /\ mode = "workers" /\ wiring \in {"detaching", "draining", "joining", "closed"} =>
       engine = "stopped"
  /\ engine = "stopped" => \A t \in Threads \ Outlasting : todo[t] = <<>>

-----------------------------------------------------------------------------
(* The way of a crossing from its publish to its row.                      *)

Waiting == Elements(queue)
Done == Stored \union failed

Handed(e) == e[2] <= sent[e[1]] /\ (todo[e[1]] \in ToPersist => e[2] < sent[e[1]])

InLine ==
  /\ Ascending(rows) /\ Ascending(queue)
  /\ Stored \intersect failed = {}
  /\ \A e \in Done, f \in writing \union Waiting : Before(e, f)
  /\ \A e \in writing, f \in Waiting : Before(e, f)
  /\ \A e \in Done \union writing \union Waiting : Handed(e)

StillToPersist == {Event(t) : t \in {u \in Threads : todo[u] \in ToPersist}}

Owed ==
  /\ \A e \in owed : IsCrossing(e[2])
  /\ owed \subseteq Done \union writing \union Waiting \union StillToPersist
  /\ wiring \in {"draining", "joining", "closed"} => StillToPersist \subseteq straggling
  /\ wiring \in {"joining", "closed"} => writing \union Waiting \subseteq straggling
  /\ mode = "workers" => \A e \in straggling : e[1] \in Outlasting

-----------------------------------------------------------------------------
(* The way of an event to a client.                                        *)

Reached(c) == Len(scheduled[c]) - Len(callbacks[c])

Lined(c) ==
  /\ Len(callbacks[c]) <= Len(scheduled[c])
  /\ \A i \in 1..Len(callbacks[c]) : callbacks[c][i] = scheduled[c][Reached(c) + i]
  /\ Len(pending[c]) <= Reached(c) /\ Len(pending[c]) <= Capacity
  /\ \A i \in 1..Len(pending[c]) : pending[c][i] = scheduled[c][Reached(c) - Len(pending[c]) + i]

Offerable(c, e) == e[2] <= sent[e[1]] /\ (c \in offers[e[1]] => e[2] < sent[e[1]])

Ordered(c) ==
  /\ Ascending(received[c]) /\ Ascending(scheduled[c])
  /\ \A i \in 1..Len(received[c]), j \in 1..Len(scheduled[c]) :
       j > Reached(c) - Len(pending[c]) => Before(received[c][i], scheduled[c][j])
  /\ \A i \in 1..Len(received[c]) : \E j \in 1..Len(scheduled[c]) : received[c][i] = scheduled[c][j]
  /\ \A i \in 1..Len(scheduled[c]) : Offerable(c, scheduled[c][i])

InStream == \A c \in Clients : Lined(c) /\ Ordered(c)

DeliveryInv == StreamTypes /\ PublishTypes /\ Attached /\ InLine /\ Owed /\ InStream

-----------------------------------------------------------------------------
(* What is known of a sequence that grows at its end or loses its head.    *)

LEMMA Appended ==
  ASSUME NEW S, NEW s \in Seq(S), NEW e \in S
  PROVE  /\ Append(s, e) \in Seq(S) /\ Len(Append(s, e)) = Len(s) + 1 /\ Len(s) \in Nat
         /\ \A i \in 1..Len(s) : Append(s, e)[i] = s[i]
         /\ Append(s, e)[Len(s) + 1] = e
  OBVIOUS

LEMMA Headed ==
  ASSUME NEW S, NEW s \in Seq(S), s # <<>>
  PROVE  /\ Tail(s) \in Seq(S) /\ Len(Tail(s)) = Len(s) - 1 /\ Len(s) \in Nat \ {0}
         /\ \A i \in 1..Len(Tail(s)) : Tail(s)[i] = s[i + 1]
         /\ Head(s) = s[1] /\ Head(s) \in S
  OBVIOUS

LEMMA Emptied ==
  ASSUME NEW S, NEW s \in Seq(S)
  PROVE  /\ (s = <<>>) <=> (Len(s) = 0)
         /\ s = <<>> => Elements(s) = {}
  BY DEF Elements

LEMMA AppendedElements ==
  ASSUME NEW S, NEW s \in Seq(S), NEW e \in S
  PROVE  /\ Elements(Append(s, e)) = Elements(s) \union {e}
         /\ Ascending(s) /\ (\A x \in Elements(s) : Before(x, e)) => Ascending(Append(s, e))
<1> DEFINE a == Append(s, e)
<1>1. Len(a) = Len(s) + 1 /\ Len(s) \in Nat /\ (\A i \in 1..Len(s) : a[i] = s[i]) /\ a[Len(s) + 1] = e
  BY Appended
<1>2. \A i \in 1..Len(a) : i \in 1..Len(s) \/ i = Len(s) + 1
  BY <1>1
<1> HIDE DEF a
<1>3. Elements(a) = Elements(s) \union {e}
  BY <1>1, <1>2 DEF Elements
<1>4. ASSUME Ascending(s), \A x \in Elements(s) : Before(x, e)
      PROVE  Ascending(a)
  <2> SUFFICES ASSUME NEW i \in 1..Len(a), NEW j \in 1..Len(a), i < j, a[i][1] = a[j][1]
               PROVE  a[i][2] < a[j][2]
    BY DEF Ascending
  <2>1. i \in 1..Len(s) /\ a[i] = s[i] /\ s[i] \in Elements(s)
    BY <1>1 DEF Elements
  <2>2. CASE j \in 1..Len(s)
    BY <1>1, <1>4, <2>1, <2>2 DEF Ascending
  <2>3. CASE j = Len(s) + 1
    BY <1>1, <1>4, <2>1, <2>3 DEF Before
  <2> QED BY <1>2, <2>2, <2>3
<1> QED BY <1>3, <1>4 DEF a

LEMMA TailElements ==
  ASSUME NEW S, NEW s \in Seq(S), s # <<>>
  PROVE  /\ Elements(s) = {Head(s)} \union Elements(Tail(s))
         /\ Ascending(s) => Ascending(Tail(s)) /\ \A x \in Elements(Tail(s)) : Before(Head(s), x)
<1> DEFINE t == Tail(s)
<1>1. Len(t) = Len(s) - 1 /\ Len(s) \in Nat \ {0} /\ (\A i \in 1..Len(t) : t[i] = s[i + 1]) /\ Head(s) = s[1]
  BY Headed
<1>2. \A i \in 1..Len(s) : i = 1 \/ (i - 1 \in 1..Len(t) /\ t[i - 1] = s[i])
  BY <1>1
<1>3. \A i \in 1..Len(t) : i + 1 \in 1..Len(s) /\ i \in Nat /\ 1 < i + 1
  BY <1>1
<1>4. 1 \in 1..Len(s)
  BY <1>1
<1> HIDE DEF t
<1>5. Elements(s) = {Head(s)} \union Elements(t)
  BY <1>1, <1>2, <1>3, <1>4 DEF Elements
<1>6. ASSUME Ascending(s) PROVE Ascending(t) /\ \A x \in Elements(t) : Before(Head(s), x)
  <2>1. Ascending(t)
    <3> SUFFICES ASSUME NEW i \in 1..Len(t), NEW j \in 1..Len(t), i < j, t[i][1] = t[j][1]
                 PROVE  t[i][2] < t[j][2]
      BY DEF Ascending
    <3>1. i + 1 \in 1..Len(s) /\ j + 1 \in 1..Len(s) /\ i + 1 < j + 1
      BY <1>1
    <3>2. t[i] = s[i + 1] /\ t[j] = s[j + 1]
      BY <1>1
    <3> QED BY <1>6, <3>1, <3>2 DEF Ascending
  <2>2. \A i \in 1..Len(t) : Before(Head(s), t[i])
    BY <1>1, <1>3, <1>4, <1>6 DEF Ascending, Before
  <2> QED BY <2>1, <2>2 DEF Elements
<1> QED BY <1>5, <1>6 DEF t

(* The projectors subscribe in this order.                                 *)
LEMMA Subscribing ==
  /\ Append(<<>>, "state") = <<"state">>
  /\ Append(<<"state">>, "persist") = <<"state", "persist">>
<1> DEFINE Names == {"state", "persist"}
<1>1. /\ <<>> \in Seq(Names) /\ <<"state">> \in Seq(Names)
      /\ <<"state", "persist">> \in Seq(Names) /\ "state" \in Names /\ "persist" \in Names
  OBVIOUS
<1>2. Len(<<"state">>) = 1 /\ Len(<<>>) = 0 /\ Len(<<"state", "persist">>) = 2
      /\ <<"state">>[1] = "state" /\ <<"state", "persist">>[1] = "state"
      /\ <<"state", "persist">>[2] = "persist"
  OBVIOUS
<1>3. Append(<<>>, "state") = <<"state">>
  <2>1. Append(<<>>, "state") \in Seq(Names) /\ Len(Append(<<>>, "state")) = 1
        /\ Append(<<>>, "state")[1] = "state"
    BY <1>1, <1>2, Appended
  <2>2. \A i \in 1..1 : i = 1
    OBVIOUS
  <2> QED BY <1>1, <1>2, <2>1, <2>2, SeqEqual
<1>4. Append(<<"state">>, "persist") = <<"state", "persist">>
  <2>1. /\ Append(<<"state">>, "persist") \in Seq(Names)
        /\ Len(Append(<<"state">>, "persist")) = 2
        /\ Append(<<"state">>, "persist")[1] = "state"
        /\ Append(<<"state">>, "persist")[2] = "persist"
    BY <1>1, <1>2, Appended
  <2>2. \A i \in 1..2 : i = 1 \/ i = 2
    OBVIOUS
  <2> QED BY <1>1, <1>2, <2>1, <2>2, SeqEqual
<1> QED BY <1>3, <1>4

(* The lists of handlers, told apart by what is to be called.              *)
LEMMA ListFacts ==
  ASSUME NEW l \in Lists
  PROVE  /\ Tail(<<"state", "persist">>) = <<"persist">>
         /\ "persist" \in {l[i] : i \in 1..Len(l)} <=> l \in ToPersist
         /\ l # <<>> => Tail(l) \in Lists
         /\ l # <<>> /\ Head(l) = "state" => (Tail(l) \in ToPersist <=> l \in ToPersist)
         /\ l # <<>> /\ Head(l) = "persist" => l \in ToPersist /\ Tail(l) = <<>>
         /\ <<>> \notin ToPersist
<1>1. l = <<>> \/ l = <<"state">> \/ l = <<"persist">> \/ l = <<"state", "persist">>
  BY DEF Lists
<1>2. CASE l = <<>>
  BY <1>2 DEF ToPersist
<1>3. CASE l = <<"state">>
  BY <1>3 DEF ToPersist, Lists
<1>4. CASE l = <<"persist">>
  BY <1>4 DEF ToPersist, Lists
<1>5. CASE l = <<"state", "persist">>
  <2>1. Len(l) = 2 /\ l[1] = "state" /\ l[2] = "persist" /\ Tail(l) = <<"persist">> /\ Head(l) = "state"
    BY <1>5
  <2> QED BY <1>5, <2>1 DEF ToPersist, Lists
<1> QED BY <1>1, <1>2, <1>3, <1>4, <1>5

-----------------------------------------------------------------------------
(* Every step keeps the variables in their types and the phases in step.   *)

LEMMA EventTyped ==
  ASSUME PublishTypes, NEW t \in Threads
  PROVE  Event(t) \in Ev /\ Event(t)[1] = t /\ Event(t)[2] = sent[t]
  BY DEF PublishTypes, Event, Ev

LEMMA QueuedTyped ==
  ASSUME NEW q \in Seq(Ev), NEW e \in Ev
  PROVE  Queued(q, e) \in Seq(Ev)
<1>1. Len(q) = Capacity => q # <<>>
  BY DeliveryAssumption, Emptied
<1>2. Len(q) = Capacity => Tail(q) \in Seq(Ev)
  BY <1>1, Headed
<1> QED BY <1>2, Appended DEF Queued

LEMMA StreamTypesStep ==
  ASSUME StreamTypes, PublishTypes, [Next]_vars PROVE StreamTypes'
<1> USE DEF StreamTypes
<1>1. ASSUME UNCHANGED streamVars PROVE StreamTypes'
  BY <1>1 DEF streamVars
<1>2. ASSUME NEW t \in Threads, NEW c \in Clients, OfferTo(t, c) PROVE StreamTypes'
  <2>1. Append(callbacks[c], Event(t)) \in Seq(Ev) /\ Append(scheduled[c], Event(t)) \in Seq(Ev)
    BY EventTyped, Appended
  <2> QED BY <1>2, <2>1 DEF OfferTo, Offered
<1>3. ASSUME NEW c \in Clients, Stream(c) PROVE StreamTypes'
  <2>1. CASE Put(c)
    <3>1. Tail(callbacks[c]) \in Seq(Ev) /\ Head(callbacks[c]) \in Ev
      BY <2>1, Headed DEF Put
    <3>2. Queued(pending[c], Head(callbacks[c])) \in Seq(Ev)
      BY <3>1, QueuedTyped
    <3> QED BY <2>1, <3>1, <3>2 DEF Put
  <2>2. CASE Receive(c)
    <3>1. Tail(pending[c]) \in Seq(Ev) /\ Append(received[c], Head(pending[c])) \in Seq(Ev)
      BY <2>2, Headed, Appended DEF Receive
    <3> QED BY <2>2, <3>1 DEF Receive
  <2>3. CASE Connect(c) \/ Close(c) \/ ClientStep(c)
    BY <2>3 DEF Connect, Close, ClientStep, Begin, Abandon, Hangup
  <2> QED BY <1>3, <2>1, <2>2, <2>3 DEF Stream, LoopStep
<1>4. CASE WiringStep
  BY <1>1, <1>4 DEF WiringStep, StartProjector, SubscribeState, SubscribePersist, Attach,
                    UnsubscribeState, Closing, UnsubscribePersist, QueueJoined, WorkerJoined
<1>5. CASE StartEngine \/ StopEngine \/ WorkerStep \/ UNCHANGED vars
  BY <1>1, <1>5 DEF StartEngine, StopEngine, WorkerStep, vars
<1>6. ASSUME NEW t \in Threads, Publish(t) \/ CallHandler(t) PROVE StreamTypes'
  BY <1>1, <1>6 DEF Publish, CallHandler
<1> QED BY <1>2, <1>3, <1>4, <1>5, <1>6 DEF Next, PublishStep

LEMMA PublishTypesStep ==
  ASSUME StreamTypes, PublishTypes, Attached, [Next]_vars PROVE PublishTypes'
<1> USE DeliveryAssumption DEF PublishTypes
<1>1. CASE StartEngine \/ StopEngine \/ UNCHANGED vars
  BY <1>1 DEF StartEngine, StopEngine, vars, busVars, projectorVars, ghosts
<1>2. ASSUME NEW t \in Threads, Publish(t) PROVE PublishTypes'
  <2>1. <<t, sent[t] + 1>> \in Ev
    BY DEF Ev
  <2>2. owed' \subseteq Ev
    BY <1>2, <2>1 DEF Publish
  <2>3. UNCHANGED <<mode, engine, handlers, queue, rows, writing, failed>>
    BY <1>2 DEF Publish, projectorVars
  <2> QED BY <1>2, <2>2, <2>3 DEF Publish, StreamTypes
<1>3. ASSUME NEW t \in Threads, CallHandler(t) PROVE PublishTypes'
  <2>1. Tail(todo[t]) \in Lists
    BY <1>3, ListFacts DEF CallHandler
  <2>2. Append(queue, Event(t)) \in Seq(Ev)
    BY EventTyped, Appended
  <2>3. queue' \in Seq(Ev)
    BY <1>3, <2>2 DEF CallHandler, Project, Enqueue
  <2> QED BY <1>3, <2>1, <2>3 DEF CallHandler, ghosts
<1>4. ASSUME NEW t \in Threads, NEW c \in Clients, OfferTo(t, c) PROVE PublishTypes'
  BY <1>4 DEF OfferTo, projectorVars, ghosts
<1>5. CASE WorkerStep
  <2>1. CASE WorkerExits
    BY <1>5, <2>1 DEF WorkerStep, WorkerExits, busVars, ghosts
  <2>2. CASE WorkerGets
    <3>1. Head(queue) \in Ev /\ Tail(queue) \in Seq(Ev)
      BY <2>2, Headed DEF WorkerGets
    <3> QED BY <1>5, <2>2, <3>1 DEF WorkerStep, WorkerGets, busVars, ghosts
  <2>3. CASE Persist
    <3>1. \A e \in writing : e \in Ev /\ Append(rows, e) \in Seq(Ev)
      BY Appended
    <3> QED BY <1>5, <2>3, <3>1 DEF WorkerStep, Persist, busVars, ghosts
  <2> QED BY <1>5, <2>1, <2>2, <2>3 DEF WorkerStep
<1>6. CASE WiringStep
  <2>1. handlers' \in Lists
    <3> QED
      BY <1>6, Subscribing DEF Attached, WiringStep, StartProjector, SubscribeState, SubscribePersist, Attach,
                   UnsubscribeState, Closing, UnsubscribePersist, QueueJoined, WorkerJoined,
                   Lists, busVars
  <2>2. UNCHANGED <<mode, engine, todo, offers, sent, queue, rows, writing, failed, owed>>
    BY <1>6 DEF WiringStep, StartProjector, SubscribeState, SubscribePersist, Attach,
                UnsubscribeState, Closing, UnsubscribePersist, QueueJoined, WorkerJoined,
                busVars, projectorVars, ghosts
  <2> QED BY <2>1, <2>2
<1>7. ASSUME NEW c \in Clients, Stream(c) PROVE PublishTypes'
  BY <1>7 DEF Stream, busVars, projectorVars, ghosts
<1> QED BY <1>1, <1>2, <1>3, <1>4, <1>5, <1>6, <1>7 DEF Next, PublishStep

LEMMA AttachedStep ==
  ASSUME StreamTypes, PublishTypes, Attached, [Next]_vars PROVE Attached'
<1> USE DeliveryAssumption DEF PublishTypes, Attached
<1>1. CASE StartEngine \/ StopEngine \/ UNCHANGED vars
  BY <1>1 DEF StartEngine, StopEngine, vars, busVars, projectorVars, ghosts, InFlight
<1>2. ASSUME NEW t \in Threads, Publish(t) PROVE Attached'
  BY <1>2 DEF Publish, projectorVars
<1>3. ASSUME NEW t \in Threads, CallHandler(t) PROVE Attached'
  <2>1. unfinished' = Len(queue') + (IF writing' = {} THEN 0 ELSE 1)
    <3>1. Len(Append(queue, Event(t))) = Len(queue) + 1 /\ Len(queue) \in Nat
      BY EventTyped, Appended
    <3> QED BY <1>3, <3>1 DEF CallHandler, Project, Enqueue
  <2> QED BY <1>3, <2>1 DEF CallHandler, ghosts
<1>4. ASSUME NEW t \in Threads, NEW c \in Clients, OfferTo(t, c) PROVE Attached'
  BY <1>4 DEF OfferTo, projectorVars, ghosts
<1>5. CASE WorkerStep
  <2>1. CASE WorkerExits
    BY <1>5, <2>1 DEF WorkerStep, WorkerExits, busVars, ghosts
  <2>2. CASE WorkerGets
    <3>1. Len(queue') = Len(queue) - 1 /\ Len(queue) \in Nat
      BY <2>2, Headed DEF WorkerGets
    <3>2. worker' = "writing" /\ writing' = {Head(queue)} /\ writing = {}
          /\ UNCHANGED unfinished
      BY <2>2 DEF WorkerGets
    <3>3. \E e \in writing' : writing' = {e}
      BY <3>2
    <3>4. unfinished' = Len(queue') + (IF writing' = {} THEN 0 ELSE 1)
      <4>1. unfinished = Len(queue) + 0
        BY <3>2
      <4>2. writing' # {} /\ unfinished' = unfinished
        BY <3>2
      <4> QED BY <3>1, <4>1, <4>2
    <3>5. UNCHANGED <<mode, engine, wiring, handlers, todo>>
      BY <1>5 DEF WorkerStep, busVars
    <3> QED BY <3>2, <3>3, <3>4, <3>5, <2>2 DEF WorkerGets
  <2>3. CASE Persist
    <3>1. unfinished' = unfinished - 1 /\ writing # {} /\ writing' = {} /\ queue' = queue
          /\ Len(queue) \in Nat /\ worker' = "top"
      BY <2>3 DEF Persist
    <3> QED BY <1>5, <2>3, <3>1 DEF WorkerStep, Persist, busVars, ghosts
  <2> QED BY <1>5, <2>1, <2>2, <2>3 DEF WorkerStep
<1>6. CASE SubscribeState \/ SubscribePersist
  BY <1>6, Subscribing DEF SubscribeState, SubscribePersist, Attach, projectorVars, ghosts
<1>7. CASE StartProjector \/ UnsubscribeState \/ Closing
  BY <1>7 DEF StartProjector, UnsubscribeState, Closing, UnsubscribePersist, QueueJoined, WorkerJoined,
              busVars, projectorVars, ghosts
<1>8. ASSUME NEW c \in Clients, Stream(c) PROVE Attached'
  BY <1>8 DEF Stream, busVars, projectorVars, ghosts
<1> QED BY <1>1, <1>2, <1>3, <1>4, <1>5, <1>6, <1>7, <1>8 DEF Next, PublishStep, WiringStep

-----------------------------------------------------------------------------
(* Every step keeps crossings in line, and nobody drops one that is owed.  *)

LineInv == StreamTypes /\ PublishTypes /\ Attached /\ InLine /\ Owed

(* A step that moves no crossing and finishes no publish.                  *)
LEMMA NothingMoves ==
  ASSUME LineInv, UNCHANGED <<queue, rows, failed, writing, sent, owed>>,
         \A t \in Threads : todo'[t] \in ToPersist <=> todo[t] \in ToPersist
  PROVE  /\ InLine'
         /\ owed' \subseteq (Done \union writing \union Waiting \union StillToPersist)'
         /\ StillToPersist' = StillToPersist /\ Waiting' = Waiting /\ \A e \in owed' : IsCrossing(e[2])
<1> USE DEF LineInv, PublishTypes
<1>1. Stored' = Stored /\ Waiting' = Waiting /\ Done' = Done
  BY DEF Stored, Waiting, Elements, Done
<1>2. StillToPersist' = StillToPersist
  BY DEF StillToPersist, Event
<1>3. \A e \in Ev : Handed(e) => Handed(e)'
  BY DEF Handed, Ev
<1>4. Done \union writing \union Waiting \subseteq Ev
  BY DEF Done, Stored, Waiting, Elements
<1>5. InLine'
  <2>1. \A e \in (Done \union writing \union Waiting)' : Handed(e)'
    BY <1>1, <1>3, <1>4 DEF InLine
  <2> QED BY <1>1, <2>1 DEF InLine
<1>6. owed' \subseteq (Done \union writing \union Waiting \union StillToPersist)'
  BY <1>1, <1>2 DEF Owed
<1> QED BY <1>1, <1>2, <1>5, <1>6 DEF Owed

LEMMA PublishInLine ==
  ASSUME LineInv, NEW t \in Threads, Publish(t)
  PROVE  InLine' /\ Owed'
<1> USE DEF LineInv, PublishTypes
<1> DEFINE e == <<t, sent[t] + 1>>
<1>1. /\ UNCHANGED <<queue, rows, failed, writing, straggling, wiring, mode, handlers>>
      /\ sent' = [sent EXCEPT ![t] = sent[t] + 1]
      /\ todo' = [todo EXCEPT ![t] = handlers] /\ todo[t] = <<>>
  BY DEF Publish, projectorVars, InFlight
<1>2. Stored' = Stored /\ Waiting' = Waiting /\ Done' = Done
  BY <1>1 DEF Stored, Waiting, Elements, Done
<1>3. Done \union writing \union Waiting \subseteq Ev
  BY DEF Done, Stored, Waiting, Elements
<1>4. \A f \in Ev : Handed(f) => Handed(f)'
  BY <1>1 DEF Handed, Ev
<1>5. InLine'
  <2>1. \A f \in (Done \union writing \union Waiting)' : Handed(f)'
    BY <1>1, <1>2, <1>3, <1>4 DEF InLine
  <2> QED BY <1>1, <1>2, <2>1 DEF InLine
<1>6. StillToPersist' = StillToPersist \union (IF handlers \in ToPersist THEN {e} ELSE {})
  <2>1. todo[t] \notin ToPersist
    BY <1>1, ListFacts DEF Lists
  <2>2. \A u \in Threads : u # t => Event(u)' = Event(u) /\ todo'[u] = todo[u]
    BY <1>1 DEF Event
  <2>3. Event(t)' = e /\ todo'[t] = handlers
    BY <1>1 DEF Event
  <2> QED BY <2>1, <2>2, <2>3 DEF StillToPersist
<1>7. /\ owed' = owed \/ (owed' = owed \union {e} /\ handlers \in ToPersist /\ IsCrossing(e[2]))
      /\ wiring \in {"draining", "joining", "closed"} => handlers \notin ToPersist
  BY ListFacts DEF Publish, Attached
<1>8. Owed'
  <2>1. \A f \in owed' : IsCrossing(f[2])
    BY <1>7 DEF Owed
  <2>2. owed' \subseteq (Done \union writing \union Waiting \union StillToPersist)'
    BY <1>1, <1>2, <1>6, <1>7 DEF Owed
  <2> QED BY <1>1, <1>2, <1>6, <1>7, <2>1, <2>2 DEF Owed
<1> QED BY <1>5, <1>8

LEMMA CallInLine ==
  ASSUME LineInv, NEW t \in Threads, CallHandler(t)
  PROVE  InLine' /\ Owed'
<1> USE DEF LineInv, PublishTypes
<1>1. /\ UNCHANGED <<rows, failed, writing, straggling, wiring, mode, sent, owed>>
      /\ todo' = [todo EXCEPT ![t] = Tail(todo[t])] /\ todo[t] # <<>> /\ todo[t] \in Lists
  BY DEF CallHandler, ghosts
<1>2. CASE Project(t)
  <2>1. Head(todo[t]) = "state" /\ UNCHANGED queue
    BY <1>2 DEF Project
  <2>2. \A u \in Threads : todo'[u] \in ToPersist <=> todo[u] \in ToPersist
    BY <1>1, <2>1, ListFacts
  <2> QED BY <1>1, <2>1, <2>2, NothingMoves DEF Owed
<1>3. CASE Enqueue(t)
  <2>1. todo[t] \in ToPersist /\ todo'[t] \notin ToPersist
    BY <1>1, <1>3, ListFacts DEF Enqueue
  <2>2. Event(t) \in Ev /\ Event(t)[1] = t /\ Event(t)[2] = sent[t]
    BY EventTyped
  <2>3. /\ StillToPersist = StillToPersist' \union {Event(t)}
        /\ Event(t) \in StillToPersist
    <3>1. \A u \in Threads : Event(u)' = Event(u) /\ (u # t => todo'[u] = todo[u])
      BY <1>1 DEF Event
    <3> QED BY <2>1, <3>1 DEF StillToPersist
  <2>4. Done' = Done /\ Stored' = Stored
    BY <1>1 DEF Done, Stored
  <2>5. Waiting' = Waiting \union (IF IsCrossing(sent[t]) THEN {Event(t)} ELSE {})
    <3>1. Elements(Append(queue, Event(t))) = Elements(queue) \union {Event(t)}
      BY <2>2, AppendedElements
    <3> QED BY <1>3, <3>1 DEF Enqueue, Waiting
  <2>6. \A e \in Done \union writing \union Waiting : Before(e, Event(t))
    BY <2>1, <2>2 DEF InLine, Handed, Before
  <2>7. Done \union writing \union Waiting \subseteq Ev
    BY DEF Done, Stored, Waiting, Elements
  <2>8. \A e \in Ev : Handed(e) => Handed(e)'
    BY <1>1, <2>1 DEF Handed, Ev
  <2>9. \A e : e = Event(t) => Handed(e)'
    BY <1>1, <2>1, <2>2 DEF Handed
  <2>10. Ascending(queue')
    <3>1. \A x \in Elements(queue) : Before(x, Event(t))
      BY <2>6 DEF Waiting
    <3>2. Ascending(queue)
      BY DEF InLine
    <3>3. Ascending(Append(queue, Event(t)))
      BY <2>2, <3>1, <3>2, AppendedElements
    <3> QED BY <1>3, <3>2, <3>3 DEF Enqueue
  <2>11. InLine'
    <3>1. \A e \in (Done \union writing \union Waiting)' : Handed(e)'
      BY <1>1, <2>4, <2>5, <2>7, <2>8, <2>9 DEF InLine
    <3>2. Ascending(rows') /\ Stored' \intersect failed' = {}
      BY <1>1, <2>4 DEF InLine
    <3>3. \A e \in Done', f \in (writing \union Waiting)' : Before(e, f)
      BY <1>1, <2>4, <2>5, <2>6 DEF InLine
    <3>4. \A e \in writing', f \in Waiting' : Before(e, f)
      BY <1>1, <2>5, <2>6 DEF InLine
    <3> QED BY <2>10, <3>1, <3>2, <3>3, <3>4 DEF InLine
  <2>12. Event(t) \in owed => IsCrossing(sent[t])
    BY <2>2 DEF Owed
  <2>13. Owed'
    <3>1. owed' \subseteq (Done \union writing \union Waiting \union StillToPersist)'
      BY <1>1, <2>3, <2>4, <2>5, <2>12 DEF Owed
    <3> QED BY <1>1, <2>3, <2>5, <3>1 DEF Owed
  <2> QED BY <2>11, <2>13
<1> QED BY <1>2, <1>3 DEF CallHandler

LEMMA WorkerInLine ==
  ASSUME LineInv, WorkerStep
  PROVE  InLine' /\ Owed'
<1> USE DEF LineInv, PublishTypes
<1>1. UNCHANGED <<mode, wiring, todo, sent, owed, straggling>>
  BY DEF WorkerStep, busVars, ghosts
<1>2. StillToPersist' = StillToPersist
  BY <1>1 DEF StillToPersist, Event
<1>3. \A e \in Ev : Handed(e) => Handed(e)'
  BY <1>1 DEF Handed
<1>4. Done \union writing \union Waiting \subseteq Ev
  BY DEF Done, Stored, Waiting, Elements
<1>5. ASSUME (Done \union writing \union Waiting)' = Done \union writing \union Waiting,
             (writing \union Waiting)' \subseteq writing \union Waiting
      PROVE  Owed' /\ \A e \in (Done \union writing \union Waiting)' : Handed(e)'
  BY <1>1, <1>2, <1>3, <1>4, <1>5 DEF Owed, InLine
<1>6. CASE WorkerExits
  BY <1>1, <1>6, NothingMoves DEF WorkerExits, Owed
<1>7. CASE WorkerGets
  <2>1. /\ UNCHANGED <<rows, failed>> /\ writing = {} /\ writing' = {Head(queue)}
        /\ queue # <<>> /\ queue' = Tail(queue)
    BY <1>7 DEF WorkerGets, Attached
  <2>2. Done' = Done /\ Stored' = Stored
    BY <2>1 DEF Done, Stored
  <2>3. /\ Waiting = writing' \union Waiting'
        /\ Ascending(queue') /\ \A f \in Waiting' : Before(Head(queue), f)
    BY <2>1, TailElements DEF Waiting, InLine
  <2>4. Owed' /\ \A e \in (Done \union writing \union Waiting)' : Handed(e)'
    BY <1>5, <2>1, <2>2, <2>3
  <2>5. InLine'
    BY <2>1, <2>2, <2>3, <2>4 DEF InLine
  <2> QED BY <2>4, <2>5
<1>8. CASE Persist
  <2>1. PICK e \in writing :
          \/ rows' = Append(rows, e) /\ UNCHANGED failed
          \/ failed' = failed \union {e} /\ UNCHANGED rows
    BY <1>8 DEF Persist
  <2>2. writing = {e} /\ writing' = {} /\ UNCHANGED queue /\ e \in Ev
    BY <1>8 DEF Persist, Attached
  <2>3. /\ \A x \in Done : Before(x, e) /\ x # e
        /\ \A f \in Waiting : Before(e, f)
    <3>1. e[2] \in Nat
      BY <2>2 DEF Ev
    <3> QED BY <2>2, <3>1 DEF InLine, Before
  <2>4. Waiting' = Waiting
    BY <2>2 DEF Waiting
  <2>5. /\ Ascending(rows') /\ Stored' \intersect failed' = {} /\ Done' = Done \union {e}
    <3>1. CASE rows' = Append(rows, e) /\ UNCHANGED failed
      <4>1. Stored' = Stored \union {e} /\ Ascending(rows')
        BY <2>2, <2>3, <3>1, AppendedElements DEF Stored, Elements, InLine, Done
      <4> QED BY <2>3, <3>1, <4>1 DEF InLine, Done
    <3>2. CASE failed' = failed \union {e} /\ UNCHANGED rows
      <4>1. Stored' = Stored
        BY <3>2 DEF Stored
      <4> QED BY <2>3, <3>2, <4>1 DEF InLine, Done
    <3> QED BY <2>1, <3>1, <3>2
  <2>6. Owed' /\ \A f \in (Done \union writing \union Waiting)' : Handed(f)'
    BY <1>5, <2>2, <2>4, <2>5
  <2>7. InLine'
    BY <2>2, <2>3, <2>4, <2>5, <2>6 DEF InLine
  <2> QED BY <2>6, <2>7
<1> QED BY <1>6, <1>7, <1>8 DEF WorkerStep

LEMMA WiringInLine ==
  ASSUME LineInv, WiringStep
  PROVE  InLine' /\ Owed'
<1> USE DEF LineInv, PublishTypes
<1>1. UNCHANGED <<queue, rows, failed, writing, sent, owed, todo, mode>>
  BY DEF WiringStep, StartProjector, SubscribeState, SubscribePersist, Attach, UnsubscribeState,
         Closing, UnsubscribePersist, QueueJoined, WorkerJoined, busVars, projectorVars, ghosts
<1>2. /\ InLine'
      /\ owed' \subseteq (Done \union writing \union Waiting \union StillToPersist)'
      /\ StillToPersist' = StillToPersist /\ Waiting' = Waiting /\ \A e \in owed' : IsCrossing(e[2])
  BY <1>1, NothingMoves
<1>3. CASE UnsubscribePersist
  <2>1. straggling' = {Event(t) : t \in {u \in Threads : todo[u] # <<>>}} /\ wiring' = "draining"
    BY <1>3 DEF UnsubscribePersist
  <2>2. StillToPersist \subseteq straggling'
    BY <2>1, ListFacts DEF StillToPersist
  <2>3. mode = "workers" => \A e \in straggling' : e[1] \in Outlasting
    BY <1>3, <2>1, EventTyped DEF Attached, UnsubscribePersist
  <2> QED BY <1>1, <1>2, <2>1, <2>2, <2>3 DEF Owed
<1>4. CASE QueueJoined
  <2>1. wiring = "draining" /\ unfinished = 0 /\ UNCHANGED straggling /\ wiring' = "joining"
    BY <1>4 DEF QueueJoined, ghosts
  <2>2. writing = {} /\ Len(queue) = 0
    <3>1. Len(queue) \in Nat
      OBVIOUS
    <3> QED BY <2>1, <3>1 DEF Attached
  <2>3. Waiting = {}
    BY <2>2, Emptied DEF Waiting
  <2> QED BY <1>1, <1>2, <2>1, <2>2, <2>3 DEF Owed
<1>5. CASE WorkerJoined
  BY <1>1, <1>2, <1>5 DEF WorkerJoined, ghosts, Owed
<1>6. CASE StartProjector \/ SubscribeState \/ SubscribePersist \/ UnsubscribeState
  <2>1. UNCHANGED straggling /\ wiring' \notin {"draining", "joining", "closed"}
    BY <1>6 DEF StartProjector, SubscribeState, SubscribePersist, Attach, UnsubscribeState, ghosts
  <2> QED BY <1>1, <1>2, <2>1 DEF Owed
<1> QED BY <1>3, <1>4, <1>5, <1>6 DEF WiringStep, Closing

LEMMA LineStep ==
  ASSUME LineInv, [Next]_vars PROVE InLine' /\ Owed'
<1>1. ASSUME UNCHANGED <<queue, rows, failed, writing, sent, owed>>, UNCHANGED todo,
             UNCHANGED <<wiring, mode, straggling>>
      PROVE  InLine' /\ Owed'
  <2>1. \A t \in Threads : todo'[t] \in ToPersist <=> todo[t] \in ToPersist
    BY <1>1
  <2> QED BY <1>1, <2>1, NothingMoves DEF Owed, LineInv
<1>2. CASE StartEngine \/ StopEngine \/ UNCHANGED vars
  BY <1>1, <1>2 DEF StartEngine, StopEngine, vars, busVars, projectorVars, ghosts
<1>3. ASSUME NEW t \in Threads, NEW c \in Clients, OfferTo(t, c) PROVE InLine' /\ Owed'
  BY <1>1, <1>3 DEF OfferTo, projectorVars, ghosts
<1>4. ASSUME NEW c \in Clients, Stream(c) PROVE InLine' /\ Owed'
  BY <1>1, <1>4 DEF Stream, busVars, projectorVars, ghosts
<1> QED
  BY <1>2, <1>3, <1>4, PublishInLine, CallInLine, WorkerInLine, WiringInLine DEF Next, PublishStep

-----------------------------------------------------------------------------
(* Every step keeps what clients are sent, and wait for, in order.         *)

(* A client whose sequences do not change is only affected by publishes.   *)
LEMMA ClientUntouched ==
  ASSUME StreamTypes, PublishTypes, NEW c \in Clients, Lined(c) /\ Ordered(c),
         UNCHANGED <<callbacks[c], pending[c], received[c], scheduled[c]>>,
         \A e \in Ev : Offerable(c, e) => Offerable(c, e)'
  PROVE  (Lined(c) /\ Ordered(c))'
<1>1. Reached(c)' = Reached(c)
  BY DEF Reached
<1>2. \A i \in 1..Len(scheduled[c]) : scheduled[c][i] \in Ev
  BY DEF StreamTypes
<1>3. Lined(c)'
  BY <1>1 DEF Lined
<1>4. Ordered(c)'
  BY <1>1, <1>2 DEF Ordered
<1> QED BY <1>3, <1>4

LEMMA OfferedInStream ==
  ASSUME StreamTypes, PublishTypes, InStream, NEW t \in Threads, NEW c \in Clients, OfferTo(t, c)
  PROVE  InStream'
<1> USE DEF StreamTypes, PublishTypes
<1> DEFINE e == Event(t)
<1>1. /\ UNCHANGED <<sent, pending, received>> /\ c \in offers[t]
      /\ offers' = [offers EXCEPT ![t] = offers[t] \ {c}]
  BY DEF OfferTo, Offered
<1>2. e \in Ev /\ e[1] = t /\ e[2] = sent[t]
  BY EventTyped
<1>3. \A d \in Clients : \A f \in Ev : Offerable(d, f) => Offerable(d, f)'
  BY <1>1 DEF Offerable, Ev
<1>4. ASSUME NEW d \in Clients, UNCHANGED <<callbacks[d], scheduled[d]>> PROVE (Lined(d) /\ Ordered(d))'
  BY <1>1, <1>3, <1>4, ClientUntouched DEF InStream
<1>5. CASE UNCHANGED <<callbacks, scheduled>>
  BY <1>4, <1>5 DEF InStream
<1>6. CASE /\ callbacks' = [callbacks EXCEPT ![c] = Append(callbacks[c], e)]
           /\ scheduled' = [scheduled EXCEPT ![c] = Append(scheduled[c], e)]
  <2> DEFINE s == scheduled[c]
             k == callbacks[c]
  <2> HIDE DEF e
  <2>1. /\ Len(scheduled'[c]) = Len(s) + 1 /\ Len(s) \in Nat
        /\ \A i \in 1..Len(s) : scheduled'[c][i] = s[i] /\ s[i] \in Ev
        /\ scheduled'[c][Len(s) + 1] = e
    BY <1>2, <1>6, Appended
  <2>2. /\ Len(callbacks'[c]) = Len(k) + 1 /\ Len(k) \in Nat
        /\ \A i \in 1..Len(k) : callbacks'[c][i] = k[i]
        /\ callbacks'[c][Len(k) + 1] = e
    BY <1>2, <1>6, Appended
  <2>3. Lined(c) /\ Ordered(c)
    BY DEF InStream
  <2>4. Reached(c)' = Reached(c) /\ Reached(c) = Len(s) - Len(k) /\ Reached(c) \in Nat
    BY <2>1, <2>2, <2>3 DEF Reached, Lined
  <2>5. Lined(c)'
    <3>1. Len(callbacks'[c]) <= Len(scheduled'[c])
      BY <2>1, <2>2, <2>3 DEF Lined
    <3>2. ASSUME NEW i \in 1..Len(callbacks'[c])
          PROVE  callbacks'[c][i] = scheduled'[c][Reached(c) + i]
      <4>1. CASE i \in 1..Len(k)
        <5>1. Reached(c) + i \in 1..Len(s)
          BY <2>1, <2>2, <2>4, <4>1
        <5> QED BY <2>1, <2>2, <2>3, <4>1, <5>1 DEF Lined
      <4>2. CASE i = Len(k) + 1
        <5>1. Reached(c) + i = Len(s) + 1
          BY <2>1, <2>2, <2>4, <4>2
        <5> QED BY <2>1, <2>2, <4>2, <5>1
      <4> QED BY <2>2, <4>1, <4>2
    <3>3. ASSUME NEW i \in 1..Len(pending[c])
          PROVE  pending[c][i] = scheduled'[c][Reached(c) - Len(pending[c]) + i]
      <4>1. Reached(c) - Len(pending[c]) + i \in 1..Len(s)
        <5>1. Len(pending[c]) \in Nat /\ Len(pending[c]) <= Reached(c) /\ Reached(c) <= Len(s)
          BY <2>1, <2>2, <2>3, <2>4 DEF Lined
        <5> QED BY <2>1, <2>4, <5>1
      <4> QED BY <2>1, <2>3, <4>1 DEF Lined
    <3> QED BY <1>1, <2>3, <2>4, <3>1, <3>2, <3>3 DEF Lined
  <2>6. Ordered(c)'
    <3>1. \A i \in 1..Len(s) : Before(s[i], e)
      BY <1>1, <1>2, <2>1, <2>3 DEF Ordered, Offerable, Before
    <3>2. \A i \in 1..Len(scheduled'[c]) : i \in 1..Len(s) \/ i = Len(s) + 1
      BY <2>1
    <3>3. Ascending(scheduled'[c])
      <4>1. s \in Seq(Ev) /\ Ascending(s) /\ \A x \in Elements(s) : Before(x, e)
        BY <2>3, <3>1 DEF Ordered, Elements
      <4> QED BY <1>2, <1>6, <4>1, AppendedElements
    <3>4. ASSUME NEW i \in 1..Len(received[c]), NEW j \in 1..Len(scheduled'[c]),
                 j > Reached(c) - Len(pending[c])
          PROVE  Before(received[c][i], scheduled'[c][j])
      <4>1. CASE j \in 1..Len(s)
        BY <2>1, <2>3, <3>4, <4>1 DEF Ordered
      <4>2. CASE j = Len(s) + 1
        <5>1. PICK m \in 1..Len(s) : received[c][i] = s[m]
          BY <2>3 DEF Ordered
        <5> QED BY <2>1, <3>1, <4>2, <5>1
      <4> QED BY <3>2, <4>1, <4>2
    <3>5. ASSUME NEW i \in 1..Len(received[c])
          PROVE  \E j \in 1..Len(scheduled'[c]) : received[c][i] = scheduled'[c][j]
      <4>1. PICK j \in 1..Len(s) : received[c][i] = s[j]
        BY <2>3 DEF Ordered
      <4>2. j \in 1..Len(scheduled'[c]) /\ scheduled'[c][j] = s[j]
        BY <2>1
      <4> QED BY <4>1, <4>2
    <3>6. ASSUME NEW i \in 1..Len(scheduled'[c]), NEW f, f = scheduled'[c][i]
          PROVE  Offerable(c, f)'
      <4>1. CASE i \in 1..Len(s)
        BY <1>3, <2>1, <2>3, <3>6, <4>1 DEF Ordered
      <4>2. CASE f = e
        BY <1>1, <1>2, <4>2 DEF Offerable
      <4> QED BY <2>1, <3>2, <3>6, <4>1, <4>2
    <3> QED BY <1>1, <2>3, <2>4, <3>3, <3>4, <3>5, <3>6 DEF Ordered
  <2>7. \A d \in Clients : d # c => UNCHANGED <<callbacks[d], scheduled[d]>>
    BY <1>6
  <2> QED BY <1>4, <2>5, <2>6, <2>7 DEF InStream
<1> QED BY <1>5, <1>6 DEF OfferTo, Offered

LEMMA PutInStream ==
  ASSUME StreamTypes, PublishTypes, InStream, NEW c \in Clients, Put(c), UNCHANGED <<sent, offers>>
  PROVE  InStream'
<1> USE DEF StreamTypes
<1> DEFINE s == scheduled[c]
           k == callbacks[c]
           p == pending[c]
           h == Head(k)
<1>1. /\ UNCHANGED <<received, scheduled>> /\ k # <<>>
      /\ callbacks'[c] = Tail(k) /\ pending'[c] = Queued(p, h)
      /\ \A d \in Clients : d # c => UNCHANGED <<callbacks[d], pending[d]>>
  BY DEF Put
<1>2. /\ s \in Seq(Ev) /\ k \in Seq(Ev) /\ p \in Seq(Ev) /\ Len(s) \in Nat /\ Len(p) \in Nat
      /\ Len(k) \in Nat \ {0} /\ Len(Tail(k)) = Len(k) - 1 /\ h = k[1] /\ h \in Ev
      /\ \A i \in 1..Len(Tail(k)) : Tail(k)[i] = k[i + 1]
  BY <1>1, Headed
<1>3. Lined(c) /\ Ordered(c)
  BY DEF InStream
<1> DEFINE r == Len(s) - Len(k)
<1>4. Reached(c) = r /\ Reached(c)' = r + 1 /\ r \in Nat /\ Len(p) <= r /\ Len(p) <= Capacity
  BY <1>1, <1>2, <1>3 DEF Reached, Lined
<1>5. h = s[r + 1]
  BY <1>2, <1>3, <1>4 DEF Lined
<1> HIDE DEF s, k, p, h, r
<1>6. /\ pending'[c] = Queued(p, h) /\ Len(pending'[c]) \in Nat
      /\ Len(pending'[c]) = IF Len(p) = Capacity THEN Len(p) ELSE Len(p) + 1
      /\ \A i \in 1..Len(pending'[c]) : pending'[c][i] = s[r + 1 - Len(pending'[c]) + i]
  <2>0. \A i \in 1..Len(p) : p[i] = s[r - Len(p) + i]
    BY <1>3, <1>4 DEF Lined, p, s
  <2>1. CASE Len(p) = Capacity
    <3>1. p # <<>>
      BY <1>2, <2>1, DeliveryAssumption, Emptied
    <3>2. Tail(p) \in Seq(Ev) /\ Len(Tail(p)) = Len(p) - 1 /\ \A i \in 1..Len(Tail(p)) : Tail(p)[i] = p[i + 1]
      BY <1>2, <3>1, Headed
    <3>3. Queued(p, h) = Append(Tail(p), h)
      BY <2>1 DEF Queued
    <3>4. /\ Len(Queued(p, h)) = Len(p)
          /\ \A i \in 1..(Len(p) - 1) : Queued(p, h)[i] = p[i + 1]
          /\ Queued(p, h)[Len(p)] = h
      BY <1>2, <3>2, <3>3, Appended
    <3>5. ASSUME NEW i \in 1..Len(p) PROVE Queued(p, h)[i] = s[r + 1 - Len(p) + i]
      <4>1. CASE i = Len(p)
        <5>1. r + 1 - Len(p) + i = r + 1
          BY <1>2, <1>4, <4>1
        <5> QED BY <1>5, <3>4, <4>1, <5>1
      <4>2. CASE i # Len(p)
        <5>1. i + 1 \in 1..Len(p) /\ i \in 1..(Len(p) - 1) /\ r - Len(p) + (i + 1) = r + 1 - Len(p) + i
          BY <1>2, <1>4, <4>2
        <5>2. p[i + 1] = s[r - Len(p) + (i + 1)]
          BY <2>0, <5>1
        <5> QED BY <3>4, <5>1, <5>2
      <4> QED BY <4>1, <4>2
    <3> QED BY <1>1, <1>2, <2>1, <3>4, <3>5 DEF p, h
  <2>2. CASE Len(p) # Capacity
    <3>1. Queued(p, h) = Append(p, h)
      BY <2>2 DEF Queued
    <3>2. /\ Len(Queued(p, h)) = Len(p) + 1 /\ Queued(p, h)[Len(p) + 1] = h
          /\ \A i \in 1..Len(p) : Queued(p, h)[i] = p[i]
      BY <1>2, <3>1, Appended
    <3>3. ASSUME NEW i \in 1..(Len(p) + 1) PROVE Queued(p, h)[i] = s[r + 1 - (Len(p) + 1) + i]
      <4>1. CASE i = Len(p) + 1
        <5>1. r + 1 - (Len(p) + 1) + i = r + 1
          BY <1>2, <1>4, <4>1
        <5> QED BY <1>5, <3>2, <4>1, <5>1
      <4>2. CASE i # Len(p) + 1
        <5>1. i \in 1..Len(p) /\ r - Len(p) + i = r + 1 - (Len(p) + 1) + i
          BY <1>2, <1>4, <4>2
        <5> QED BY <2>0, <3>2, <5>1
      <4> QED BY <4>1, <4>2
    <3> QED BY <1>1, <1>2, <2>2, <3>2, <3>3 DEF p, h
  <2> QED BY <2>1, <2>2
<1>7. Lined(c)'
  <2>1. Len(callbacks'[c]) <= Len(s)
    BY <1>1, <1>2, <1>4 DEF k, r
  <2>2. ASSUME NEW i \in 1..Len(callbacks'[c]) PROVE callbacks'[c][i] = s[r + 1 + i]
    <3>1. i + 1 \in 1..Len(k) /\ callbacks'[c][i] = k[i + 1] /\ r + (i + 1) = r + 1 + i
      BY <1>1, <1>2, <1>4 DEF k
    <3> QED BY <1>3, <1>4, <3>1 DEF Lined, k, s
  <2>3. Len(pending'[c]) <= r + 1 /\ Len(pending'[c]) <= Capacity
    BY <1>2, <1>4, <1>6, DeliveryAssumption
  <2>4. scheduled'[c] = s /\ Reached(c)' = r + 1
    BY <1>1, <1>4 DEF s
  <2>5. ASSUME NEW n, n = r + 1, NEW i \in 1..Len(pending'[c])
        PROVE  pending'[c][i] = s[n - Len(pending'[c]) + i]
    <3>1. pending'[c][i] = s[r + 1 - Len(pending'[c]) + i]
      BY <1>6
    <3>2. r + 1 - Len(pending'[c]) + i = n - Len(pending'[c]) + i
      BY <1>4, <1>6, <2>5
    <3> QED BY <3>1, <3>2
  <2> QED BY <2>1, <2>2, <2>3, <2>4, <2>5 DEF Lined
<1>8. Ordered(c)'
  <2>1. \A j \in 1..Len(s) : j > r + 1 - Len(pending'[c]) => j > r - Len(p)
    BY <1>2, <1>4, <1>6
  <2>2. \A f : Offerable(c, f) => Offerable(c, f)'
    BY DEF Offerable
  <2> QED BY <1>1, <1>3, <1>4, <2>1, <2>2 DEF Ordered, s, p
<1>9. ASSUME NEW d \in Clients, d # c PROVE (Lined(d) /\ Ordered(d))'
  <2>1. \A f \in Ev : Offerable(d, f) => Offerable(d, f)'
    BY DEF Offerable
  <2> QED BY <1>1, <1>9, <2>1, ClientUntouched DEF InStream
<1> QED BY <1>7, <1>8, <1>9 DEF InStream

LEMMA ReceiveInStream ==
  ASSUME StreamTypes, PublishTypes, InStream, NEW c \in Clients, Receive(c), UNCHANGED <<sent, offers>>
  PROVE  InStream'
<1> USE DEF StreamTypes
<1> DEFINE s == scheduled[c]
           p == pending[c]
           q == received[c]
           r == Reached(c)
           h == Head(p)
<1>1. /\ UNCHANGED <<callbacks, scheduled>> /\ p # <<>>
      /\ pending'[c] = Tail(p) /\ received'[c] = Append(q, h)
      /\ \A d \in Clients : d # c => UNCHANGED <<pending[d], received[d]>>
  BY DEF Receive
<1>2. /\ s \in Seq(Ev) /\ p \in Seq(Ev) /\ q \in Seq(Ev) /\ Len(s) \in Nat /\ Len(p) \in Nat \ {0}
      /\ Len(Tail(p)) = Len(p) - 1 /\ h = p[1] /\ h \in Ev
      /\ \A i \in 1..Len(Tail(p)) : Tail(p)[i] = p[i + 1]
  BY <1>1, Headed
<1>3. Lined(c) /\ Ordered(c)
  BY DEF InStream
<1>4. /\ r \in Nat /\ r <= Len(s) /\ Reached(c)' = r /\ Len(p) <= r /\ Len(p) <= Capacity
      /\ Len(callbacks[c]) \in Nat
  BY <1>1, <1>2, <1>3 DEF Reached, Lined
<1>5. \A i \in 1..Len(p) : p[i] = s[r - Len(p) + i]
  BY <1>3 DEF Lined
<1> DEFINE m == r - Len(p) + 1
<1>6. m \in 1..Len(s) /\ h = s[m] /\ m > r - Len(p)
  BY <1>2, <1>4, <1>5
<1>7. /\ Len(received'[c]) = Len(q) + 1 /\ Len(q) \in Nat
      /\ \A i \in 1..Len(q) : received'[c][i] = q[i]
      /\ received'[c][Len(q) + 1] = h
  BY <1>1, <1>2, Appended
<1>8. Lined(c)'
  <2>1. ASSUME NEW i \in 1..Len(pending'[c]) PROVE pending'[c][i] = s[r - Len(pending'[c]) + i]
    <3>1. i + 1 \in 1..Len(p) /\ pending'[c][i] = p[i + 1]
          /\ r - Len(p) + (i + 1) = r - Len(pending'[c]) + i
      BY <1>1, <1>2, <1>4
    <3> QED BY <1>5, <3>1
  <2>2. Len(pending'[c]) <= r /\ Len(pending'[c]) <= Capacity
    BY <1>1, <1>2, <1>4, DeliveryAssumption
  <2> QED BY <1>1, <1>3, <1>4, <2>1, <2>2 DEF Lined
<1> HIDE DEF s, p, q, r, h, m
<1>9. Ordered(c)'
  <2>1. \A i \in 1..Len(q) : Before(q[i], h)
    BY <1>3, <1>4, <1>6 DEF Ordered, q, s, r, p
  <2>2. Ascending(received'[c])
    <3>1. Ascending(q) /\ \A x \in Elements(q) : Before(x, h)
      BY <1>3, <2>1 DEF Ordered, q, Elements
    <3> QED BY <1>1, <1>2, <3>1, AppendedElements
  <2>3. \A i \in 1..Len(received'[c]) : i \in 1..Len(q) \/ i = Len(q) + 1
    BY <1>7
  <2>4. ASSUME NEW i \in 1..Len(received'[c]), NEW j \in 1..Len(s), j > r - Len(pending'[c])
        PROVE  Before(received'[c][i], s[j])
    <3>1. j > m /\ j > r - Len(p)
      BY <1>1, <1>2, <1>4, <2>4 DEF m, p
    <3>2. CASE i \in 1..Len(q)
      BY <1>3, <1>7, <3>1, <3>2 DEF Ordered, q, s, r, p
    <3>3. CASE i = Len(q) + 1
      BY <1>3, <1>6, <1>7, <3>1, <3>3 DEF Ordered, Ascending, Before, s
    <3> QED BY <2>3, <3>2, <3>3
  <2>5. ASSUME NEW i \in 1..Len(received'[c]) PROVE \E j \in 1..Len(s) : received'[c][i] = s[j]
    <3>1. CASE i \in 1..Len(q)
      BY <1>3, <1>7, <3>1 DEF Ordered, q, s
    <3>2. CASE i = Len(q) + 1
      BY <1>6, <1>7, <3>2
    <3> QED BY <2>3, <3>1, <3>2
  <2>6. \A f : Offerable(c, f) => Offerable(c, f)'
    BY DEF Offerable
  <2> QED BY <1>1, <1>3, <1>4, <2>2, <2>4, <2>5, <2>6 DEF Ordered, s
<1>10. ASSUME NEW d \in Clients, d # c PROVE (Lined(d) /\ Ordered(d))'
  <2>1. \A f \in Ev : Offerable(d, f) => Offerable(d, f)'
    BY DEF Offerable
  <2> QED BY <1>1, <1>10, <2>1, ClientUntouched DEF InStream
<1> QED BY <1>8, <1>9, <1>10 DEF InStream

LEMMA StreamStep ==
  ASSUME StreamTypes, PublishTypes, InStream, [Next]_vars PROVE InStream'
<1> USE DEF PublishTypes
<1>1. ASSUME UNCHANGED <<callbacks, pending, received, scheduled>>,
             \A c \in Clients : \A e \in Ev : Offerable(c, e) => Offerable(c, e)'
      PROVE  InStream'
  BY <1>1, ClientUntouched DEF InStream
<1>2. ASSUME UNCHANGED <<callbacks, pending, received, scheduled>>, UNCHANGED <<sent, offers>>
      PROVE  InStream'
  BY <1>1, <1>2 DEF Offerable
<1>3. ASSUME NEW t \in Threads, Publish(t) PROVE InStream'
  <2>1. /\ sent' = [sent EXCEPT ![t] = sent[t] + 1]
        /\ offers' = [offers EXCEPT ![t] = subs]
        /\ UNCHANGED <<callbacks, pending, received, scheduled>>
    BY <1>3 DEF Publish, streamVars
  <2>2. \A c \in Clients : \A e \in Ev : Offerable(c, e) => Offerable(c, e)'
    BY <2>1 DEF Offerable, Ev
  <2> QED BY <1>1, <2>1, <2>2
<1>4. ASSUME NEW t \in Threads, CallHandler(t) PROVE InStream'
  BY <1>2, <1>4 DEF CallHandler, streamVars
<1>5. ASSUME NEW c \in Clients, Stream(c) PROVE InStream'
  <2>1. UNCHANGED <<sent, offers>>
    BY <1>5 DEF Stream, busVars
  <2>2. CASE Connect(c) \/ Close(c) \/ ClientStep(c)
    BY <1>2, <2>1, <2>2 DEF Connect, Close, ClientStep, Begin, Abandon, Hangup
  <2> QED BY <1>5, <2>1, <2>2, PutInStream, ReceiveInStream DEF Stream, LoopStep
<1>6. CASE WiringStep
  BY <1>2, <1>6 DEF WiringStep, StartProjector, SubscribeState, SubscribePersist, Attach,
                    UnsubscribeState, Closing, UnsubscribePersist, QueueJoined, WorkerJoined,
                    busVars, streamVars
<1>7. CASE StartEngine \/ StopEngine \/ WorkerStep \/ UNCHANGED vars
  BY <1>2, <1>7 DEF StartEngine, StopEngine, WorkerStep, vars, busVars, streamVars
<1> QED BY <1>3, <1>4, <1>5, <1>6, <1>7, OfferedInStream DEF Next, PublishStep

-----------------------------------------------------------------------------
(* What all properties rest on.                                            *)
LEMMA DeliverySafe == Spec => []DeliveryInv
<1>1. ASSUME Init PROVE DeliveryInv
  <2> USE <1>1 DEF Init, StreamInit
  <2>1. StreamTypes
    BY DEF StreamTypes
  <2>2. PublishTypes
    BY DEF PublishTypes, Lists
  <2>3. Attached
    BY DEF Attached
  <2>4. Waiting = {} /\ Stored = {} /\ Done = {} /\ StillToPersist = {}
    BY DEF Waiting, Elements, Stored, Done, StillToPersist, ToPersist
  <2>5. Ascending(<<>>)
    BY DEF Ascending
  <2>6. InLine /\ Owed
    BY <2>4, <2>5 DEF InLine, Owed
  <2>7. \A c \in Clients : Len(callbacks[c]) = 0 /\ Len(pending[c]) = 0 /\ Len(received[c]) = 0
                           /\ Len(scheduled[c]) = 0
    OBVIOUS
  <2>8. 1..0 = {} /\ 0 <= Capacity
    BY DeliveryAssumption
  <2>9. ASSUME NEW c \in Clients PROVE Lined(c) /\ Ordered(c)
    <3>1. Reached(c) = 0
      BY <2>7 DEF Reached
    <3>2. Lined(c)
      BY <2>7, <2>8, <3>1 DEF Lined
    <3>3. Ascending(received[c]) /\ Ascending(scheduled[c])
      BY <2>7, <2>8 DEF Ascending
    <3>4. Ordered(c)
      BY <2>7, <2>8, <3>3 DEF Ordered
    <3> QED BY <3>2, <3>4
  <2>10. InStream
    BY <2>9 DEF InStream
  <2> QED BY <2>1, <2>2, <2>3, <2>6, <2>10 DEF DeliveryInv
<1>2. ASSUME DeliveryInv, [Next]_vars PROVE DeliveryInv'
  <2>1. LineInv /\ InStream
    BY <1>2 DEF DeliveryInv, LineInv
  <2> QED
    BY <1>2, <2>1, StreamTypesStep, PublishTypesStep, AttachedStep, LineStep, StreamStep
    DEF DeliveryInv
<1> QED
  BY <1>1, <1>2, PTL DEF Spec

(* Each crossing is written at most once and in its camera's order, for    *)
(* any number of workers, events, failed writes and however the process    *)
(* starts and stops.                                                       *)
THEOREM RowsInOrderEver == Spec => []RowsInOrder
<1>1. DeliveryInv => RowsInOrder
  BY DEF DeliveryInv, InLine, RowsInOrder
<1> QED BY <1>1, DeliverySafe, PTL

(* A stop of the projector loses no crossing but those of publishes that   *)
(* had copied the handler, and in the worker entry points these are of     *)
(* workers that outlasted the engine.                                      *)
THEOREM NoneLostEver == Spec => []NoneLost
<1>1. DeliveryInv => NoneLost
  BY DEF DeliveryInv, Owed, Done, NoneLost
<1> QED BY <1>1, DeliverySafe, PTL

(* What waits for a client is a window on what was scheduled for it.       *)
LEMMA Window ==
  ASSUME NEW S, NEW s \in Seq(S), NEW p \in Seq(S), NEW r \in Nat, r <= Len(s), Len(p) <= r,
         \A i \in 1..Len(p) : p[i] = s[r - Len(p) + i]
  PROVE  /\ Len(SubSeq(s, 1, r)) = r
         /\ p = SubSeq(SubSeq(s, 1, r), r - Len(p) + 1, r)
<1> DEFINE puts == SubSeq(s, 1, r)
           m == r - Len(p) + 1
           w == SubSeq(puts, m, r)
<1>1. Len(s) \in Nat /\ Len(p) \in Nat /\ 1 \in Int /\ r \in Int /\ m \in Int
  OBVIOUS
<1>2. \A i \in 1..r : s[i] \in S
  BY <1>1
<1>3. /\ Len(puts) = IF 1 <= r THEN r - 1 + 1 ELSE 0
      /\ \A i \in 1..(r - 1 + 1) : puts[i] = s[1 + i - 1]
  <2> HIDE DEF m
  <2> QED BY <1>1, <1>2, SubSeqProperties
<1>4. Len(puts) = r
  BY <1>1, <1>3
<1>5. \A i \in 1..r : puts[i] = s[i]
  BY <1>1, <1>3
<1> HIDE DEF puts
<1>6. \A i \in m..r : puts[i] \in S
  BY <1>1, <1>2, <1>5
<1> HIDE DEF m
<1>7. /\ w \in Seq(S)
      /\ Len(w) = IF m <= r THEN r - m + 1 ELSE 0
      /\ \A i \in 1..(r - m + 1) : w[i] = puts[m + i - 1]
  BY <1>1, <1>6, SubSeqProperties
<1> HIDE DEF w
<1>8. Len(w) = Len(p)
  BY <1>1, <1>7 DEF m
<1>9. ASSUME NEW i \in 1..Len(p) PROVE p[i] = w[i]
  <2>1. i \in 1..(r - m + 1) /\ m + i - 1 = r - Len(p) + i /\ r - Len(p) + i \in 1..r
    BY <1>1 DEF m
  <2> QED BY <1>5, <1>7, <2>1
<1>10. p = w
  BY <1>7, <1>8, <1>9, SeqEqual
<1> QED BY <1>4, <1>10 DEF puts, m, w

(* What a client was sent, followed by what waits for it and for the loop. *)
LEMMA Spliced ==
  ASSUME NEW S, NEW s \in Seq(S), NEW q \in Seq(S), NEW p \in Seq(S), NEW k \in Seq(S),
         NEW r \in Nat, Len(s) = r + Len(k), Len(p) <= r,
         \A i \in 1..Len(p) : p[i] = s[r - Len(p) + i],
         \A i \in 1..Len(k) : k[i] = s[r + i],
         Ascending(q), Ascending(s),
         \A i \in 1..Len(q), j \in 1..Len(s) : j > r - Len(p) => Before(q[i], s[j])
  PROVE  Ascending(q \o p \o k)
<1> DEFINE qp == q \o p
           all == qp \o k
           at(n) == r - Len(p) + (n - Len(q))
<1>1. Len(s) \in Nat /\ Len(q) \in Nat /\ Len(p) \in Nat /\ Len(k) \in Nat
  OBVIOUS
<1>2. /\ qp \in Seq(S) /\ Len(qp) = Len(q) + Len(p)
      /\ \A i \in 1..(Len(q) + Len(p)) : qp[i] = IF i <= Len(q) THEN q[i] ELSE p[i - Len(q)]
  BY ConcatProperties
<1> HIDE DEF qp
<1>3. /\ Len(all) = Len(qp) + Len(k)
      /\ \A i \in 1..(Len(qp) + Len(k)) :
           all[i] = IF i <= Len(qp) THEN qp[i] ELSE k[i - Len(qp)]
  BY <1>2, ConcatProperties
<1> HIDE DEF all
<1>4. ASSUME NEW i \in 1..Len(q) PROVE all[i] = q[i]
  <2>1. i \in 1..(Len(q) + Len(p)) /\ i \in 1..(Len(qp) + Len(k)) /\ i <= Len(q) /\ i <= Len(qp)
    BY <1>1, <1>2
  <2>2. qp[i] = q[i]
    BY <1>2, <2>1
  <2> QED BY <1>3, <2>1, <2>2
<1>5. ASSUME NEW i \in (Len(q) + 1)..Len(all)
      PROVE  all[i] = s[at(i)] /\ at(i) \in 1..Len(s) /\ at(i) > r - Len(p)
  <2>1. i \in Int /\ i > Len(q) /\ i <= Len(q) + Len(p) + Len(k) /\ i \in 1..(Len(qp) + Len(k))
    BY <1>1, <1>2, <1>3
  <2>2. at(i) \in 1..Len(s) /\ at(i) > r - Len(p)
    BY <1>1, <2>1
  <2>3. CASE i <= Len(q) + Len(p)
    <3>1. i \in 1..(Len(q) + Len(p)) /\ ~(i <= Len(q)) /\ i - Len(q) \in 1..Len(p)
      BY <1>1, <2>1, <2>3
    <3>2. qp[i] = p[i - Len(q)] /\ p[i - Len(q)] = s[at(i)]
      BY <1>2, <3>1
    <3>3. all[i] = qp[i]
      BY <1>2, <1>3, <2>1, <2>3
    <3> QED BY <2>2, <3>2, <3>3
  <2>4. CASE i > Len(q) + Len(p)
    <3> DEFINE j == i - Len(qp)
    <3>1. j \in 1..Len(k) /\ r + j = at(i) /\ ~(i <= Len(qp))
      BY <1>1, <1>2, <2>1, <2>4
    <3>2. all[i] = k[j]
      BY <1>3, <2>1, <3>1
    <3> HIDE DEF j, at
    <3>3. k[j] = s[r + j]
      BY <3>1
    <3> QED BY <2>2, <3>1, <3>2, <3>3
  <2> QED BY <1>1, <2>1, <2>3, <2>4
<1>6. \A i \in (Len(q) + 1)..Len(all), j \in (Len(q) + 1)..Len(all) : i < j => at(i) < at(j)
  BY <1>1
<1>7. Len(all) \in Nat
  BY <1>1, <1>2, <1>3
<1> HIDE DEF at
<1>8. ASSUME NEW i \in 1..Len(all), NEW j \in 1..Len(all), i < j PROVE Before(all[i], all[j])
  <2>1. CASE j \in 1..Len(q)
    <3>1. i \in 1..Len(q)
      BY <1>1, <1>8, <2>1
    <3> QED BY <1>4, <1>8, <2>1, <3>1 DEF Ascending, Before
  <2>2. CASE i \in 1..Len(q) /\ j \notin 1..Len(q)
    <3>1. j \in (Len(q) + 1)..Len(all)
      BY <1>1, <1>7, <2>2
    <3>2. all[i] = q[i] /\ all[j] = s[at(j)] /\ at(j) \in 1..Len(s) /\ at(j) > r - Len(p)
      BY <1>4, <1>5, <2>2, <3>1
    <3> QED BY <2>2, <3>2
  <2>3. CASE i \notin 1..Len(q)
    <3>1. i \in (Len(q) + 1)..Len(all) /\ j \in (Len(q) + 1)..Len(all)
      BY <1>1, <1>7, <1>8, <2>3
    <3>2. at(i) < at(j) /\ all[i] = s[at(i)] /\ all[j] = s[at(j)]
          /\ at(i) \in 1..Len(s) /\ at(j) \in 1..Len(s)
      BY <1>5, <1>6, <1>8, <3>1
    <3> QED BY <3>2 DEF Ascending, Before
  <2> QED BY <2>1, <2>2, <2>3
<1>9. Ascending(all)
  BY <1>8 DEF Ascending, Before
<1> QED BY <1>9 DEF all, qp

(* However slow a client is, it is sent events in the order of each camera *)
(* and what waits for it is the newest of what was put, without a gap.     *)
THEOREM StreamFreshEver == Spec => []StreamFresh
<1>1. ASSUME DeliveryInv, NEW c \in Clients
      PROVE  LET puts == SubSeq(scheduled[c], 1, Len(scheduled[c]) - Len(callbacks[c]))
             IN  /\ Ascending(received[c] \o pending[c] \o callbacks[c])
                 /\ pending[c] = SubSeq(puts, Len(puts) - Len(pending[c]) + 1, Len(puts))
                 /\ Len(pending[c]) <= Capacity
  <2>1. \E s, k, p, q : s = scheduled[c] /\ k = callbacks[c] /\ p = pending[c] /\ q = received[c]
    OBVIOUS
  <2>2. PICK s, k, p, q : s = scheduled[c] /\ k = callbacks[c] /\ p = pending[c] /\ q = received[c]
    BY <2>1
  <2> DEFINE r == Len(s) - Len(k)
  <2>3. s \in Seq(Ev) /\ k \in Seq(Ev) /\ p \in Seq(Ev) /\ q \in Seq(Ev)
    BY <1>1, <2>2 DEF DeliveryInv, StreamTypes
  <2>4. Reached(c) = r
    BY <2>2 DEF Reached
  <2>5. Lined(c) /\ Ordered(c)
    BY <1>1 DEF DeliveryInv, InStream
  <2>6. /\ Len(k) <= Len(s) /\ Len(p) <= r /\ Len(p) <= Capacity
        /\ \A i \in 1..Len(k) : k[i] = s[r + i]
        /\ \A i \in 1..Len(p) : p[i] = s[r - Len(p) + i]
    BY <2>2, <2>4, <2>5 DEF Lined
  <2>7. /\ Ascending(q) /\ Ascending(s)
        /\ \A i \in 1..Len(q), j \in 1..Len(s) : j > r - Len(p) => Before(q[i], s[j])
    BY <2>2, <2>4, <2>5 DEF Ordered
  <2>8. r \in Nat /\ r <= Len(s) /\ Len(s) = r + Len(k)
    BY <2>3, <2>6
  <2> HIDE DEF r
  <2>9. Ascending(q \o p \o k)
    BY <2>3, <2>6, <2>7, <2>8, Spliced
  <2>10. Len(SubSeq(s, 1, r)) = r /\ p = SubSeq(SubSeq(s, 1, r), r - Len(p) + 1, r)
    BY <2>3, <2>6, <2>8, Window
  <2> QED BY <2>2, <2>6, <2>9, <2>10 DEF r
<1>2. DeliveryInv => StreamFresh
  BY <1>1 DEF StreamFresh
<1> QED BY <1>2, DeliverySafe, PTL
=============================================================================
