------------------------------ MODULE RedisBus ------------------------------
(***************************************************************************)
(* RedisEventBus (app/events/redis_bus.py) in several processes: publish() *)
(* dispatches to the process's own handlers and then sends to a Redis      *)
(* channel; a listener thread dispatches what other processes sent. Redis  *)
(* keeps no backlog: it pushes a message to the connections subscribed at  *)
(* that moment, and an outage loses what they have not read. The head of a *)
(* buffer is in the hands of its listener while that is handling it.       *)
(*                                                                         *)
(* The threads that publish are the workers of the cameras (see            *)
(* CameraPipeline), several to a process, and publish() holds no lock      *)
(* while it dispatches and sends: what two of them publish interleaves. An *)
(* event is <<w, n>>, the n-th of its worker. The listener threads of a    *)
(* process are numbered in the order start() made them.                    *)
(***************************************************************************)
EXTENDS Naturals, Sequences

CONSTANTS
  Procs,        \* processes, each with one bus
  Workers,      \* threads that publish
  Home,         \* the process each of them runs in
  MaxMessages,  \* bound of the model: events each worker publishes
  MaxListeners  \* bound of the model: listener threads a process makes

ASSUME RedisAssumption ==
  /\ Home \in [Workers -> Procs]
  /\ MaxMessages \in [Workers -> Nat] /\ MaxListeners \in [Procs -> Nat]

VARIABLES
  redis,        \* the server: "up" or "down"
  attached,     \* whether the process has subscribed its handlers
  thread,       \* _listener_thread: 0 is None
  listener,     \* where each listener thread is
  linked,       \* whether its subscription is live
  buffer,       \* messages its connection has received and not read
  stop,         \* the stop flag the process's listeners look at
  closing,      \* whether a close() waits to join
  sending,      \* whether a worker's publish() has dispatched and not yet sent
  published,    \* events each worker has published
  got,          \* events each process's handlers were called with
  outlived      \* history: processes that started beside an old listener

threadVars == <<thread, listener, linked, buffer>>
redisVars == <<redis, attached, threadVars, stop, closing, sending, published, got, outlived>>

Generations(p) == 1..MaxListeners[p]
Dead == {"none", "ended"}

RedisInit ==
  /\ redis \in {"up", "down"}
  /\ attached = [p \in Procs |-> FALSE]
  /\ thread = [p \in Procs |-> 0]
  /\ listener = [p \in Procs |-> [g \in Generations(p) |-> "none"]]
  /\ linked = [p \in Procs |-> [g \in Generations(p) |-> FALSE]]
  /\ buffer = [p \in Procs |-> [g \in Generations(p) |-> <<>>]]
  /\ stop = [p \in Procs |-> FALSE]
  /\ closing = [p \in Procs |-> FALSE]
  /\ sending = [w \in Workers |-> FALSE]
  /\ published = [w \in Workers |-> 0]
  /\ got = [p \in Procs |-> <<>>]
  /\ outlived = {}

-----------------------------------------------------------------------------
(* The Redis server.                                                       *)

RedisFails ==
  /\ redis = "up" /\ redis' = "down"
  /\ linked' = [p \in Procs |-> [g \in Generations(p) |-> FALSE]]
  /\ buffer' = [p \in Procs |-> [g \in Generations(p) |->
                 IF listener[p][g] = "handling" THEN <<Head(buffer[p][g])>> ELSE <<>>]]
  /\ UNCHANGED <<attached, thread, listener, stop, closing, sending, published, got, outlived>>

RedisReturns ==
  /\ redis = "down" /\ redis' = "up"
  /\ UNCHANGED <<attached, threadVars, stop, closing, sending, published, got, outlived>>

-----------------------------------------------------------------------------
(* publish().                                                              *)

(* event_to_dict() keeps every field but the type, which it keeps under a  *)
(* key of its own; _encode() adds the origin, Home[w].                     *)
Message(w) == <<w, published[w]>>

Dispatched(p, e) == got' = [got EXCEPT ![p] = Append(@, e)]

(* A worker calls publish() from its loop, so one call at a time is its.   *)
PublishRedis(w) ==
  /\ attached[Home[w]] /\ ~sending[w] /\ published[w] < MaxMessages[w]
  /\ published' = [published EXCEPT ![w] = @ + 1]
  /\ Dispatched(Home[w], <<w, published[w] + 1>>)
  /\ sending' = [sending EXCEPT ![w] = TRUE]
  /\ UNCHANGED <<redis, attached, threadVars, stop, closing, outlived>>

Pushed(e) ==
  [q \in Procs |-> [g \in Generations(q) |->
     IF linked[q][g] THEN Append(buffer[q][g], e) ELSE buffer[q][g]]]

(* A publish that fails is logged and the client dropped; the event was    *)
(* delivered locally only.                                                 *)
Send(w) ==
  /\ sending[w] /\ sending' = [sending EXCEPT ![w] = FALSE]
  /\ \/ redis = "up" /\ buffer' = Pushed(Message(w))
     \/ UNCHANGED buffer
  /\ UNCHANGED <<redis, attached, thread, listener, linked, stop, closing, published, got,
                 outlived>>

-----------------------------------------------------------------------------
(* start() and close(), called by one thread of the process.               *)

ListenerAlive(p) == thread[p] # 0 /\ listener[p][thread[p]] \notin Dead

Unused(p) == {g \in Generations(p) : listener[p][g] = "none"}

StartListener(p) ==
  \E g \in Unused(p) :
    /\ \A h \in Unused(p) : g <= h
    /\ thread' = [thread EXCEPT ![p] = g]
    /\ listener' = [listener EXCEPT ![p][g] = "top"]
    /\ stop' = [stop EXCEPT ![p] = FALSE]
    /\ outlived' = IF \E h \in Generations(p) : listener[p][h] \notin Dead /\ h # thread[p]
                   THEN outlived \union {p} ELSE outlived

(* Any subscription starts the listener if it does not run.                *)
Subscribe(p) ==
  /\ ~closing[p]
  /\ attached' = [attached EXCEPT ![p] = TRUE]
  /\ IF ListenerAlive(p) THEN UNCHANGED <<thread, listener, stop, outlived>> ELSE StartListener(p)
  /\ UNCHANGED <<redis, linked, buffer, closing, sending, published, got>>

CloseBus(p) ==
  /\ ~closing[p] /\ thread[p] # 0
  /\ closing' = [closing EXCEPT ![p] = TRUE]
  /\ stop' = [stop EXCEPT ![p] = TRUE]
  /\ UNCHANGED <<redis, attached, threadVars, sending, published, got, outlived>>

(* The join waits a second longer than a read and a backoff take, so only  *)
(* a listener held up by a connection attempt or a handler outlasts it.    *)
Joined(p) == listener[p][thread[p]] \in {"ended", "connecting", "handling"}

CloseJoined(p) ==
  /\ closing[p] /\ Joined(p)
  /\ closing' = [closing EXCEPT ![p] = FALSE]
  /\ thread' = [thread EXCEPT ![p] = 0]
  /\ UNCHANGED <<redis, attached, listener, linked, buffer, stop, sending, published, got,
                 outlived>>

-----------------------------------------------------------------------------
(* The listener thread.                                                    *)

Goes(p, g, state) == listener' = [listener EXCEPT ![p][g] = state]
Link(p, g, live) == linked' = [linked EXCEPT ![p][g] = live]
Emptied(p, g) == buffer' = [buffer EXCEPT ![p][g] = <<>>]
OutsideListener == UNCHANGED <<redis, attached, thread, stop, closing, sending, published, outlived>>

(* The head of the loop.                                                   *)
LoopTest(p, g) ==
  /\ listener[p][g] = "top"
  /\ Goes(p, g, IF stop[p] THEN "ended" ELSE "connecting")
  /\ UNCHANGED <<linked, buffer, got>> /\ OutsideListener

OpenConnection(p, g) ==
  /\ listener[p][g] = "connecting"
  /\ \/ redis = "up" /\ Goes(p, g, "consuming") /\ Link(p, g, TRUE)
     \/ redis = "down" /\ Goes(p, g, "failed") /\ UNCHANGED linked
  /\ UNCHANGED <<buffer, got>> /\ OutsideListener

(* _consume() ends when told to; the subscription is closed.               *)
StopConsuming(p, g) ==
  /\ listener[p][g] = "consuming" /\ stop[p]
  /\ Goes(p, g, "top") /\ Link(p, g, FALSE) /\ Emptied(p, g)
  /\ UNCHANGED got /\ OutsideListener

(* A read from a connection that was lost raises, or the client library    *)
(* subscribes again by itself.                                             *)
ReadLost(p, g) ==
  /\ listener[p][g] = "consuming" /\ ~stop[p] /\ ~linked[p][g]
  /\ \/ Goes(p, g, "failed") /\ UNCHANGED linked
     \/ redis = "up" /\ Link(p, g, TRUE) /\ UNCHANGED listener
  /\ UNCHANGED <<buffer, got>> /\ OutsideListener

ReadMessage(p, g) ==
  /\ listener[p][g] = "consuming" /\ ~stop[p] /\ buffer[p][g] # <<>>
  /\ Goes(p, g, "handling")
  /\ UNCHANGED <<linked, buffer, got>> /\ OutsideListener

\* Mutant: a process's own events are dispatched when they come back.
Foreign_All(p, e) == TRUE

Foreign(p, e) == Home[e[1]] # p

(* _handle_message(): what is the process's own, or cannot be decoded, is  *)
(* dropped.                                                                *)
HandleMessage(p, g) ==
  /\ listener[p][g] = "handling" /\ Goes(p, g, "consuming")
  /\ buffer' = [buffer EXCEPT ![p][g] = Tail(@)]
  /\ \/ Foreign(p, Head(buffer[p][g])) /\ Dispatched(p, Head(buffer[p][g]))
     \/ UNCHANGED got
  /\ UNCHANGED linked /\ OutsideListener

\* Mutant: an error ends the listener for good.
Backoff_Ends(p, g) ==
  /\ listener[p][g] = "failed" /\ Goes(p, g, "ended")
  /\ UNCHANGED <<linked, buffer, got>> /\ OutsideListener

(* After an error: end if told to, else try again after a second.          *)
Backoff(p, g) ==
  /\ listener[p][g] = "failed"
  /\ Goes(p, g, IF stop[p] THEN "ended" ELSE "top")
  /\ UNCHANGED <<linked, buffer, got>> /\ OutsideListener

ListenerStep(p, g) ==
  \/ LoopTest(p, g) \/ OpenConnection(p, g) \/ StopConsuming(p, g) \/ ReadLost(p, g)
  \/ ReadMessage(p, g) \/ HandleMessage(p, g) \/ Backoff(p, g)

RedisNext ==
  \/ RedisFails \/ RedisReturns
  \/ \E w \in Workers : PublishRedis(w) \/ Send(w)
  \/ \E p \in Procs :
       \/ Subscribe(p) \/ CloseBus(p) \/ CloseJoined(p)
       \/ \E g \in Generations(p) : ListenerStep(p, g)

(* Threads that can run do. Redis may stay down, nobody has to publish,    *)
(* subscribe or close.                                                     *)
RedisFairness ==
  \A p \in Procs : \A g \in Generations(p) : WF_redisVars(ListenerStep(p, g))

RedisSpec == RedisInit /\ [][RedisNext]_redisVars /\ RedisFairness

-----------------------------------------------------------------------------
Before(e, f) == e[1] = f[1] => e[2] < f[2]

(* The handlers of a process see what was published, each event at most    *)
(* once, those of one worker in order, and all of the process's own,       *)
(* through outages, reconnections and restarts and beside the publishes of *)
(* other workers. (A row of the history is appended for each, see          *)
(* EventDelivery.) Excepted are processes whose close() gave up on a       *)
(* listener and that were started again beside it.                         *)
OnceInOrder ==
  \A p \in Procs \ outlived :
    /\ \A i \in 1..Len(got[p]) : got[p][i][2] \in 1..published[got[p][i][1]]
    /\ \A i, j \in 1..Len(got[p]) : i < j => Before(got[p][i], got[p][j])
    /\ \A w \in Workers : Home[w] = p =>
         \A n \in 1..published[w] : \E i \in 1..Len(got[p]) : got[p][i] = <<w, n>>

(* The order in which a process dispatched the events of two workers is    *)
(* not the order in which another one does: no lock is held between        *)
(* _dispatch() and the send (redis_bus.py:124-127).                        *)
Precedes(p, e, f) == \E i, j \in 1..Len(got[p]) : i < j /\ got[p][i] = e /\ got[p][j] = f

LocalOrderKept ==
  \A p, q \in Procs : \A u, v \in Workers : \A m \in 1..published[u], n \in 1..published[v] :
    Home[u] = p /\ Home[v] = p /\ Precedes(p, <<u, m>>, <<v, n>>)
      => ~Precedes(q, <<v, n>>, <<u, m>>)

(* A process that has subscribed listens again after every outage ("the    *)
(* listener thread reconnects in the background", redis_bus.py:20), also   *)
(* when it was closed and started again.                                   *)
ListensAgain ==
  \A p \in Procs :
    []<>(redis = "down" \/ thread[p] = 0 \/ closing[p] \/ linked[p][thread[p]])

(* "a single background listener thread" (redis_bus.py:10): never two of a *)
(* process that both dispatch.                                             *)
OneListener ==
  \A p \in Procs : \A g, h \in Generations(p) :
    linked[p][g] /\ linked[p][h] => g = h
=============================================================================
