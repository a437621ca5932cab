--------------------------- MODULE EventDelivery ---------------------------
(***************************************************************************)
(* One process around its event bus: camera workers publish on             *)
(* InMemoryEventBus (app/events/event_bus.py), RuntimeWiring (app/services/ *)
(* runtime_wiring.py) attaches the StateProjector and the                  *)
(* PersistenceProjector (app/services/projectors.py) and detaches them at  *)
(* shutdown, and SSE clients subscribe as EventStream says.                *)
(*                                                                         *)
(* publish() copies the handlers and subscriptions under the bus's lock    *)
(* and calls them outside it, so a publish in flight goes on to use what   *)
(* was unsubscribed meanwhile. An event is <<thread, n>>: the n-th event   *)
(* of the camera the thread works for. A crossing (odd n) is followed by   *)
(* the count it led to (even n).                                           *)
(*                                                                         *)
(* The two entry points of app/main.py differ in the order of things:      *)
(* "workers" attaches before the engine starts and detaches after it       *)
(* stopped; "api" starts the engine first, and uvicorn's lifespan attaches *)
(* and detaches while it runs.                                             *)
(***************************************************************************)
EXTENDS EventStream, FiniteSets

CONSTANTS
  Threads,      \* camera workers
  MaxEvents,    \* bound of the model: events each worker publishes
  Outlasting    \* workers that may outlast the joins of Engine.stop()

ASSUME DeliveryAssumption ==
  /\ IsFiniteSet(Threads) /\ Outlasting \subseteq Threads
  /\ MaxEvents \in [Threads -> Nat] /\ Capacity \in Nat \ {0}
  /\ Topics \in [Clients -> SUBSET Threads]

VARIABLES
  mode,         \* the entry point: "workers" or "api"
  engine,       \* whether the engine runs
  wiring,       \* where RuntimeWiring.start() or close_sync() is
  handlers,     \* the bus's sync handlers, in order of subscription
  sent,         \* events each worker has published
  todo,         \* handlers its current publish has yet to call
  offers,       \* subscriptions its current publish has yet to offer to
  shown,        \* the read model: the last count projected per camera
  queue,        \* the persistence projector's queue
  unfinished,   \* queue.Queue.unfinished_tasks
  stopEvent,    \* its stop flag
  worker,       \* where its thread is
  writing,      \* the events in its thread's hands: none or one
  rows,         \* the crossings in the database, in order of commit
  failed,       \* history: crossings whose write failed
  owed,         \* history: crossings whose publish copied the handler
  straggling    \* history: events whose publish was in flight at detachment

projectorVars == <<queue, unfinished, stopEvent, worker, writing, rows, failed>>
busVars == <<handlers, sent, todo, offers, shown>>
ghosts == <<owed, straggling>>
vars == <<mode, engine, wiring, busVars, projectorVars, ghosts, streamVars>>

Init ==
  /\ mode \in {"workers", "api"}
  /\ engine = "off" /\ wiring = "off"
  /\ handlers = <<>>
  /\ sent = [t \in Threads |-> 0]
  /\ todo = [t \in Threads |-> <<>>]
  /\ offers = [t \in Threads |-> {}]
  /\ shown = [t \in Threads |-> 0]
  /\ queue = <<>> /\ unfinished = 0 /\ stopEvent = FALSE
  /\ worker = "none" /\ writing = {} /\ rows = <<>> /\ failed = {}
  /\ owed = {} /\ straggling = {}
  /\ StreamInit

Event(t) == <<t, sent[t]>>
IsCrossing(n) == n % 2 = 1
InFlight(t) == todo[t] # <<>> \/ offers[t] # {}

-----------------------------------------------------------------------------
(* The engine, as far as it decides when workers publish.                  *)

StartEngine ==
  /\ engine = "off"
  /\ wiring = IF mode = "workers" THEN "up" ELSE "off"
  /\ engine' = "on"
  /\ UNCHANGED <<mode, wiring, busVars, projectorVars, ghosts, streamVars>>

(* stop() returns: a worker is done, or has outlasted its join.            *)
StopEngine ==
  /\ engine = "on"
  /\ mode = "api" => wiring = "closed"
  /\ \A t \in Threads \ Outlasting : ~InFlight(t)
  /\ engine' = "stopped"
  /\ UNCHANGED <<mode, wiring, busVars, projectorVars, ghosts, streamVars>>

(* publish(): both lists are copied under the lock.                        *)
Publish(t) ==
  /\ engine = "on" \/ (engine = "stopped" /\ t \in Outlasting)
  /\ ~InFlight(t) /\ sent[t] < MaxEvents[t]
  /\ sent' = [sent EXCEPT ![t] = @ + 1]
  /\ todo' = [todo EXCEPT ![t] = handlers]
  /\ offers' = [offers EXCEPT ![t] = subs]
  /\ owed' = IF "persist" \in {handlers[i] : i \in 1..Len(handlers)} /\ IsCrossing(sent[t] + 1)
             THEN owed \union {<<t, sent[t] + 1>>} ELSE owed
  /\ UNCHANGED <<mode, engine, wiring, handlers, shown, projectorVars, straggling,
                 streamVars>>

(* StateProjector.handle(): only counts are projected; a store that raises *)
(* is the bus's problem, which logs it and goes on.                        *)
Project(t) ==
  /\ Head(todo[t]) = "state"
  /\ \/ ~IsCrossing(sent[t]) /\ shown' = [shown EXCEPT ![t] = sent[t]]
     \/ UNCHANGED shown
  /\ UNCHANGED <<queue, unfinished>>

(* PersistenceProjector.handle(): only crossings are queued.               *)
Enqueue(t) ==
  /\ Head(todo[t]) = "persist"
  /\ IF IsCrossing(sent[t])
     THEN queue' = Append(queue, Event(t)) /\ unfinished' = unfinished + 1
     ELSE UNCHANGED <<queue, unfinished>>
  /\ UNCHANGED shown

CallHandler(t) ==
  /\ todo[t] # <<>>
  /\ todo' = [todo EXCEPT ![t] = Tail(@)]
  /\ Project(t) \/ Enqueue(t)
  /\ UNCHANGED <<mode, engine, wiring, handlers, sent, offers, stopEvent, worker, writing,
                 rows, failed, ghosts, streamVars>>

OfferTo(t, c) ==
  /\ todo[t] = <<>> /\ c \in offers[t]
  /\ offers' = [offers EXCEPT ![t] = @ \ {c}]
  /\ Offered(c, Event(t))
  /\ UNCHANGED <<mode, engine, wiring, handlers, sent, todo, shown, projectorVars, ghosts>>

PublishStep(t) == CallHandler(t) \/ \E c \in Clients : OfferTo(t, c)

-----------------------------------------------------------------------------
(* The persistence projector's thread.                                     *)

(* Its loop: end when told to and the queue is empty, else get an event or *)
(* try again after half a second.                                          *)
WorkerExits ==
  /\ worker = "top" /\ stopEvent /\ queue = <<>>
  /\ worker' = "ended"
  /\ UNCHANGED <<queue, unfinished, stopEvent, writing, rows, failed>>

WorkerGets ==
  /\ worker = "top" /\ queue # <<>>
  /\ worker' = "writing"
  /\ writing' = {Head(queue)} /\ queue' = Tail(queue)
  /\ UNCHANGED <<unfinished, stopEvent, rows, failed>>

\* Mutant: task_done() is not called after a failed write.
Persist_NotDone ==
  /\ worker = "writing" /\ worker' = "top" /\ writing' = {}
  /\ \E e \in writing :
       \/ rows' = Append(rows, e) /\ unfinished' = unfinished - 1 /\ UNCHANGED failed
       \/ failed' = failed \union {e} /\ UNCHANGED <<rows, unfinished>>
  /\ UNCHANGED <<queue, stopEvent>>

\* Mutant: a failed event is put back to be tried again.
Persist_Requeued ==
  /\ worker = "writing" /\ worker' = "top" /\ writing' = {}
  /\ \E e \in writing :
       \/ /\ rows' = Append(rows, e) /\ unfinished' = unfinished - 1
          /\ UNCHANGED <<queue, failed>>
       \/ queue' = Append(queue, e) /\ UNCHANGED <<rows, failed, unfinished>>
  /\ UNCHANGED stopEvent

(* One transaction per event; a failure is logged and the event skipped.   *)
Persist ==
  /\ worker = "writing" /\ worker' = "top" /\ writing' = {}
  /\ \E e \in writing :
       \/ rows' = Append(rows, e) /\ UNCHANGED failed
       \/ failed' = failed \union {e} /\ UNCHANGED rows
  /\ unfinished' = unfinished - 1
  /\ UNCHANGED <<queue, stopEvent>>

WorkerStep ==
  /\ WorkerExits \/ WorkerGets \/ Persist
  /\ UNCHANGED <<mode, engine, wiring, busVars, ghosts, streamVars>>

-----------------------------------------------------------------------------
(* RuntimeWiring.start() and close_sync(), one statement at a time.        *)

Attach(from, to, h) ==
  /\ wiring = from /\ wiring' = to
  /\ handlers' = Append(handlers, h)
  /\ UNCHANGED <<mode, engine, sent, todo, offers, shown, projectorVars, ghosts,
                 streamVars>>

StartProjector ==
  /\ wiring = "off" /\ (mode = "api" => engine = "on")
  /\ wiring' = "started" /\ worker' = "top"
  /\ UNCHANGED <<mode, engine, busVars, queue, unfinished, stopEvent, writing, rows,
                 failed, ghosts, streamVars>>

SubscribeState == Attach("started", "half", "state")
SubscribePersist == Attach("half", "up", "persist")

(* uvicorn ends its connections before it ends the lifespan.               *)
UnsubscribeState ==
  /\ wiring = "up" /\ engine = (IF mode = "workers" THEN "stopped" ELSE "on")
  /\ \A c \in Clients : stream[c] \in {"none", "abandoned", "closed"}
  /\ wiring' = "detaching" /\ handlers' = <<"persist">>
  /\ UNCHANGED <<mode, engine, sent, todo, offers, shown, projectorVars, ghosts,
                 streamVars>>

\* Mutant: the persistence projector is stopped but stays subscribed.
UnsubscribePersist_Not ==
  /\ wiring = "detaching" /\ wiring' = "draining"
  /\ straggling' = {Event(t) : t \in {u \in Threads : todo[u] # <<>>}}
  /\ UNCHANGED <<mode, engine, busVars, projectorVars, owed, streamVars>>

UnsubscribePersist ==
  /\ wiring = "detaching" /\ wiring' = "draining" /\ handlers' = <<>>
  /\ straggling' = {Event(t) : t \in {u \in Threads : todo[u] # <<>>}}
  /\ UNCHANGED <<mode, engine, sent, todo, offers, shown, projectorVars, owed, streamVars>>

(* stop(): queue.join() returned; the worker may now stop.                 *)
QueueJoined ==
  /\ wiring = "draining" /\ unfinished = 0
  /\ wiring' = "joining" /\ stopEvent' = TRUE
  /\ UNCHANGED <<mode, engine, busVars, queue, unfinished, worker, writing, rows, failed,
                 ghosts, streamVars>>

WorkerJoined ==
  /\ wiring = "joining" /\ worker = "ended"
  /\ wiring' = "closed"
  /\ UNCHANGED <<mode, engine, busVars, projectorVars, ghosts, streamVars>>

Closing == UnsubscribePersist \/ QueueJoined \/ WorkerJoined

WiringStep ==
  StartProjector \/ SubscribeState \/ SubscribePersist \/ UnsubscribeState \/ Closing

(* Clients connect while the API serves.                                   *)
Stream(c) ==
  /\ \/ mode = "api" /\ wiring = "up" /\ Connect(c)
     \/ LoopStep(c) \/ ClientStep(c)
  /\ UNCHANGED <<mode, engine, wiring, busVars, projectorVars, ghosts>>

Next ==
  \/ StartEngine \/ StopEngine \/ WiringStep \/ WorkerStep
  \/ \E t \in Threads : Publish(t) \/ PublishStep(t)
  \/ \E c \in Clients : Stream(c)

Spec == Init /\ [][Next]_vars

(* Threads that can run do, and so does the API loop. Nobody has to start, *)
(* stop, publish or connect.                                               *)
LoopRuns(c) ==
  LoopStep(c) /\ UNCHANGED <<mode, engine, wiring, busVars, projectorVars, ghosts>>

Fairness ==
  /\ WF_vars(WorkerStep) /\ WF_vars(Closing)
  /\ \A t \in Threads : WF_vars(PublishStep(t))
  /\ \A c \in Clients : WF_vars(LoopRuns(c))

FairSpec == Spec /\ Fairness

-----------------------------------------------------------------------------
TypeOK ==
  /\ mode \in {"workers", "api"} /\ engine \in {"off", "on", "stopped"}
  /\ wiring \in {"off", "started", "half", "up", "detaching", "draining", "joining",
                 "closed"}
  /\ worker \in {"none", "top", "writing", "ended"}
  /\ handlers \in Seq({"state", "persist"})
  /\ todo \in [Threads -> Seq({"state", "persist"})]
  /\ offers \in [Threads -> SUBSET Clients]
  /\ sent \in [Threads -> Nat] /\ shown \in [Threads -> Nat]
  /\ queue \in Seq(Threads \X Nat) /\ rows \in Seq(Threads \X Nat)
  /\ unfinished \in Nat /\ stopEvent \in BOOLEAN
  /\ writing \subseteq Threads \X Nat /\ failed \subseteq Threads \X Nat
  /\ owed \subseteq Threads \X Nat /\ straggling \subseteq Threads \X Nat

Stored == {rows[i] : i \in 1..Len(rows)}

(* Each crossing is written at most once and in the order its camera saw   *)
(* them, whatever is attached, detached or stopped meanwhile.              *)
RowsInOrder == Ascending(rows) /\ Stored \intersect failed = {}

(* A stop of the projector loses no crossing ("so no buffered event is     *)
(* lost on shutdown", projectors.py:131) but those of publishes that had   *)
(* copied the handler before it was unsubscribed. With the order of the    *)
(* worker entry points these are of workers that outlasted the engine.     *)
NoneLost ==
  /\ wiring = "closed" => owed \ straggling \subseteq Stored \union failed
  /\ mode = "workers" => \A e \in straggling : e[1] \in Outlasting

(* close_sync() returns, although the projector's stop() waits without a   *)
(* timeout for a queue that workers may still fill and writes that fail.   *)
CloseReturns == wiring = "detaching" ~> wiring = "closed"
=============================================================================
