---------------------------- MODULE EventStream ----------------------------
(***************************************************************************)
(* The clients of GET /stream: AsyncSubscription (app/events/              *)
(* subscription.py) and sse_stream (app/publish/sse.py).                   *)
(*                                                                         *)
(* A publishing thread offers an event by scheduling a callback on the API *)
(* loop; the callback puts the event into the client's bounded queue and   *)
(* drops the oldest one of a full queue; the client's generator takes      *)
(* events out. The generator yields a first comment before it enters the   *)
(* try whose finally closes the subscription, so a client may be gone      *)
(* before anything would deregister it.                                    *)
(***************************************************************************)
EXTENDS Naturals, Sequences

CONSTANTS
  Clients,      \* SSE clients, each of which connects at most once
  Topics,       \* the areas each client asked for
  Capacity      \* maxsize of a subscription's queue

VARIABLES
  subs,         \* the bus's subscriptions
  stream,       \* where each client's generator is
  callbacks,    \* puts scheduled on the loop, in order
  pending,      \* the subscription's queue
  received,     \* history: the events the client was sent
  scheduled     \* history: the events offered to it

streamVars == <<subs, stream, callbacks, pending, received, scheduled>>

StreamInit ==
  /\ subs = {}
  /\ stream = [c \in Clients |-> "none"]
  /\ callbacks = [c \in Clients |-> <<>>]
  /\ pending = [c \in Clients |-> <<>>]
  /\ received = [c \in Clients |-> <<>>]
  /\ scheduled = [c \in Clients |-> <<>>]

(* The subscription is on the bus; the generator has not entered its try.  *)
Connect(c) ==
  /\ stream[c] = "none"
  /\ stream' = [stream EXCEPT ![c] = "created"]
  /\ subs' = subs \union {c}
  /\ UNCHANGED <<callbacks, pending, received, scheduled>>

Begin(c) ==
  /\ stream[c] = "created"
  /\ stream' = [stream EXCEPT ![c] = "open"]
  /\ UNCHANGED <<subs, callbacks, pending, received, scheduled>>

(* Gone before the try: no finally runs, and the subscription stays.       *)
Abandon(c) ==
  /\ stream[c] = "created"
  /\ stream' = [stream EXCEPT ![c] = "abandoned"]
  /\ UNCHANGED <<subs, callbacks, pending, received, scheduled>>

Hangup(c) ==
  /\ stream[c] = "open"
  /\ stream' = [stream EXCEPT ![c] = "gone"]
  /\ UNCHANGED <<subs, callbacks, pending, received, scheduled>>

(* The finally clause: aclose() marks the subscription, takes it off the   *)
(* bus and, if there is room, queues an end marker nobody will read.       *)
Close(c) ==
  /\ stream[c] = "gone"
  /\ stream' = [stream EXCEPT ![c] = "closed"]
  /\ subs' = subs \ {c}
  /\ UNCHANGED <<callbacks, pending, received, scheduled>>

(* Events carry the area of the camera that published them.                *)
Matches(c, e) == e[1] \in Topics[c]

(* offer(): nothing is scheduled for a closed or uninterested subscription. *)
Offered(c, e) ==
  /\ IF stream[c] # "closed" /\ Matches(c, e)
     THEN /\ callbacks' = [callbacks EXCEPT ![c] = Append(@, e)]
          /\ scheduled' = [scheduled EXCEPT ![c] = Append(@, e)]
     ELSE UNCHANGED <<callbacks, scheduled>>
  /\ UNCHANGED <<subs, stream, pending, received>>

\* Mutant: a full queue turns the new event away.
Queued_DropNewest(q, e) == IF Len(q) = Capacity THEN q ELSE Append(q, e)

Queued(q, e) == Append(IF Len(q) = Capacity THEN Tail(q) ELSE q, e)

(* The loop runs the callback.                                             *)
Put(c) ==
  /\ callbacks[c] # <<>>
  /\ callbacks' = [callbacks EXCEPT ![c] = Tail(@)]
  /\ pending' = [pending EXCEPT ![c] = Queued(@, Head(callbacks[c]))]
  /\ UNCHANGED <<subs, stream, received, scheduled>>

Receive(c) ==
  /\ stream[c] = "open" /\ pending[c] # <<>>
  /\ received' = [received EXCEPT ![c] = Append(@, Head(pending[c]))]
  /\ pending' = [pending EXCEPT ![c] = Tail(@)]
  /\ UNCHANGED <<subs, stream, callbacks, scheduled>>

(* What the API loop does by itself, and what connected clients do.        *)
LoopStep(c) == Put(c) \/ Receive(c) \/ Close(c)

ClientStep(c) == Begin(c) \/ Abandon(c) \/ Hangup(c)

-----------------------------------------------------------------------------
(* What a client is sent is in the order of its cameras, and what waits    *)
(* for it is the newest of what was put, without a gap: a slow client      *)
(* loses the oldest events and never the latest ("a slow client drops      *)
(* oldest", event_bus.py:10).                                              *)
Ascending(s) ==
  \A i, j \in 1..Len(s) : i < j /\ s[i][1] = s[j][1] => s[i][2] < s[j][2]

StreamFresh ==
  \A c \in Clients :
    LET puts == SubSeq(scheduled[c], 1, Len(scheduled[c]) - Len(callbacks[c]))
    IN  /\ Ascending(received[c] \o pending[c] \o callbacks[c])
        /\ pending[c] = SubSeq(puts, Len(puts) - Len(pending[c]) + 1, Len(puts))
        /\ Len(pending[c]) <= Capacity

(* "The subscription is always closed via aclose() when the generator      *)
(* terminates (client disconnect, cancellation, or end of stream)",        *)
(* sse.py:57: no client that left stays subscribed.                        *)
AlwaysClosed ==
  \A c \in Clients : (stream[c] \in {"abandoned", "gone"}) ~> (c \notin subs)
=============================================================================
