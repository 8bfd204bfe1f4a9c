------------------------------ MODULE Realtime ------------------------------
(***************************************************************************)
(* The server's event path (src/unnamed/part_007 provideService, and       *)
(* gamify.New in src/gamify/gamify.go): an async EventBus whose only       *)
(* handlers are the bridges gamify.New subscribes, one per event type,     *)
(* each calling hub.Broadcast; and the Hub, whose subscribers are the      *)
(* WebSocket clients.                                                      *)
(*                                                                         *)
(* The components are the EventBus and Hub modules, instantiated over      *)
(* disjoint variables.  A bus worker calling a bridge handler is the hub's *)
(* broadcaster: the call starts with Broadcast's copy, goes on with one    *)
(* send per copied channel, and returns to dispatchSync's loop only when   *)
(* the sends are done.  A send on a closed channel panics in the worker    *)
(* and so ends the whole process: after it nothing runs.                   *)
(***************************************************************************)
EXTENDS Naturals, Sequences, FiniteSets, Functions

CONSTANTS
    Types,          \* event types bridged to the hub
    Publishers,     \* goroutines calling Publish (service calls)
    Workers,        \* the bus's async workers
    QueueCap,       \* the capacity of asyncQueue
    MaxPublish,     \* Publish calls per publisher
    MaxClients,     \* hub.Subscribe calls (WebSocket connections)
    Buffer          \* the buffer of a client's channel

VARIABLES
    subType, active, nextID, unsubbed, queue, cancelled, ppc, pcount,
    wpc, cur, pending, accepted, dispatched, delivered,     \* the bus
    subs, next, buf, closed, bpc, receivers, sent,
    readerDone, crashed,                                    \* the hub
    calling     \* calling[w]: the bridge handler worker w is inside, or 0

busVars == <<subType, active, nextID, unsubbed, queue, cancelled, ppc,
             pcount, wpc, cur, pending, accepted, dispatched, delivered>>
hubVars == <<subs, next, buf, closed, bpc, receivers, sent, readerDone, crashed>>
vars == <<busVars, hubVars, calling>>

Bridges == Cardinality(Types)   \* gamify.New's four bus.Subscribe calls

Bus == INSTANCE EventBus WITH Mode <- "async", MaxSubs <- Bridges
H == INSTANCE Hub WITH Broadcasters <- Workers, MaxSubs <- MaxClients,
                       MaxBroadcasts <- Cardinality(Publishers) * MaxPublish

(* gamify.New: the bus is built (its workers waiting) and the bridges are  *)
(* subscribed, ids 1.. in the order of the calls, before anything is       *)
(* published; the hub is empty.                                            *)
Init ==
    /\ \E order \in Bijection(1..Bridges, Types) : subType = order
    /\ active = 1..Bridges
    /\ nextID = Bridges
    /\ unsubbed = {}
    /\ queue = <<>>
    /\ cancelled = FALSE
    /\ ppc = [p \in Publishers |-> "idle"]
    /\ pcount = [p \in Publishers |-> 0]
    /\ wpc = [w \in Workers |-> "wait"]
    /\ cur = [g \in Bus!Goroutines |-> Bus!NoEvent]
    /\ pending = [g \in Bus!Goroutines |-> {}]
    /\ accepted = {}
    /\ dispatched = {}
    /\ delivered = [id \in 1..Bridges |-> <<>>]
    /\ H!Init
    /\ calling = [w \in Workers |-> 0]

(* A bus step: Publish, a worker's select, or Close.                       *)
BusStep(A) == ~crashed /\ A /\ UNCHANGED <<hubVars, calling>>

(* A hub step of a WebSocket client: Subscribe, Unsubscribe, or its reader.*)
ClientStep(A) == A /\ UNCHANGED <<busVars, calling>>

(* Worker w calls bridge handler id: Broadcast's copy under the read lock. *)
HandlerStart(w, id) ==
    /\ id \in pending[w] /\ calling[w] = 0
    /\ H!BroadcastCopy(w)
    /\ calling' = [calling EXCEPT ![w] = id]
    /\ UNCHANGED busVars

(* The bridge handler returns once Broadcast has sent to every copied      *)
(* channel; dispatchSync goes on with the next handler, or ends.           *)
HandlerEnd(w) ==
    /\ calling[w] # 0 /\ bpc[w] = "idle" /\ ~crashed
    /\ Bus!CallHandler(w, calling[w])
    /\ calling' = [calling EXCEPT ![w] = 0]
    /\ UNCHANGED hubVars

(* The process has panicked, or every bounded call has been made, every   *)
(* worker is out of its handlers with nothing to take, and every client    *)
(* has unsubscribed and its reader has stopped.                            *)
Terminating ==
    /\ \/ crashed
       \/ /\ \A p \in Publishers : pcount[p] = MaxPublish
          /\ \A w \in Workers : /\ calling[w] = 0
                              /\ \/ wpc[w] = "exited"
                                 \/ wpc[w] = "wait" /\ queue = <<>>
          /\ next = MaxClients /\ subs = {}
          /\ \A c \in 1..MaxClients : readerDone[c]
    /\ UNCHANGED vars

Next ==
    \/ \E p \in Publishers, t \in Types : BusStep(Bus!Publish(p, t))
    \/ \E w \in Workers : BusStep(Bus!WorkerTake(w) \/ Bus!WorkerExit(w))
    \/ BusStep(Bus!Close)
    \/ \E w \in Workers, id \in 1..Bridges : HandlerStart(w, id)
    \/ \E w \in Workers, c \in 1..MaxClients : ClientStep(H!BroadcastSend(w, c))
    \/ \E w \in Workers : HandlerEnd(w)
    \/ ClientStep(H!Subscribe)
    \/ \E c \in 1..MaxClients : ClientStep(H!Unsubscribe(c) \/ H!Receive(c))
    \/ Terminating

(* Running goroutines are scheduled: a waiting worker takes an event or    *)
(* sees the cancellation, a worker inside a handler goes on, a reader      *)
(* with something to read reads.  Publish, Close and the clients'         *)
(* Subscribe and Unsubscribe are up to their callers.                      *)
Fairness ==
    /\ \A w \in Workers :
          /\ WF_vars(BusStep(Bus!WorkerTake(w) \/ Bus!WorkerExit(w)))
          /\ WF_vars(\E id \in 1..Bridges : HandlerStart(w, id))
          /\ WF_vars(HandlerEnd(w))
          /\ \A c \in 1..MaxClients : WF_vars(ClientStep(H!BroadcastSend(w, c)))
    /\ \A c \in 1..MaxClients : WF_vars(ClientStep(H!Receive(c)))

Spec == Init /\ [][Next]_vars
FairSpec == Spec /\ Fairness

-----------------------------------------------------------------------------
(* Properties.                                                             *)

TypeOK ==
    /\ Bus!TypeOK /\ H!TypeOK
    /\ calling \in [Workers -> 0..Bridges]

(* An event the async queue accepted is eventually broadcast by a worker   *)
(* to every client subscribed at its copy, unless the bus was closed or a  *)
(* broadcast panicked: a Broadcast never blocks a worker for good.         *)
AcceptedBroadcastUnlessClosed ==
    \A ev \in Bus!Events :
        ev \in accepted ~> (ev \in dispatched \/ cancelled \/ crashed)

=============================================================================
