------------------------------ MODULE EventBus ------------------------------
(***************************************************************************)
(* engine.EventBus (src/engine/service_test.go, the EventBus type):        *)
(* Subscribe and its unsubscribe closure, Publish in sync and async mode,  *)
(* the worker loop, dispatchSync and Close.                                *)
(*                                                                         *)
(* Subscribe and unsubscribe hold the write lock: one step each.           *)
(* dispatchSync copies the handlers of the event's type under the read     *)
(* lock and calls them after RUnlock, one step per call, in any order (Go  *)
(* map order).  In sync mode the publishing goroutine runs dispatchSync;   *)
(* in async mode Publish puts the event in the bounded queue, or drops it  *)
(* when the queue is full, and a pool of workers take events and run      *)
(* dispatchSync.  A worker's select between a queued event and the        *)
(* cancelled context picks either when both are ready.  Taking the event  *)
(* and copying the handlers are one step: nothing between them is         *)
(* observable to anyone else.                                              *)
(***************************************************************************)
EXTENDS Naturals, Sequences, FiniteSets

CONSTANTS
    Mode,           \* "sync" (DispatchSync) or "async" (DispatchAsync)
    Types,          \* event types
    Publishers,     \* goroutines calling Publish
    Workers,        \* the async workers (asyncWorkers)
    QueueCap,       \* the capacity of asyncQueue
    MaxSubs,        \* Subscribe calls
    MaxPublish      \* Publish calls per publisher

ASSUME Mode \in {"sync", "async"}
ASSUME QueueCap \in Nat /\ MaxSubs \in Nat /\ MaxPublish \in Nat

Ids == 1..MaxSubs
Events == [pub : Publishers, seq : 1..MaxPublish, typ : Types]

VARIABLES
    subType,    \* subType[id]: the type id was subscribed to (for id <= nextID)
    active,     \* the ids in e.subs
    nextID,     \* e.nextID
    unsubbed,   \* the ids whose unsubscribe function has returned
    queue,      \* asyncQueue
    cancelled,  \* e.ctx is cancelled (Close)
    ppc,        \* ppc[p]: "idle" or "dispatch" (sync mode)
    pcount,     \* pcount[p]: Publish calls p has made
    wpc,        \* wpc[w]: "wait", "dispatch" or "exited"
    cur,        \* cur[g]: the event publisher or worker g is dispatching
    pending,    \* pending[g]: the copied handlers g has not called yet
    accepted,   \* events Publish did not drop
    dispatched, \* events whose dispatchSync has called every copied handler
    delivered   \* delivered[id]: the events handler id was called with

vars == <<subType, active, nextID, unsubbed, queue, cancelled, ppc, pcount,
          wpc, cur, pending, accepted, dispatched, delivered>>

Goroutines == Publishers \cup Workers
NoEvent == [pub |-> CHOOSE p \in Publishers : TRUE, seq |-> 1,
            typ |-> CHOOSE t \in Types : TRUE]

Init ==
    /\ subType = [id \in Ids |-> CHOOSE t \in Types : TRUE]
    /\ active = {}
    /\ nextID = 0
    /\ unsubbed = {}
    /\ queue = <<>>
    /\ cancelled = FALSE
    /\ ppc = [p \in Publishers |-> "idle"]
    /\ pcount = [p \in Publishers |-> 0]
    /\ wpc = [w \in Workers |-> IF Mode = "async" THEN "wait" ELSE "exited"]
    /\ cur = [g \in Goroutines |-> NoEvent]
    /\ pending = [g \in Goroutines |-> {}]
    /\ accepted = {}
    /\ dispatched = {}
    /\ delivered = [id \in Ids |-> <<>>]

(* Subscribe(typ, handler): e.nextID++, the subscription stored under it.  *)
Subscribe(typ) ==
    /\ nextID < MaxSubs
    /\ nextID' = nextID + 1
    /\ subType' = [subType EXCEPT ![nextID + 1] = typ]
    /\ active' = active \cup {nextID + 1}
    /\ UNCHANGED <<unsubbed, queue, cancelled, ppc, pcount, wpc, cur, pending,
                   accepted, dispatched, delivered>>

(* The returned unsubscribe function: delete the id from e.subs[typ].      *)
Unsubscribe(id) ==
    /\ id \in active
    /\ active' = active \ {id}
    /\ unsubbed' = unsubbed \cup {id}
    /\ UNCHANGED <<subType, nextID, queue, cancelled, ppc, pcount, wpc, cur,
                   pending, accepted, dispatched, delivered>>

(* dispatchSync's copy of e.subs[ev.Type] under the read lock.             *)
HandlersOf(typ) == {id \in active : subType[id] = typ}

(* Mutant: the send case taken with the queue already full.               *)
QueueHasRoomOffByOne == Len(queue) <= QueueCap

(* The send case of Publish's select is ready.                             *)
QueueHasRoom == Len(queue) < QueueCap

(* Publish(ev).  Async: enqueue, or drop when the queue is full, and       *)
(* return.  Sync: dispatchSync in the caller, starting with the copy.      *)
Publish(p, typ) ==
    LET ev == [pub |-> p, seq |-> pcount[p] + 1, typ |-> typ] IN
    /\ ppc[p] = "idle" /\ pcount[p] < MaxPublish
    /\ pcount' = [pcount EXCEPT ![p] = @ + 1]
    /\ IF Mode = "async"
       THEN /\ IF QueueHasRoom
               THEN /\ queue' = Append(queue, ev)
                    /\ accepted' = accepted \cup {ev}
               ELSE UNCHANGED <<queue, accepted>>
            /\ UNCHANGED <<ppc, cur, pending, dispatched>>
       ELSE /\ accepted' = accepted \cup {ev}
            /\ cur' = [cur EXCEPT ![p] = ev]
            /\ pending' = [pending EXCEPT ![p] = HandlersOf(typ)]
            /\ IF HandlersOf(typ) = {}
               THEN /\ dispatched' = dispatched \cup {ev}
                    /\ UNCHANGED ppc
               ELSE /\ ppc' = [ppc EXCEPT ![p] = "dispatch"]
                    /\ UNCHANGED dispatched
            /\ UNCHANGED queue
    /\ UNCHANGED <<subType, active, nextID, unsubbed, cancelled, wpc, delivered>>

(* One handler call of dispatchSync's loop, by publisher or worker g.      *)
CallHandler(g, id) ==
    /\ id \in pending[g]
    /\ delivered' = [delivered EXCEPT ![id] = Append(@, cur[g])]
    /\ pending' = [pending EXCEPT ![g] = @ \ {id}]
    /\ IF pending[g] = {id}
       THEN /\ dispatched' = dispatched \cup {cur[g]}
            /\ IF g \in Publishers
               THEN /\ ppc' = [ppc EXCEPT ![g] = "idle"] /\ UNCHANGED wpc
               ELSE /\ wpc' = [wpc EXCEPT ![g] = "wait"] /\ UNCHANGED ppc
       ELSE UNCHANGED <<dispatched, ppc, wpc>>
    /\ UNCHANGED <<subType, active, nextID, unsubbed, queue, cancelled, pcount,
                   cur, accepted>>

(* The worker's select took a queued event: dispatchSync's copy.           *)
WorkerTake(w) ==
    LET ev == Head(queue) IN
    /\ wpc[w] = "wait" /\ queue # <<>>
    /\ queue' = Tail(queue)
    /\ cur' = [cur EXCEPT ![w] = ev]
    /\ pending' = [pending EXCEPT ![w] = HandlersOf(ev.typ)]
    /\ IF HandlersOf(ev.typ) = {}
       THEN /\ dispatched' = dispatched \cup {ev}
            /\ UNCHANGED wpc
       ELSE /\ wpc' = [wpc EXCEPT ![w] = "dispatch"]
            /\ UNCHANGED dispatched
    /\ UNCHANGED <<subType, active, nextID, unsubbed, cancelled, ppc, pcount,
                   accepted, delivered>>

(* Mutant: the worker also returns when the queue is momentarily empty.    *)
WorkerExitWhenIdle(w) ==
    /\ wpc[w] = "wait" /\ (cancelled \/ queue = <<>>)
    /\ wpc' = [wpc EXCEPT ![w] = "exited"]
    /\ UNCHANGED <<subType, active, nextID, unsubbed, queue, cancelled, ppc,
                   pcount, cur, pending, accepted, dispatched, delivered>>

(* The worker's select took <-e.ctx.Done(): the worker returns, even with  *)
(* events still queued.                                                    *)
WorkerExit(w) ==
    /\ wpc[w] = "wait" /\ cancelled
    /\ wpc' = [wpc EXCEPT ![w] = "exited"]
    /\ UNCHANGED <<subType, active, nextID, unsubbed, queue, cancelled, ppc,
                   pcount, cur, pending, accepted, dispatched, delivered>>

(* Close: e.cancel(), then a 10 ms sleep that changes nothing.             *)
Close ==
    /\ ~cancelled
    /\ cancelled' = TRUE
    /\ UNCHANGED <<subType, active, nextID, unsubbed, queue, ppc, pcount, wpc,
                   cur, pending, accepted, dispatched, delivered>>

(* Every bounded call is made and nothing is left to run.                  *)
Terminating ==
    /\ nextID = MaxSubs /\ active = {}
    /\ \A p \in Publishers : ppc[p] = "idle" /\ pcount[p] = MaxPublish
    /\ \A w \in Workers : wpc[w] = "exited" \/ (wpc[w] = "wait" /\ queue = <<>>)
    /\ UNCHANGED vars

Next ==
    \/ \E t \in Types : Subscribe(t)
    \/ \E id \in Ids : Unsubscribe(id)
    \/ \E p \in Publishers, t \in Types : Publish(p, t)
    \/ \E g \in Goroutines, id \in Ids : CallHandler(g, id)
    \/ \E w \in Workers : WorkerTake(w) \/ WorkerExit(w)
    \/ Close
    \/ Terminating

(* Running goroutines are scheduled: a dispatch loop goes on, and a        *)
(* waiting worker takes a queued event or sees the cancellation.  Callers  *)
(* of Subscribe, unsubscribe, Publish and Close get no fairness.           *)
Fairness ==
    /\ \A g \in Goroutines, id \in Ids : WF_vars(CallHandler(g, id))
    /\ \A w \in Workers : WF_vars(WorkerTake(w) \/ WorkerExit(w))

Spec == Init /\ [][Next]_vars
FairSpec == Spec /\ Fairness

-----------------------------------------------------------------------------
(* Properties.                                                             *)

TypeOK ==
    /\ subType \in [Ids -> Types] /\ nextID \in 0..MaxSubs
    /\ active \subseteq 1..nextID /\ unsubbed \subseteq 1..nextID
    /\ queue \in Seq(Events) /\ Len(queue) <= QueueCap
    /\ cancelled \in BOOLEAN
    /\ ppc \in [Publishers -> {"idle", "dispatch"}]
    /\ wpc \in [Workers -> {"wait", "dispatch", "exited"}]
    /\ cur \in [Goroutines -> Events]
    /\ pending \in [Goroutines -> SUBSET Ids]
    /\ accepted \subseteq Events /\ dispatched \subseteq accepted
    /\ delivered \in [Ids -> Seq(Events)]

(* An event the async queue accepted is eventually dispatched to its       *)
(* handlers by some worker, unless the bus has been closed.                *)
AcceptedHandledUnlessClosed ==
    \A ev \in Events : ev \in accepted ~> (ev \in dispatched \/ cancelled)

(* An event the async queue accepted is eventually dispatched, Close or    *)
(* not: Close "allow[s] workers to drain briefly".                         *)
AcceptedEventuallyHandled ==
    \A ev \in Events : ev \in accepted ~> ev \in dispatched

=============================================================================
