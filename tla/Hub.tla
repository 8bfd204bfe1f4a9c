-------------------------------- MODULE Hub --------------------------------
(***************************************************************************)
(* realtime.Hub (src/unnamed/part_007, package realtime): Subscribe,       *)
(* Unsubscribe and Broadcast over buffered Go channels.                    *)
(*                                                                         *)
(* Subscribe and Unsubscribe run under the write lock, so each is one      *)
(* step.  Broadcast copies the channels under the read lock, releases it,  *)
(* and then sends to each copied channel with a select that drops the      *)
(* event when the buffer is full; so a Broadcast is one copy step followed *)
(* by one step per receiver, in any order (Go's map order is random), and *)
(* Subscribe and Unsubscribe may run between them.  A send on a closed     *)
(* channel panics, which ends the process: crashed.                        *)
(*                                                                         *)
(* Each subscription has a reader goroutine ranging over its channel (the  *)
(* WebSocket handler): it takes buffered events and stops once the channel *)
(* is closed and drained.                                                  *)
(***************************************************************************)
EXTENDS Naturals, Sequences

CONSTANTS
    Broadcasters,   \* goroutines calling Broadcast (bus handlers)
    MaxSubs,        \* Subscribe calls
    MaxBroadcasts,  \* Broadcast calls per broadcaster
    Buffer          \* the buffer argument of Subscribe

ASSUME MaxSubs \in Nat /\ MaxBroadcasts \in Nat /\ Buffer \in Nat \ {0}

Ids == 1..MaxSubs
Events == Broadcasters \X (1..MaxBroadcasts)   \* <<b, k>>: b's k-th event

VARIABLES
    subs,       \* DOMAIN h.subs: the ids subscribed now
    next,       \* h.next
    buf,        \* buf[id]: the events buffered in id's channel
    closed,     \* closed[id]: id's channel is closed
    bpc,        \* bpc[b]: "idle" or "sending"
    receivers,  \* receivers[b]: the copied channels b has not sent to yet
    sent,       \* sent[b]: Broadcast calls b has made
    readerDone, \* readerDone[id]: id's reader saw the channel closed
    crashed     \* a send on a closed channel panicked

vars == <<subs, next, buf, closed, bpc, receivers, sent, readerDone, crashed>>

Init ==
    /\ subs = {}
    /\ next = 0
    /\ buf = [id \in Ids |-> <<>>]
    /\ closed = [id \in Ids |-> FALSE]
    /\ bpc = [b \in Broadcasters |-> "idle"]
    /\ receivers = [b \in Broadcasters |-> {}]
    /\ sent = [b \in Broadcasters |-> 0]
    /\ readerDone = [id \in Ids |-> FALSE]
    /\ crashed = FALSE

(* Subscribe(buffer): h.next++, a new channel under the new id.            *)
Subscribe ==
    /\ ~crashed /\ next < MaxSubs
    /\ next' = next + 1
    /\ subs' = subs \cup {next + 1}
    /\ UNCHANGED <<buf, closed, bpc, receivers, sent, readerDone, crashed>>

(* Unsubscribe(id): if present, delete it from the map and close(ch).      *)
Unsubscribe(id) ==
    /\ ~crashed
    /\ IF id \in subs
       THEN /\ subs' = subs \ {id}
            /\ closed' = [closed EXCEPT ![id] = TRUE]
       ELSE UNCHANGED <<subs, closed>>
    /\ UNCHANGED <<next, buf, bpc, receivers, sent, readerDone, crashed>>

(* Broadcast up to RUnlock: the channels of the map, copied.  With no      *)
(* subscriber the send loop is empty and the call returns at once.         *)
BroadcastCopy(b) ==
    /\ ~crashed /\ bpc[b] = "idle" /\ sent[b] < MaxBroadcasts
    /\ sent' = [sent EXCEPT ![b] = @ + 1]
    /\ receivers' = [receivers EXCEPT ![b] = subs]
    /\ bpc' = [bpc EXCEPT ![b] = IF subs = {} THEN "idle" ELSE "sending"]
    /\ UNCHANGED <<subs, next, buf, closed, readerDone, crashed>>

(* Mutant: the select's send case taken with the buffer already full.     *)
CanSendOffByOne(id) == Len(buf[id]) <= Buffer

(* The send case of the select is ready: the buffer has a free slot.       *)
CanSend(id) == Len(buf[id]) < Buffer

(* One iteration of Broadcast's send loop: a closed channel panics; a      *)
(* full one drops the event (default case).                                *)
BroadcastSend(b, id) ==
    /\ ~crashed /\ bpc[b] = "sending" /\ id \in receivers[b]
    /\ receivers' = [receivers EXCEPT ![b] = @ \ {id}]
    /\ bpc' = [bpc EXCEPT ![b] = IF receivers[b] = {id} THEN "idle" ELSE "sending"]
    /\ IF closed[id]
       THEN /\ crashed' = TRUE
            /\ UNCHANGED buf
       ELSE /\ buf' = IF CanSend(id)
                      THEN [buf EXCEPT ![id] = Append(@, <<b, sent[b]>>)]
                      ELSE buf
            /\ UNCHANGED crashed
    /\ UNCHANGED <<subs, next, closed, sent, readerDone>>

(* The reader of id's channel: for ev := range ch.  It takes the oldest    *)
(* buffered event, or ends when the channel is closed and empty.           *)
Receive(id) ==
    /\ ~crashed /\ id <= next /\ ~readerDone[id]
    /\ \/ /\ buf[id] # <<>>
          /\ buf' = [buf EXCEPT ![id] = Tail(@)]
          /\ UNCHANGED readerDone
       \/ /\ buf[id] = <<>> /\ closed[id]
          /\ readerDone' = [readerDone EXCEPT ![id] = TRUE]
          /\ UNCHANGED buf
    /\ UNCHANGED <<subs, next, closed, bpc, receivers, sent, crashed>>

(* The process has panicked, or every bounded call has been made and every *)
(* reader of a closed channel has finished.                                *)
Terminating ==
    /\ \/ crashed
       \/ /\ next = MaxSubs /\ subs = {}
          /\ \A b \in Broadcasters : bpc[b] = "idle" /\ sent[b] = MaxBroadcasts
          /\ \A id \in Ids : readerDone[id]
    /\ UNCHANGED vars

Next ==
    \/ Subscribe
    \/ \E id \in Ids : Unsubscribe(id)
    \/ \E b \in Broadcasters : BroadcastCopy(b)
    \/ \E b \in Broadcasters, id \in Ids : BroadcastSend(b, id)
    \/ \E id \in Ids : Receive(id)
    \/ Terminating

(* Goroutines that can run do run: a broadcaster in its send loop and a    *)
(* reader with something to read.  Subscribe, Unsubscribe and starting a   *)
(* Broadcast are up to the callers, so they are not fair.                  *)
Fairness ==
    /\ \A b \in Broadcasters, id \in Ids : WF_vars(BroadcastSend(b, id))
    /\ \A id \in Ids : WF_vars(Receive(id))

Spec == Init /\ [][Next]_vars
FairSpec == Spec /\ Fairness

-----------------------------------------------------------------------------
(* Properties.                                                             *)

TypeOK ==
    /\ subs \subseteq 1..next /\ next \in 0..MaxSubs
    /\ buf \in [Ids -> Seq(Events)]
    /\ \A id \in Ids : Len(buf[id]) <= Buffer
    /\ closed \in [Ids -> BOOLEAN]
    /\ bpc \in [Broadcasters -> {"idle", "sending"}]
    /\ receivers \in [Broadcasters -> SUBSET Ids]
    /\ sent \in [Broadcasters -> 0..MaxBroadcasts]
    /\ readerDone \in [Ids -> BOOLEAN]
    /\ crashed \in BOOLEAN

(* No Broadcast sends on a channel that Unsubscribe has closed: the        *)
(* process never panics.  Broadcast's comment says it copies the channels  *)
(* "to avoid holding lock during send".                                    *)
NoSendOnClosedChannel == ~crashed

=============================================================================
