----------------------------- MODULE MCRealtime -----------------------------
(* Realtime instantiated for TLC: two event types (so two bridges), one    *)
(* publisher making two Publish calls, two workers (of the four), a queue  *)
(* of one slot (of 2048), two WebSocket clients with a one-event buffer:   *)
(* two broadcasts in flight at once, full queues and full client buffers,  *)
(* and a client leaving in the middle of a broadcast all happen.           *)
EXTENDS Realtime

CONSTANTS p1, w1, w2

MCTypes == {"points_added", "level_up"}
MCPublishers == {p1}
MCWorkers == {w1, w2}
=============================================================================
