------------------------------- MODULE Export -------------------------------
(***************************************************************************)
(* The periodic export of analytics (src/analytics/integration.go          *)
(* startPeriodicExport, src/analytics/export.go) as an AnalyticsService    *)
(* built by NewAnalyticsServiceWithConfig with an "http" and a "segment"   *)
(* exporter: every six hours all daily aggregates go through               *)
(* ExportManager.ExportData to the console, HTTP and Segment exporters.    *)
(*                                                                         *)
(* The HTTP exporter buffers aggregates and POSTs them as one batch; the   *)
(* Segment exporter POSTs one event per non-zero field of an aggregate.    *)
(* A POST can fail before the endpoint got it (lost) or after (late: a     *)
(* timeout or an error status once the body was taken); each endpoint      *)
(* fails at most a bounded number of times.  The first error ends the      *)
(* whole ExportData call: the remaining aggregates, exporters and the      *)
(* final Flush are skipped until the next tick.                            *)
(*                                                                         *)
(* The aggregator stores today's daily aggregate (aggregateDaily): a new   *)
(* version whose non-zero fields only grow, since the counters only grow.  *)
(***************************************************************************)
EXTENDS Naturals, SequencesExt

CONSTANTS
    NDays,          \* days the service runs
    MaxVer,         \* AggregateNow calls per day
    NzChoices,      \* possible sets of non-zero fields of an aggregate
    Batch,          \* the HTTP exporter's batchSize
    MaxHttpFails,   \* failed POSTs of the HTTP endpoint
    MaxSegFails,    \* failed POSTs of the Segment endpoint
    Nil

Days == 1..NDays
Fields == {"au", "pts", "bdg"}   \* ActiveUsers, PointsAwarded, BadgesAwarded
Exporters == <<"console", "http", "segment">>
Aggs == [d : Days, v : 1..MaxVer, nz : SUBSET Fields]

VARIABLES
    today,      \* the current day
    store,      \* ae.dailyAggregations: store[d] is Nil or an aggregate
    epc,        \* the export goroutine: "wait", "export", "hpost", "flush"
    snap,       \* GetAllAggregatedData's slice, in map order
    i, j,       \* the aggregate and the exporter ExportData is at
    k,          \* the Segment event of snap[i] being sent
    buf,        \* the HTTPExporter's buffer
    httpFails, segFails,
    httpGot,    \* aggregates the HTTP endpoint received
    segGot,     \* <<day, version, field>> events Segment received
    appended    \* every aggregate ever appended to buf (ghost)

vars == <<today, store, epc, snap, i, j, k, buf, httpFails, segFails,
          httpGot, segGot, appended>>

Init ==
    /\ today = 1 /\ store = [d \in Days |-> Nil]
    /\ epc = "wait" /\ snap = <<>> /\ i = 1 /\ j = 1 /\ k = 1
    /\ buf = <<>> /\ httpFails = 0 /\ segFails = 0
    /\ httpGot = {} /\ segGot = {} /\ appended = {}

-----------------------------------------------------------------------------
(* The aggregator.                                                         *)

(* aggregateDaily: today's aggregate is replaced by a new one.             *)
Aggregate ==
    LET old == store[today]
        v == IF old = Nil THEN 1 ELSE old.v + 1
    IN
    /\ v <= MaxVer
    /\ \E nz \in NzChoices :
          /\ IF old = Nil THEN TRUE ELSE old.nz \subseteq nz
          /\ store' = [store EXCEPT ![today] = [d |-> today, v |-> v, nz |-> nz]]
    /\ UNCHANGED <<today, epc, snap, i, j, k, buf, httpFails, segFails,
                   httpGot, segGot, appended>>

NewDay ==
    /\ today < NDays /\ today' = today + 1
    /\ UNCHANGED <<store, epc, snap, i, j, k, buf, httpFails, segFails,
                   httpGot, segGot, appended>>

-----------------------------------------------------------------------------
(* The export goroutine.                                                   *)

(* The ticker fires: GetAllAggregatedData copies the daily map under       *)
(* ae.mu.RLock in Go's map order, and ExportData starts (with an empty     *)
(* slice it goes straight to Flush).                                       *)
Tick ==
    /\ epc = "wait"
    /\ \E order \in SetToSeqs({d \in Days : store[d] # Nil}) :
          /\ snap' = [x \in 1..Len(order) |-> store[order[x]]]
          /\ epc' = IF order = <<>> THEN "flush" ELSE "export"
    /\ i' = 1 /\ j' = 1 /\ k' = 1
    /\ UNCHANGED <<today, store, buf, httpFails, segFails, httpGot, segGot, appended>>

(* ExportData's loops go on to the next exporter, the next aggregate, or   *)
(* the final em.Flush.                                                     *)
Advance ==
    /\ k' = 1
    /\ IF j < Len(Exporters)
       THEN j' = j + 1 /\ epc' = "export" /\ UNCHANGED i
       ELSE IF i < Len(snap)
       THEN i' = i + 1 /\ j' = 1 /\ epc' = "export"
       ELSE epc' = "flush" /\ UNCHANGED <<i, j>>

(* ConsoleExporter.Export prints the aggregate; it cannot fail.            *)
ConsoleExport ==
    /\ epc = "export" /\ Exporters[j] = "console"
    /\ Advance
    /\ UNCHANGED <<today, store, snap, buf, httpFails, segFails, httpGot,
                   segGot, appended>>

(* Mutant: Export flushing only when the length equals batchSize.        *)
HttpExportAtBatchOnly ==
    /\ epc = "export" /\ Exporters[j] = "http"
    /\ buf' = Append(buf, snap[i])
    /\ appended' = appended \cup {snap[i]}
    /\ IF Len(buf) + 1 = Batch
       THEN epc' = "hpost" /\ UNCHANGED <<i, j, k>>
       ELSE Advance
    /\ UNCHANGED <<today, store, snap, httpFails, segFails, httpGot, segGot>>

(* HTTPExporter.Export: append, and Flush once the batch is full.          *)
HttpExport ==
    /\ epc = "export" /\ Exporters[j] = "http"
    /\ buf' = Append(buf, snap[i])
    /\ appended' = appended \cup {snap[i]}
    /\ IF Len(buf) + 1 >= Batch
       THEN epc' = "hpost" /\ UNCHANGED <<i, j, k>>
       ELSE Advance
    /\ UNCHANGED <<today, store, snap, httpFails, segFails, httpGot, segGot>>

(* Mutant: the buffer cleared before the response is checked.             *)
HttpPostClearFirst ==
    /\ epc \in {"hpost", "flush"} /\ buf # <<>>
    /\ buf' = <<>>
    /\ \/ /\ httpGot' = httpGot \cup Range(buf)
          /\ IF epc = "hpost" THEN Advance ELSE epc' = "wait" /\ UNCHANGED <<i, j, k>>
          /\ UNCHANGED httpFails
       \/ /\ httpFails < MaxHttpFails
          /\ httpFails' = httpFails + 1
          /\ httpGot' \in {httpGot, httpGot \cup Range(buf)}
          /\ epc' = "wait"
          /\ UNCHANGED <<i, j, k>>
    /\ UNCHANGED <<today, store, snap, segFails, segGot, appended>>

(* HTTPExporter.Flush with a non-empty buffer: marshal the buffer and POST *)
(* it.  Only a success clears the buffer.  An error ends ExportData.       *)
(* From Export the call goes on with the loop, from em.Flush it ends.      *)
HttpPost ==
    /\ epc \in {"hpost", "flush"} /\ buf # <<>>
    /\ \/ /\ httpGot' = httpGot \cup Range(buf)
          /\ buf' = <<>>
          /\ IF epc = "hpost" THEN Advance ELSE epc' = "wait" /\ UNCHANGED <<i, j, k>>
          /\ UNCHANGED httpFails
       \/ /\ httpFails < MaxHttpFails
          /\ httpFails' = httpFails + 1
          /\ httpGot' \in {httpGot, httpGot \cup Range(buf)}
          /\ epc' = "wait"
          /\ UNCHANGED <<buf, i, j, k>>
    /\ UNCHANGED <<today, store, snap, segFails, segGot, appended>>

(* em.Flush: the console and Segment Flush do nothing, and the HTTP Flush  *)
(* of an empty buffer returns at once.                                     *)
FlushEmpty ==
    /\ epc = "flush" /\ buf = <<>>
    /\ epc' = "wait"
    /\ UNCHANGED <<today, store, snap, i, j, k, buf, httpFails, segFails,
                   httpGot, segGot, appended>>

(* Mutant: convertToSegmentEvents without the badges event.                *)
SegEventsNoBadges(nz) == SelectSeq(<<"au", "pts">>, LAMBDA f : f \in nz)

(* convertToSegmentEvents: one event per non-zero field, in the order      *)
(* active users, points, badges.                                           *)
SegEvents(nz) ==
    SelectSeq(<<"au", "pts", "bdg">>, LAMBDA f : f \in nz)

(* SegmentExporter.Export: sendEvent for the k-th event, or, after the     *)
(* last, return nil.  An error ends ExportData.                            *)
SegmentExport ==
    LET a == snap[i]
        evs == SegEvents(a.nz)
    IN
    /\ epc = "export" /\ Exporters[j] = "segment"
    /\ IF k > Len(evs)
       THEN Advance /\ UNCHANGED <<segFails, segGot>>
       ELSE LET ev == <<a.d, a.v, evs[k]>> IN
            \/ /\ segGot' = segGot \cup {ev}
               /\ k' = k + 1
               /\ UNCHANGED <<segFails, i, j, epc>>
            \/ /\ segFails < MaxSegFails
               /\ segFails' = segFails + 1
               /\ segGot' \in {segGot, segGot \cup {ev}}
               /\ epc' = "wait"
               /\ UNCHANGED <<i, j, k>>
    /\ UNCHANGED <<today, store, snap, buf, httpFails, httpGot, appended>>

Next ==
    \/ Aggregate \/ NewDay
    \/ Tick \/ ConsoleExport \/ HttpExport \/ HttpPost \/ FlushEmpty
    \/ SegmentExport

(* The ticker fires every six hours and the export goroutine, once it      *)
(* runs, goes on; the aggregator's calls and the days are left unforced.   *)
Fairness ==
    /\ WF_vars(Tick)
    /\ WF_vars(ConsoleExport \/ HttpExport \/ HttpPost \/ FlushEmpty \/ SegmentExport)

Spec == Init /\ [][Next]_vars
FairSpec == Spec /\ Fairness

-----------------------------------------------------------------------------
(* Properties.                                                             *)

(* A failed POST of the HTTP exporter loses nothing: every aggregate ever  *)
(* appended to the buffer has reached the endpoint or is still buffered,   *)
(* since Flush clears the buffer only after a successful response, and a   *)
(* failure ends ExportData before anything else touches the buffer.       *)
BufferKeepsUnsent ==
    \A a \in appended : a \in httpGot \/ a \in Range(buf)

(* The HTTP buffer outgrows a batch by at most one aggregate per failed    *)
(* POST: Export flushes as soon as the length reaches batchSize (>=, not   *)
(* ==), so after a failure left a full buffer the next append POSTs again. *)
BufferBounded == Len(buf) <= Batch + httpFails

(* Once the endpoints stop failing, every day's latest aggregate reaches   *)
(* the HTTP endpoint, and Segment gets an event for each of its non-zero   *)
(* fields: although each error aborts the whole ExportData, the next tick  *)
(* exports every daily aggregate again.                                    *)
AllEventuallyExported ==
    <>[](\A d \in Days :
            store[d] # Nil =>
                /\ store[d] \in httpGot
                /\ \A f \in store[d].nz : <<d, store[d].v, f>> \in segGot)

=============================================================================
