------------------------------ MODULE Analytics ------------------------------
(***************************************************************************)
(* The analytics service (src/analytics): the StreamPublisher hook that    *)
(* ExampleIntegration subscribes to the service's bus for every event      *)
(* type, the ComprehensiveMetrics it feeds, the DashboardManager and the   *)
(* WebSocketSubscribers it streams to, and the AggregationEngine that      *)
(* snapshots the metrics into daily, weekly and monthly aggregates.        *)
(*                                                                         *)
(* Emitters are the bus goroutines calling the hook.  A call is the        *)
(* metrics update under cm.mu, PublishEvent's copy of the subscribers      *)
(* under sp.mu.RLock, then one OnStreamEvent per copied subscriber after   *)
(* RUnlock.  AggregateNow holds ae.mu throughout, but every metrics getter *)
(* it calls takes cm.mu.RLock on its own, so each getter is a step and     *)
(* events are counted between them.                                        *)
(*                                                                         *)
(* Time is counted in ticks, TicksPerDay to a day; day 1 is a Monday and   *)
(* the first of a month.  Of the metrics, the model keeps what a reader    *)
(* it models reads: active users per day, week and month, points and      *)
(* badges per day, and the real-time counters.  The per-metric, per-badge  *)
(* and per-level maps are written by the same locked step and read only by *)
(* GetTopMetrics and the getters no modelled code calls.                   *)
(***************************************************************************)
EXTENDS Naturals, SequencesExt

CONSTANTS
    Emitters,       \* goroutines calling the hook (bus workers)
    Users,          \* user ids
    Deltas,         \* point deltas of PointsAdded events
    Kinds,          \* the event types the hook is called with
    WS,             \* WebSocket subscribers, each subscribed under its id
    Buffer,         \* NewWebSocketSubscriber's bufferSize
    MaxEvents,      \* the dashboard's maxEvents
    MaxEmits,       \* hook calls per emitter
    MaxAggs,        \* AggregateNow calls
    TicksPerDay,    \* ticks in 24 hours
    MaxTime,        \* the last tick
    Nil,            \* no aggregate stored under a key
    TopKeys,        \* metrics of the maps GetTopMetrics is checked on
    TopPoints,      \* their point totals
    TopLimits       \* the limits it is called with

Dashboard == "dashboard"        \* the id NewDashboardManager subscribes under

Day(t) == t \div TicksPerDay + 1
Days == 1..Day(MaxTime)
Week(d) == (d - 1) \div 7 + 1       \* getWeekKey
Month(d) == (d - 1) \div 28 + 1     \* getMonthKey (a month has 28 days or more)
Weeks == {Week(d) : d \in Days}
Months == {Month(d) : d \in Days}

(* core.Event, as the hook sees it: created at tick t by the engine.       *)
Events == [typ : Kinds \cap {"points_added"}, user : Users, delta : Deltas, t : 0..MaxTime]
     \cup [typ : Kinds \ {"points_added"}, user : Users, t : 0..MaxTime]

Agg == [au : Nat, pts : Nat, bdg : Nat]   \* ActiveUsers, PointsAwarded, BadgesAwarded
NoAgg == [au |-> 0, pts |-> 0, bdg |-> 0]
Periods == {"daily", "weekly", "monthly"}

VARIABLES
    clock,      \* time.Now(), in ticks
    dau, wau, mau,  \* daily/weekly/monthlyActiveUsers
    ptsDay,     \* pointsAwardedByDay
    bdgDay,     \* badgesAwardedByDay
    rt,         \* realtimeCounters: [pts, bdg, lvl, lastReset]
    reg,        \* the WebSocket ids in sp.subscribers (the dashboard is always there)
    joined,     \* the WebSocket ids ever subscribed
    epc,        \* epc[e]: "idle", "copy" or "send"
    targets,    \* targets[e]: the copied subscribers e has not called yet
    emits,      \* emits[e]: hook calls e has made
    wsBuf,      \* wsBuf[s]: the events buffered in s.sendChan
    wsClosed,   \* wsClosed[s]: s.closeChan is closed
    wsEOF,      \* wsEOF[s]: s's reader got io.EOF and stopped
    recent,     \* len(dm.recentEvents)
    apc,        \* "idle", or "run" while AggregateNow holds ae.mu
    plan,       \* the getter calls AggregateNow has still to make
    anow,       \* the day AggregateNow is aggregating
    res,        \* res[p]: the AggregatedData being built for period p
    aggs,       \* AggregateNow calls made
    daily, weekly, monthly  \* the stored aggregations, by day, week, month

metricVars == <<dau, wau, mau, ptsDay, bdgDay, rt>>
streamVars == <<reg, joined, epc, targets, emits, wsBuf, wsClosed, wsEOF, recent>>
aggVars == <<apc, plan, anow, res, aggs, daily, weekly, monthly>>
vars == <<clock, metricVars, streamVars, aggVars>>

Init ==
    /\ clock = 0
    /\ dau = [d \in Days |-> {}] /\ wau = [w \in Weeks |-> {}]
    /\ mau = [m \in Months |-> {}]
    /\ ptsDay = [d \in Days |-> 0] /\ bdgDay = [d \in Days |-> 0]
    /\ rt = [pts |-> 0, bdg |-> 0, lvl |-> 0, lastReset |-> 0]
    /\ reg = {} /\ joined = {}
    /\ epc = [e \in Emitters |-> "idle"]
    /\ targets = [e \in Emitters |-> {}]
    /\ emits = [e \in Emitters |-> 0]
    /\ wsBuf = [s \in WS |-> 0] /\ wsClosed = [s \in WS |-> FALSE]
    /\ wsEOF = [s \in WS |-> FALSE]
    /\ recent = 0
    /\ apc = "idle" /\ plan = <<>> /\ anow = 1
    /\ res = [p \in Periods |-> NoAgg] /\ aggs = 0
    /\ daily = [d \in Days |-> Nil] /\ weekly = [w \in Weeks |-> Nil]
    /\ monthly = [m \in Months |-> Nil]

Tick ==
    /\ clock < MaxTime
    /\ clock' = clock + 1
    /\ UNCHANGED <<metricVars, streamVars, aggVars>>

-----------------------------------------------------------------------------
(* The hook.                                                               *)

(* ComprehensiveMetrics.OnEvent under cm.mu: the user is active on the     *)
(* event's day, week and month; the event is counted by type (points only  *)
(* when positive); then the real-time counters are zeroed if more than 24  *)
(* hours have passed since their last reset.                               *)
MetricsOnEvent(ev) ==
    LET d == Day(ev.t)
        c == [rt EXCEPT !.pts = IF ev.typ = "points_added" /\ ev.delta > 0
                                THEN @ + ev.delta ELSE @,
                        !.bdg = IF ev.typ = "badge_awarded" THEN @ + 1 ELSE @,
                        !.lvl = IF ev.typ = "level_up" THEN @ + 1 ELSE @]
    IN
    /\ dau' = [dau EXCEPT ![d] = @ \cup {ev.user}]
    /\ wau' = [wau EXCEPT ![Week(d)] = @ \cup {ev.user}]
    /\ mau' = [mau EXCEPT ![Month(d)] = @ \cup {ev.user}]
    /\ ptsDay' = IF ev.typ = "points_added" /\ ev.delta > 0
                 THEN [ptsDay EXCEPT ![d] = @ + ev.delta] ELSE ptsDay
    /\ bdgDay' = IF ev.typ = "badge_awarded" THEN [bdgDay EXCEPT ![d] = @ + 1]
                 ELSE bdgDay
    /\ rt' = IF clock - rt.lastReset > TicksPerDay
             THEN [pts |-> 0, bdg |-> 0, lvl |-> 0, lastReset |-> clock]
             ELSE c

(* StreamPublisher.OnEvent(ev): the metrics update; the conversion to a    *)
(* StreamEvent only builds the value the subscribers get, which no         *)
(* property reads.  The event was created at most a tick ago (it waited in *)
(* the bus queue).                                                         *)
Emit(e, ev) ==
    /\ epc[e] = "idle" /\ emits[e] < MaxEmits
    /\ ev.t \in {clock - 1, clock}
    /\ MetricsOnEvent(ev)
    /\ emits' = [emits EXCEPT ![e] = @ + 1]
    /\ epc' = [epc EXCEPT ![e] = "copy"]
    /\ UNCHANGED <<clock, reg, joined, targets, wsBuf, wsClosed, wsEOF, recent, aggVars>>

(* PublishEvent: the subscribers copied under the read lock.               *)
Copy(e) ==
    /\ epc[e] = "copy"
    /\ targets' = [targets EXCEPT ![e] = reg \cup {Dashboard}]
    /\ epc' = [epc EXCEPT ![e] = "send"]
    /\ UNCHANGED <<clock, metricVars, reg, joined, emits, wsBuf, wsClosed,
                   wsEOF, recent, aggVars>>

(* Mutant: the append without dropping the oldest.                         *)
DashboardAppendNoTrim == recent + 1

(* DashboardManager.OnStreamEvent: append, and drop the oldest beyond      *)
(* maxEvents.                                                              *)
DashboardAppend == IF recent + 1 > MaxEvents THEN recent ELSE recent + 1

(* WebSocketSubscriber.OnStreamEvent: a select between a send (buffer not  *)
(* full), the closed closeChan, and a default taken only when neither is   *)
(* ready; Go picks at random among the ready cases.                        *)
WSOnStreamEvent(s) ==
    \/ wsBuf[s] < Buffer /\ wsBuf' = [wsBuf EXCEPT ![s] = @ + 1]
    \/ wsClosed[s] /\ UNCHANGED wsBuf
    \/ wsBuf[s] >= Buffer /\ ~wsClosed[s] /\ UNCHANGED wsBuf

(* One iteration of PublishEvent's loop, outside the lock.                 *)
Deliver(e, s) ==
    /\ epc[e] = "send" /\ s \in targets[e]
    /\ targets' = [targets EXCEPT ![e] = @ \ {s}]
    /\ epc' = [epc EXCEPT ![e] = IF targets[e] = {s} THEN "idle" ELSE "send"]
    /\ IF s = Dashboard
       THEN recent' = DashboardAppend /\ UNCHANGED wsBuf
       ELSE WSOnStreamEvent(s) /\ UNCHANGED recent
    /\ UNCHANGED <<clock, metricVars, reg, joined, emits, wsClosed, wsEOF, aggVars>>

-----------------------------------------------------------------------------
(* Subscribers.                                                            *)

(* SubscribeToRealtime(id, NewWebSocketSubscriber(id, bufferSize)).        *)
Subscribe(s) ==
    /\ s \notin joined
    /\ reg' = reg \cup {s} /\ joined' = joined \cup {s}
    /\ UNCHANGED <<clock, metricVars, epc, targets, emits, wsBuf, wsClosed,
                   wsEOF, recent, aggVars>>

(* WebSocketSubscriber.Close: close closeChan unless it is already closed. *)
Close(s) == [wsClosed EXCEPT ![s] = TRUE]

(* UnsubscribeFromRealtime(id): under sp.mu, Close the subscriber and      *)
(* delete it.                                                              *)
Unsubscribe(s) ==
    /\ s \in reg
    /\ wsClosed' = Close(s)
    /\ reg' = reg \ {s}
    /\ UNCHANGED <<clock, metricVars, joined, epc, targets, emits, wsBuf,
                   wsEOF, recent, aggVars>>

(* The connection's loop over ReadEvent: a select between a buffered event *)
(* and the closed closeChan (io.EOF, and the loop ends).                   *)
ReadEvent(s) ==
    /\ s \in joined /\ ~wsEOF[s]
    /\ \/ wsBuf[s] > 0 /\ wsBuf' = [wsBuf EXCEPT ![s] = @ - 1] /\ UNCHANGED wsEOF
       \/ wsClosed[s] /\ wsEOF' = [wsEOF EXCEPT ![s] = TRUE] /\ UNCHANGED wsBuf
    /\ UNCHANGED <<clock, metricVars, reg, joined, epc, targets, emits,
                   wsClosed, recent, aggVars>>

-----------------------------------------------------------------------------
(* The aggregation engine.                                                 *)

Rd(p, f, d) == [p |-> p, f |-> f, d |-> d]

(* The getter calls of one period's loop over the days of ds.              *)
DayReads(p, ds) ==
    LET sq == SetToSortSeq(ds, <) IN
    FlattenSeq([i \in 1..Len(sq) |-> <<Rd(p, "pts", sq[i]), Rd(p, "bdg", sq[i])>>])

(* Mutant: the weekly aggregate computed before the daily one.             *)
PlanWeeklyFirst(n) ==
    <<Rd("weekly", "au", n)>> \o DayReads("weekly", {d \in Days : Week(d) = Week(n)})
    \o <<Rd("daily", "au", n), Rd("daily", "pts", n), Rd("daily", "bdg", n)>>
    \o <<Rd("monthly", "au", n)>> \o DayReads("monthly", {d \in Days : Month(d) = Month(n)})

(* AggregateNow's getter calls in order: aggregateDaily, aggregateWeekly   *)
(* (its loop over the seven days of the week), aggregateMonthly (over the  *)
(* days of the month).  Days past the last tick hold nothing and are left  *)
(* out.                                                                    *)
Plan(n) ==
    <<Rd("daily", "au", n), Rd("daily", "pts", n), Rd("daily", "bdg", n)>>
    \o <<Rd("weekly", "au", n)>> \o DayReads("weekly", {d \in Days : Week(d) = Week(n)})
    \o <<Rd("monthly", "au", n)>> \o DayReads("monthly", {d \in Days : Month(d) = Month(n)})

(* AggregateNow starts: ae.mu taken, now read.                             *)
AggStart ==
    /\ apc = "idle" /\ aggs < MaxAggs
    /\ apc' = "run" /\ aggs' = aggs + 1
    /\ anow' = Day(clock) /\ plan' = Plan(Day(clock))
    /\ res' = [p \in Periods |-> NoAgg]
    /\ UNCHANGED <<clock, metricVars, streamVars, daily, weekly, monthly>>

(* The active users of period p around day d.                              *)
Active(p, d) == CASE p = "daily" -> dau[d]
                  [] p = "weekly" -> wau[Week(d)]
                  [] p = "monthly" -> mau[Month(d)]

(* The key of period p's aggregate around day d.                           *)
PeriodKey(p, d) == CASE p = "daily" -> d [] p = "weekly" -> Week(d) [] p = "monthly" -> Month(d)

(* One getter call under cm.mu.RLock, added to the data being built.  The  *)
(* last call of a period stores its aggregate under its key; after the     *)
(* last of all, ae.mu is released (the locals of AggregateNow are gone).   *)
AggRead ==
    LET r == Head(plan)
        v == CASE r.f = "au" -> Cardinality(Active(r.p, r.d))
               [] r.f = "pts" -> ptsDay[r.d]
               [] r.f = "bdg" -> bdgDay[r.d]
        r2 == [res EXCEPT ![r.p][r.f] = IF r.f = "au" THEN v ELSE @ + v]
        done == Tail(plan) = <<>> \/ Head(Tail(plan)).p # r.p
        Store(agg, p) == IF done /\ r.p = p
                         THEN [agg EXCEPT ![PeriodKey(p, anow)] = r2[p]] ELSE agg
    IN
    /\ apc = "run"
    /\ plan' = Tail(plan)
    /\ daily' = Store(daily, "daily")
    /\ weekly' = Store(weekly, "weekly")
    /\ monthly' = Store(monthly, "monthly")
    /\ IF Tail(plan) = <<>>
       THEN apc' = "idle" /\ res' = [p \in Periods |-> NoAgg] /\ anow' = 1
       ELSE res' = r2 /\ UNCHANGED <<apc, anow>>
    /\ UNCHANGED <<clock, metricVars, streamVars, aggs>>

-----------------------------------------------------------------------------
(* GetTopMetrics(limit), a pure function of pointsAwardedByMetric read     *)
(* under cm.mu.RLock.  The map is copied into a slice in Go's map order,   *)
(* which is arbitrary: order is any enumeration of the metrics.            *)

(* The slice of {metric, points} pairs built by the range loop.            *)
TopSlice(pam, order) ==
    [k \in 1..Len(order) |-> [metric |-> order[k], points |-> pam[order[k]]]]

SwapAt(t, i, j) == [t EXCEPT ![i] = t[j], ![j] = t[i]]

(* Mutant: the exchange putting the smaller points first.                  *)
ExchangeSortAscending(s) ==
    LET RECURSIVE Inner(_, _, _), Outer(_, _)
        Inner(t, i, j) ==
            IF j > Len(t) THEN t
            ELSE Inner(IF t[i].points > t[j].points THEN SwapAt(t, i, j) ELSE t, i, j + 1)
        Outer(t, i) == IF i > Len(t) THEN t ELSE Outer(Inner(t, i, i + 1), i + 1)
    IN Outer(s, 1)

(* The "simple bubble sort": for each i, every later j whose points are    *)
(* larger is swapped into place i.                                         *)
ExchangeSort(s) ==
    LET RECURSIVE Inner(_, _, _), Outer(_, _)
        Inner(t, i, j) ==
            IF j > Len(t) THEN t
            ELSE Inner(IF t[i].points < t[j].points THEN SwapAt(t, i, j) ELSE t, i, j + 1)
        Outer(t, i) == IF i > Len(t) THEN t ELSE Outer(Inner(t, i, i + 1), i + 1)
    IN Outer(s, 1)

(* sumMapValues and sumBadgeMapValues: the total of a map's values.        *)
SumValues(f) == MapThenSumSet(LAMBDA k : f[k], DOMAIN f)

(* The result: the sorted slice cut to limit (a negative limit would panic *)
(* in the slice expression; the callers pass 5 and 10), and the totals of  *)
(* pointsAwardedByMetric (pam) and badgesAwardedByType (bam).              *)
TopMetrics(pam, bam, order, limit) ==
    LET t == ExchangeSort(TopSlice(pam, order)) IN
    [top         |-> IF Len(t) > limit THEN SubSeq(t, 1, limit) ELSE t,
     totalPoints |-> SumValues(pam),
     totalBadges |-> SumValues(bam)]

-----------------------------------------------------------------------------

Terminating ==
    /\ \A e \in Emitters : epc[e] = "idle" /\ emits[e] = MaxEmits
    /\ apc = "idle" /\ aggs = MaxAggs
    /\ \A s \in WS : wsEOF[s]
    /\ UNCHANGED vars

Next ==
    \/ Tick
    \/ \E e \in Emitters, ev \in Events : Emit(e, ev)
    \/ \E e \in Emitters : Copy(e)
    \/ \E e \in Emitters, s \in WS \cup {Dashboard} : Deliver(e, s)
    \/ \E s \in WS : Subscribe(s) \/ Unsubscribe(s) \/ ReadEvent(s)
    \/ AggStart \/ AggRead
    \/ Terminating

Spec == Init /\ [][Next]_vars

-----------------------------------------------------------------------------
(* Properties.                                                             *)

TypeOK ==
    /\ clock \in 0..MaxTime
    /\ dau \in [Days -> SUBSET Users] /\ wau \in [Weeks -> SUBSET Users]
    /\ mau \in [Months -> SUBSET Users]
    /\ ptsDay \in [Days -> Nat] /\ bdgDay \in [Days -> Nat]
    /\ reg \subseteq joined /\ joined \subseteq WS
    /\ epc \in [Emitters -> {"idle", "copy", "send"}]
    /\ targets \in [Emitters -> SUBSET (WS \cup {Dashboard})]
    /\ \A s \in WS : wsBuf[s] \in 0..Buffer
    /\ recent \in 0..MaxEvents
    /\ apc \in {"idle", "run"} /\ res \in [Periods -> Agg]
    /\ daily \in [Days -> Agg \cup {Nil}] /\ weekly \in [Weeks -> Agg \cup {Nil}]
    /\ monthly \in [Months -> Agg \cup {Nil}]

(* Whenever ae.mu is free, so that GetAggregatedData can read them, the     *)
(* stored weekly aggregate of a week covers the stored daily aggregates of *)
(* its days: no more active users on a day than in its week, and the days' *)
(* points and badges add up to at most the week's.  Events keep arriving   *)
(* between the getter calls of AggregateNow, and a day's aggregate is only *)
(* refreshed while that day is today.                                      *)
WeeklyCoversDays ==
    apc = "idle" =>
        \A w \in Weeks : weekly[w] # Nil =>
            LET ds == {d \in Days : Week(d) = w /\ daily[d] # Nil} IN
            /\ \A d \in ds : daily[d].au <= weekly[w].au
            /\ MapThenSumSet(LAMBDA d : daily[d].pts, ds) <= weekly[w].pts
            /\ MapThenSumSet(LAMBDA d : daily[d].bdg, ds) <= weekly[w].bdg

(* GetTopMetrics against a reference definition: for every map of TopKeys  *)
(* to TopPoints, every range order and every limit, the result is the      *)
(* limit metrics with the most points, most first, no metric left out has *)
(* more points than one returned, the points total is that of the         *)
(* returned metrics and the rest, and the badges total sums the badge map  *)
(* (one badge per key here), not the points map.                           *)
TopMetricsCorrect ==
    \A ks \in SUBSET TopKeys : \A pam \in [ks -> TopPoints] :
      \A order \in SetToSeqs(ks), lim \in TopLimits :
        LET bam == [m \in ks |-> 1]
            got == TopMetrics(pam, bam, order, lim)
            r == got.top
            out == ks \ {r[k].metric : k \in DOMAIN r}
        IN
        /\ Len(r) = IF Cardinality(ks) < lim THEN Cardinality(ks) ELSE lim
        /\ \A k \in DOMAIN r : r[k].metric \in ks /\ r[k].points = pam[r[k].metric]
        /\ \A k1, k2 \in DOMAIN r : k1 < k2 => r[k1].metric # r[k2].metric
                                           /\ r[k1].points >= r[k2].points
        /\ \A m \in out, k \in DOMAIN r : pam[m] <= r[k].points
        /\ got.totalBadges = Cardinality(ks)
        /\ got.totalPoints = MapThenSumSet(LAMBDA k : r[k].points, DOMAIN r)
                            + MapThenSumSet(LAMBDA m : pam[m], out)

(* A dashboard reader calling GetTopMetrics at any moment gets the top     *)
(* metrics of the counters it reads, whatever Go's map order: the result   *)
(* depends on the counters only, and TopMetricsCorrect, a constant, is     *)
(* evaluated once.                                                         *)
TopMetricsAreTop == clock \in 0..MaxTime => TopMetricsCorrect

=============================================================================
