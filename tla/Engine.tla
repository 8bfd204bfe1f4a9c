------------------------------- MODULE Engine -------------------------------
(***************************************************************************)
(* GamifyService (package engine, src/unnamed/part_004) over the memory    *)
(* store (src/adapters/memory/storage.go) with the default rule engine     *)
(* (one LevelUpRule on XP).                                                *)
(*                                                                         *)
(* Every caller p in Procs is one goroutine calling AddPoints or           *)
(* AwardBadge.  Each storage call takes the user record's mutex for its    *)
(* whole body, so it is one atomic step; the service holds no lock of its  *)
(* own, so the steps of two calls interleave.  A call is split at every    *)
(* storage or bus call; local computation (validation, rule evaluation)    *)
(* is folded into the step before it.  The bus is a synchronous log of     *)
(* the published events in publication order.                              *)
(***************************************************************************)
EXTENDS Core, Sequences, FiniteSets

CONSTANTS
    Procs,      \* concurrent callers of the service
    Users,      \* normalized user ids
    Blank,      \* a user id that NormalizeUserID rejects (blank)
    Metrics,    \* metrics, XP among them
    Deltas,     \* the deltas passed to AddPoints, 0 included
    Badges,     \* badge ids that ValidateBadgeID accepts
    BadBadge,   \* a badge id that ValidateBadgeID rejects
    MaxCalls    \* calls each caller makes

ASSUME XP \in Metrics /\ Blank \notin Users /\ BadBadge \notin Badges
ASSUME Deltas \subseteq IntW /\ MaxCalls \in Nat

VARIABLES
    points,     \* points[u][m]: rec.state.Points[m] (0 for a missing key)
    levels,     \* levels[u][m]: rec.state.Levels[m] (0 for a missing key)
    badges,     \* badges[u]: rec.state.Badges
    pc,         \* pc[p]: where caller p is in its current call
    call,       \* call[p]: the arguments of p's current call
    total,      \* total[p]: the total storage.AddPoints returned to p
    derived,    \* derived[p]: the events of the rules not yet handled
    published,  \* the events published on the bus, in order
    calls,      \* calls[p]: calls p has started
    exact,      \* exact[u][m]: the sum of the deltas AddPoints applied
    peak        \* peak[u][m]: the highest total AddPoints stored, or NoPeak

storeVars == <<points, levels, badges>>
procVars == <<pc, call, total, derived, calls>>
vars == <<storeVars, procVars, published, exact, peak>>

NoPeak == [seen |-> FALSE, val |-> 0]
NoCall == [op |-> "none", user |-> Blank, metric |-> XP, delta |-> 0, badge |-> BadBadge]
Event == [type : {"points_added", "level_up", "badge_awarded"},
          user : Users, metric : Metrics \cup {""}, delta : Deltas,
          total : IntW, level : Nat, badge : Badges \cup {""}]

Init ==
    /\ points = [u \in Users |-> [m \in Metrics |-> 0]]
    /\ levels = [u \in Users |-> [m \in Metrics |-> 0]]
    /\ badges = [u \in Users |-> {}]
    /\ pc = [p \in Procs |-> "idle"]
    /\ call = [p \in Procs |-> NoCall]
    /\ total = [p \in Procs |-> 0]
    /\ derived = [p \in Procs |-> <<>>]
    /\ published = <<>>
    /\ calls = [p \in Procs |-> 0]
    /\ exact = [u \in Users |-> [m \in Metrics |-> 0]]
    /\ peak = [u \in Users |-> [m \in Metrics |-> NoPeak]]

(* memory.Store, each method under the user record's mutex.  A missing     *)
(* record is created empty by getOrCreate, which Init already holds.       *)
MemAddPoints(user, metric, delta) == AddSafe(points[user][metric], delta)
MemAwardBadge(user, b) == [badges EXCEPT ![user] = @ \cup {b}]
MemSetLevel(user, metric, level) == [levels EXCEPT ![user][metric] = level]

(* Leaving a call: back to idle, locals cleared.                           *)
Return(p) ==
    /\ pc' = [pc EXCEPT ![p] = "idle"]
    /\ call' = [call EXCEPT ![p] = NoCall]
    /\ total' = [total EXCEPT ![p] = 0]
    /\ derived' = [derived EXCEPT ![p] = <<>>]

(* AddPoints up to and including storage.AddPoints: the zero-delta and     *)
(* user-id checks return an error, so does an AddSafe overflow, with the   *)
(* record unchanged; otherwise the record holds the new total.             *)
AddPoints(p, user, metric, delta) ==
    /\ pc[p] = "idle" /\ calls[p] < MaxCalls
    /\ calls' = [calls EXCEPT ![p] = @ + 1]
    /\ IF delta = 0 \/ user = Blank \/ MemAddPoints(user, metric, delta).err
       THEN /\ Return(p)
            /\ UNCHANGED <<storeVars, published, exact, peak>>
       ELSE LET next == MemAddPoints(user, metric, delta).val IN
            /\ points' = [points EXCEPT ![user][metric] = next]
            /\ exact' = [exact EXCEPT ![user][metric] = @ + delta]
            /\ peak' = [peak EXCEPT ![user][metric] =
                          IF ~@.seen \/ @.val < next THEN [seen |-> TRUE, val |-> next]
                          ELSE @]
            /\ pc' = [pc EXCEPT ![p] = "publishPoints"]
            /\ call' = [call EXCEPT ![p] = [NoCall EXCEPT !.op = "addPoints",
                          !.user = user, !.metric = metric, !.delta = delta]]
            /\ total' = [total EXCEPT ![p] = next]
            /\ UNCHANGED <<levels, badges, derived, published>>

(* The PointsAdded event of p's call.                                      *)
PointsEvent(p) ==
    NewPointsAdded(call[p].user, call[p].metric, call[p].delta, total[p])

(* bus.Publish(PointsAdded).                                               *)
PublishPoints(p) ==
    /\ pc[p] = "publishPoints"
    /\ published' = Append(published, PointsEvent(p))
    /\ pc' = [pc EXCEPT ![p] = "getState"]
    /\ UNCHANGED <<storeVars, call, total, derived, calls, exact, peak>>

(* storage.GetState, then rules.Evaluate on that snapshot: the snapshot is *)
(* the user's points and levels, read together under the record's mutex;  *)
(* the memory store's GetState never fails.                                *)
GetStateAndEvaluate(p) ==
    LET u == call[p].user
        out == LevelUpRule(u, points[u], levels[u], PointsEvent(p))
    IN /\ pc[p] = "getState"
       /\ derived' = [derived EXCEPT ![p] = out]
       /\ IF out = <<>>
          THEN /\ Return(p)
               /\ UNCHANGED <<storeVars, published, calls, exact, peak>>
          ELSE /\ pc' = [pc EXCEPT ![p] = "setLevel"]
               /\ UNCHANGED <<storeVars, call, total, published, calls, exact, peak>>

(* The loop over derived events: storage.SetLevel for a LevelUp (its error *)
(* ignored), a blind write of the level computed from the snapshot.        *)
SetLevel(p) ==
    LET d == Head(derived[p]) IN
    /\ pc[p] = "setLevel"
    /\ levels' = IF d.type = "level_up"
                 THEN MemSetLevel(d.user, d.metric, d.level)
                 ELSE levels
    /\ pc' = [pc EXCEPT ![p] = "publishDerived"]
    /\ UNCHANGED <<points, badges, call, total, derived, published, calls, exact, peak>>

(* Mutant: the loop goes on past the last derived event.                  *)
PublishDerivedNoExit(p) ==
    /\ pc[p] = "publishDerived"
    /\ published' = Append(published, Head(derived[p]))
    /\ derived' = [derived EXCEPT ![p] = Tail(@)]
    /\ pc' = [pc EXCEPT ![p] = "setLevel"]
    /\ UNCHANGED <<storeVars, call, total, calls, exact, peak>>

(* bus.Publish(d), then the next derived event or return.                  *)
PublishDerived(p) ==
    /\ pc[p] = "publishDerived"
    /\ published' = Append(published, Head(derived[p]))
    /\ IF Tail(derived[p]) = <<>>
       THEN Return(p)
       ELSE /\ derived' = [derived EXCEPT ![p] = Tail(@)]
            /\ pc' = [pc EXCEPT ![p] = "setLevel"]
            /\ UNCHANGED <<call, total>>
    /\ UNCHANGED <<storeVars, calls, exact, peak>>

(* AwardBadge up to and including storage.AwardBadge: the user-id and      *)
(* badge-id checks return an error; otherwise the badge is in the set.     *)
AwardBadge(p, user, b) ==
    /\ pc[p] = "idle" /\ calls[p] < MaxCalls
    /\ calls' = [calls EXCEPT ![p] = @ + 1]
    /\ IF user = Blank \/ b = BadBadge
       THEN /\ Return(p)
            /\ UNCHANGED <<storeVars, published, exact, peak>>
       ELSE /\ badges' = MemAwardBadge(user, b)
            /\ pc' = [pc EXCEPT ![p] = "publishBadge"]
            /\ call' = [call EXCEPT ![p] = [NoCall EXCEPT !.op = "awardBadge",
                          !.user = user, !.badge = b]]
            /\ UNCHANGED <<points, levels, total, derived, published, exact, peak>>

(* bus.Publish(BadgeAwarded).                                              *)
PublishBadge(p) ==
    /\ pc[p] = "publishBadge"
    /\ published' = Append(published, NewBadgeAwarded(call[p].user, call[p].badge))
    /\ Return(p)
    /\ UNCHANGED <<storeVars, calls, exact, peak>>

(* Every caller has made its calls and returned.                           *)
Quiescent == \A p \in Procs : pc[p] = "idle"
Finished == Quiescent /\ \A p \in Procs : calls[p] = MaxCalls
Terminating == Finished /\ UNCHANGED vars

Next ==
    \/ \E p \in Procs :
          \/ \E u \in Users \cup {Blank}, m \in Metrics, d \in Deltas :
                AddPoints(p, u, m, d)
          \/ PublishPoints(p)
          \/ GetStateAndEvaluate(p)
          \/ SetLevel(p)
          \/ PublishDerived(p)
          \/ \E u \in Users \cup {Blank}, b \in Badges \cup {BadBadge} :
                AwardBadge(p, u, b)
          \/ PublishBadge(p)
    \/ Terminating

Spec == Init /\ [][Next]_vars


-----------------------------------------------------------------------------
(* Properties.                                                             *)

TypeOK ==
    /\ points \in [Users -> [Metrics -> IntW]]
    /\ levels \in [Users -> [Metrics -> Nat]]
    /\ badges \in [Users -> SUBSET Badges]
    /\ pc \in [Procs -> {"idle", "publishPoints", "getState", "setLevel",
                         "publishDerived", "publishBadge"}]
    /\ total \in [Procs -> IntW]
    /\ \A p \in Procs : \A i \in DOMAIN derived[p] : derived[p][i] \in Event
    /\ \A i \in DOMAIN published : published[i] \in Event
    /\ calls \in [Procs -> 0..MaxCalls]
    /\ \A p \in Procs : pc[p] \in {"setLevel", "publishDerived"} => derived[p] # <<>>

(* The total the memory store keeps for a user and metric is the exact     *)
(* (unbounded) sum of the deltas that AddPoints reported as applied: an    *)
(* AddPoints that would leave int64 is refused by AddSafe rather than      *)
(* wrapped, and concurrent AddPoints calls on one user lose no update.     *)
StoredTotalExact ==
    \A u \in Users, m \in Metrics : points[u][m] = exact[u][m]

(* Once no call is in flight, the stored level of a metric is the level    *)
(* LevelUpRule gives the highest total ever stored for it (0, no key, if   *)
(* no AddPoints on XP succeeded); other metrics have no level.             *)
LevelTracksPeak ==
    Quiescent =>
        \A u \in Users, m \in Metrics :
            levels[u][m] = IF m = XP /\ peak[u][m].seen
                           THEN DefaultLevel(peak[u][m].val) ELSE 0

(* A stored level is never ahead of the points: it is at most the level   *)
(* of the highest total ever stored, whatever the interleaving of the      *)
(* AddPoints calls that computed it from their snapshots.                  *)
LevelBackedByPoints ==
    \A u \in Users, m \in Metrics :
        levels[u][m] <= IF peak[u][m].seen THEN DefaultLevel(peak[u][m].val) ELSE 0

(* The LevelUp events published for a user carry strictly increasing       *)
(* levels: a level is announced once, and never after a higher one.       *)
LevelUpsIncrease ==
    \A i, j \in DOMAIN published :
        /\ i < j
        /\ published[i].type = "level_up" /\ published[j].type = "level_up"
        /\ published[i].user = published[j].user
        => published[i].level < published[j].level

(* storage.SetLevel never lowers a stored level: LevelUpRule emits a       *)
(* LevelUp only for a level above the one it read.                         *)
StoredLevelNeverDecreases ==
    [][\A u \in Users, m \in Metrics : levels'[u][m] >= levels[u][m]]_levels

=============================================================================
