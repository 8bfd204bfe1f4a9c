----------------------------- MODULE MCAnalytics -----------------------------
(* Analytics instantiated for TLC: one bus worker calling the hook twice  *)
(* (PointsAdded and BadgeAwarded events), one WebSocket client with a      *)
(* one-event buffer, a dashboard that keeps one event, two AggregateNow    *)
(* runs, and days of two ticks up to tick 2: events land on both days,     *)
(* one created on day 1 can reach the hook on day 2, and events are        *)
(* counted between the getter calls of an aggregation.                     *)
EXTENDS Analytics

CONSTANTS e1, ws1

MCEmitters == {e1}
MCUsers == {"u1"}
MCDeltas == {10}
MCWS == {ws1}
MCKinds == {"points_added", "badge_awarded"}
MCTopKeys == {"xp", "coins", "gems", "karma"}
=============================================================================
