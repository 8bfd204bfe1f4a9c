--------------------------- MODULE MCFallbackStore ---------------------------
(* FallbackStore instantiated for TLC: one user, the metric xp, +200 per   *)
(* call at a 10-bit int64, so that a third AddPoints overflows.  MaxAlloc *)
(* is the number of calls, since each call allocates at most one address  *)
(* of each kind.  AwardBadge and SetLevel take one badge and one level:   *)
(* their ensure on a new user races an AddPoints like a second AddPoints.  *)
EXTENDS FallbackStore

CONSTANTS p1, p2, gold

MCIntWidth == 10
MCUsers == {"alice"}
MCMetrics == {"xp"}
MCDeltas == {200}
MCBadges == {gold}
MCLvls == {2}
MCConcurrent == {p1, p2}
=============================================================================
