---------------------------- MODULE MCRedisStore ----------------------------
(* RedisStore instantiated for TLC: two goroutines, one user, the metric   *)
(* xp, int64 at 10 bits.  Two +256 calls sum to exactly 2^9, the value the *)
(* rounded Lua literal lets through; -100 makes totals go down.            *)
EXTENDS RedisStore

CONSTANTS p1, p2

MCIntWidth == 10
MCProcs == {p1, p2}
MCUsers == {"alice"}
MCMetrics == {"xp"}
MCDeltas == {0, 256, -100}
MCBadges == {"winner"}
MCLevels == {2}
=============================================================================
