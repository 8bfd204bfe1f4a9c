--------------------------- MODULE MCJsonFileStore ---------------------------
(* JsonFileStore instantiated for TLC: one user, the metric xp, int64 at   *)
(* 10 bits so that a second +300 overflows, four calls and one crash.      *)
EXTENDS JsonFileStore

MCIntWidth == 10
MCUsers == {"alice"}
MCMetrics == {"xp"}
MCDeltas == {300}
MCBadges == {"onboarded"}
MCLevels == {2}
=============================================================================
