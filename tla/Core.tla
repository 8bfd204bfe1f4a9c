-------------------------------- MODULE Core --------------------------------
(***************************************************************************)
(* The pure part of package core: the int64 overflow check AddSafe, the    *)
(* level curve DefaultLevel, the domain events and LevelUpRule.  int64 is  *)
(* modelled at the width IntWidth, with Go's two's-complement wrap, so     *)
(* that the overflow boundary is reachable with small numbers.             *)
(***************************************************************************)
EXTENDS Integers

CONSTANTS
    IntWidth,   \* bits of the modelled int64
    XP          \* core.MetricXP, the metric of the default LevelUpRule

ASSUME IntWidth \in Nat /\ IntWidth >= 2

MaxInt == 2^(IntWidth - 1) - 1      \* math.MaxInt64
MinInt == -(2^(IntWidth - 1))       \* math.MinInt64
IntW == MinInt .. MaxInt

(* Go's signed addition: the mathematical sum wrapped into IntWidth bits. *)
Wrap(x) == ((x - MinInt) % (2^IntWidth)) + MinInt

(* Mutant: the upper-bound check dropped, so a sum above MaxInt wraps.    *)
AddSafeNoUpperCheck(base, delta) ==
    IF delta < 0 /\ base < MinInt - delta
    THEN [err |-> TRUE, val |-> 0]
    ELSE [err |-> FALSE, val |-> Wrap(base + delta)]

(* AddSafe(base, delta): an error when base + delta leaves int64.         *)
AddSafe(base, delta) ==
    IF \/ delta > 0 /\ base > MaxInt - delta
       \/ delta < 0 /\ base < MinInt - delta
    THEN [err |-> TRUE, val |-> 0]
    ELSE [err |-> FALSE, val |-> Wrap(base + delta)]

(* floor(sqrt(x)) for x >= 0, counting up from 0.                          *)
ISqrt(x) ==
    LET RECURSIVE Up(_)
        Up(r) == IF (r + 1) * (r + 1) <= x THEN Up(r + 1) ELSE r
    IN Up(0)

(* DefaultLevel: floor(sqrt(xp)/10) + 1, and 1 for xp <= 0.  For the      *)
(* modelled magnitudes float64 is exact, and floor(sqrt(x)/10) equals     *)
(* floor(floor(sqrt(x))/10).                                               *)
DefaultLevel(totalXP) ==
    IF totalXP <= 0 THEN 1 ELSE ISqrt(totalXP) \div 10 + 1

(* core.Event, with Go's zero value ("" or 0) in the fields a constructor *)
(* leaves.                                                                 *)
NewPointsAdded(user, metric, delta, total) ==
    [type |-> "points_added", user |-> user, metric |-> metric,
     delta |-> delta, total |-> total, level |-> 0, badge |-> ""]

NewBadgeAwarded(user, b) ==
    [type |-> "badge_awarded", user |-> user, metric |-> "",
     delta |-> 0, total |-> 0, level |-> 0, badge |-> b]

NewLevelUp(user, metric, level) ==
    [type |-> "level_up", user |-> user, metric |-> metric,
     delta |-> 0, total |-> 0, level |-> level, badge |-> ""]

(* Mutants: the level taken from the delta instead of the stored total;   *)
(* the delta added again to a total that already contains it; >= for >.   *)
LevelUpRuleFromDelta(user, statePoints, stateLevels, trigger) ==
    IF trigger.type # "points_added" \/ trigger.metric # XP
    THEN <<>>
    ELSE LET newLevel == DefaultLevel(trigger.delta) IN
         IF newLevel > stateLevels[XP]
         THEN <<NewLevelUp(user, XP, newLevel)>>
         ELSE <<>>

LevelUpRuleDoubleCount(user, statePoints, stateLevels, trigger) ==
    IF trigger.type # "points_added" \/ trigger.metric # XP
    THEN <<>>
    ELSE LET newLevel == DefaultLevel(statePoints[XP] + trigger.delta) IN
         IF newLevel > stateLevels[XP]
         THEN <<NewLevelUp(user, XP, newLevel)>>
         ELSE <<>>

LevelUpRuleGeq(user, statePoints, stateLevels, trigger) ==
    IF trigger.type # "points_added" \/ trigger.metric # XP
    THEN <<>>
    ELSE LET newLevel == DefaultLevel(statePoints[XP]) IN
         IF newLevel >= stateLevels[XP]
         THEN <<NewLevelUp(user, XP, newLevel)>>
         ELSE <<>>

(* LevelUpRule{Metric: XP}.Evaluate on a state snapshot (the user's       *)
(* points and levels of every metric, 0 where the map has no key): the    *)
(* derived events, as a sequence.                                          *)
LevelUpRule(user, statePoints, stateLevels, trigger) ==
    IF trigger.type # "points_added" \/ trigger.metric # XP
    THEN <<>>
    ELSE LET newLevel == DefaultLevel(statePoints[XP]) IN
         IF newLevel > stateLevels[XP]
         THEN <<NewLevelUp(user, XP, newLevel)>>
         ELSE <<>>

=============================================================================
