----------------------------- MODULE RedisStore -----------------------------
(***************************************************************************)
(* The Redis storage adapter (src/adapters/redis/storage.go).  The Redis   *)
(* server holds, per user, one points key and one level key per metric, a  *)
(* badge set, and a cached JSON copy of the whole UserState that expires   *)
(* after five minutes.                                                     *)
(*                                                                         *)
(* Every Redis command is atomic and is one step, and so is the Lua        *)
(* script of AddPoints.  A Store method is a sequence of commands with     *)
(* nothing held between them, so the commands of two goroutines'          *)
(* calls interleave.  A DEL that invalidates the cache may fail (its error *)
(* is ignored); the other commands are taken to succeed.  The cache's TTL *)
(* may run out at any moment: Expire.                                     *)
(*                                                                         *)
(* Numbers in the Lua script are doubles.  The literal                     *)
(* 9223372036854775807 of the overflow check rounds to 2^63, so the check  *)
(* lets a sum of exactly 2^63 through: LuaMax.  The sum itself is taken    *)
(* exactly; the rounding of sums near 2^63 is not modelled.                *)
(***************************************************************************)
EXTENDS Core, FiniteSets

CONSTANTS
    Procs,      \* goroutines calling the store
    Users,      \* user ids (without ':' or '*', see README)
    Metrics,    \* metrics
    Deltas,     \* deltas passed to AddPoints, 0 included
    Badges,     \* badge ids
    Levels,     \* levels passed to SetLevel
    MaxCalls,   \* calls each goroutine makes
    DelMayFail, \* whether an invalidating DEL can fail
    Nil         \* a missing key (a model value)

ASSUME Deltas \subseteq IntW /\ Levels \subseteq IntW /\ DelMayFail \in BOOLEAN

(* The overflow bound as the script's double literal: 2^63.                *)
LuaMax == MaxInt + 1

(* A user's state as buildStateFromKeys returns it and the cache holds it: *)
(* points and levels of every metric (0 for a missing key) and badges.     *)
State == [points : [Metrics -> MinInt .. LuaMax], badges : SUBSET Badges,
          levels : [Metrics -> IntW]]
EmptyState == [points |-> [m \in Metrics |-> 0], badges |-> {},
               levels |-> [m \in Metrics |-> 0]]

VARIABLES
    pts,        \* pts[u][m]: the value of user:{u}:points:{m}
    ptsKeys,    \* ptsKeys[u]: the metrics whose points key exists
    badges,     \* badges[u]: the members of user:{u}:badges
    lvl,        \* lvl[u][m]: the value of user:{u}:levels:{m}
    lvlKeys,    \* lvlKeys[u]: the metrics whose level key exists
    cache,      \* cache[u]: user:{u}:state, [st, ttl, ver], or Nil
    pc,         \* pc[p]: the command p sends next
    op,         \* op[p]: p's call: kind, user, metric, delta, badge, level
    left,       \* left[p]: the keys KEYS returned that p has not read yet
    acc,        \* acc[p]: the state buildStateFromKeys is building
    calls,      \* calls[p]: calls p has started
    got,        \* got[p]: p's last GetState result, [st, ver], or Nil
    ver,        \* ver[u][m]: SETs of the points key so far (ghost)
    retVer,     \* retVer[u][m]: the latest version whose AddPoints returned (ghost)
    accVer,     \* accVer[p][m]: the version p's call wrote or read (ghost)
    floor       \* floor[p][m]: retVer when p's GetState began (ghost)

serverVars == <<pts, ptsKeys, badges, lvl, lvlKeys, cache>>
ghostVars == <<ver, retVer, accVer, floor>>
vars == <<serverVars, pc, op, left, acc, calls, got, ghostVars>>

Init ==
    /\ pts = [u \in Users |-> [m \in Metrics |-> 0]]
    /\ ptsKeys = [u \in Users |-> {}]
    /\ badges = [u \in Users |-> {}]
    /\ lvl = [u \in Users |-> [m \in Metrics |-> 0]]
    /\ lvlKeys = [u \in Users |-> {}]
    /\ cache = [u \in Users |-> Nil]
    /\ pc = [p \in Procs |-> "idle"]
    /\ op = [p \in Procs |-> [kind |-> "get", user |-> CHOOSE u \in Users : TRUE,
                              metric |-> CHOOSE m \in Metrics : TRUE, delta |-> 0,
                              badge |-> CHOOSE b \in Badges : TRUE, level |-> 0]]
    /\ left = [p \in Procs |-> {}]
    /\ acc = [p \in Procs |-> EmptyState]
    /\ calls = [p \in Procs |-> 0]
    /\ got = [p \in Procs |-> Nil]
    /\ ver = [u \in Users |-> [m \in Metrics |-> 0]]
    /\ retVer = [u \in Users |-> [m \in Metrics |-> 0]]
    /\ accVer = [p \in Procs |-> [m \in Metrics |-> 0]]
    /\ floor = [p \in Procs |-> [m \in Metrics |-> 0]]

Goto(p, where) == pc' = [pc EXCEPT ![p] = where]
U(p) == op[p].user

(* A call begins.  AddPoints with delta 0 returns its error at once.       *)
(* GetState's ghost floor is the latest version already returned.        *)
Call(p, o) ==
    /\ pc[p] = "idle" /\ calls[p] < MaxCalls
    /\ calls' = [calls EXCEPT ![p] = @ + 1]
    /\ op' = [op EXCEPT ![p] = o]
    /\ Goto(p, CASE o.kind = "add" -> IF o.delta = 0 THEN "idle" ELSE "script"
                 [] o.kind = "badge" -> "sadd"
                 [] o.kind = "level" -> "set"
                 [] o.kind = "get" -> "getCache")
    /\ floor' = [floor EXCEPT ![p] = retVer[o.user]]
    /\ UNCHANGED <<serverVars, left, acc, got, ver, retVer, accVer>>

(* addPointsScript: GET (or 0), add, the overflow check, SET.  On an error *)
(* AddPoints returns it; on success the reply is converted to int64 (the   *)
(* conversion of 2^63 is out of range) and the cache invalidated.          *)
Script(p) ==
    LET u == U(p)  m == op[p].metric
        nv == pts[u][m] + op[p].delta IN
    /\ pc[p] = "script"
    /\ IF nv > LuaMax \/ nv < MinInt
       THEN /\ Goto(p, "idle")
            /\ UNCHANGED <<pts, ptsKeys, ver, accVer>>
       ELSE /\ pts' = [pts EXCEPT ![u][m] = nv]
            /\ ptsKeys' = [ptsKeys EXCEPT ![u] = @ \cup {m}]
            /\ ver' = [ver EXCEPT ![u][m] = @ + 1]
            /\ accVer' = [accVer EXCEPT ![p][m] = ver[u][m] + 1]
            /\ Goto(p, "del")
    /\ UNCHANGED <<badges, lvl, lvlKeys, cache, op, left, acc, calls, got,
                   retVer, floor>>

(* AwardBadge: SADD user:{u}:badges badge, then invalidate.                *)
SAdd(p) ==
    /\ pc[p] = "sadd"
    /\ badges' = [badges EXCEPT ![U(p)] = @ \cup {op[p].badge}]
    /\ Goto(p, "del")
    /\ UNCHANGED <<pts, ptsKeys, lvl, lvlKeys, cache, op, left, acc, calls, got, ghostVars>>

(* SetLevel: SET user:{u}:levels:{m} level, then invalidate.               *)
SetLevel(p) ==
    /\ pc[p] = "set"
    /\ lvl' = [lvl EXCEPT ![U(p)][op[p].metric] = op[p].level]
    /\ lvlKeys' = [lvlKeys EXCEPT ![U(p)] = @ \cup {op[p].metric}]
    /\ Goto(p, "del")
    /\ UNCHANGED <<pts, ptsKeys, badges, cache, op, left, acc, calls, got, ghostVars>>

(* invalidateStateCache: DEL user:{u}:state, its error ignored; the call   *)
(* then returns success.                                                   *)
Invalidate(p) ==
    /\ pc[p] = "del"
    /\ \/ cache' = [cache EXCEPT ![U(p)] = Nil]
       \/ DelMayFail /\ UNCHANGED cache
    /\ retVer' = IF op[p].kind = "add"
                 THEN [retVer EXCEPT ![U(p)][op[p].metric] =
                          IF @ < accVer[p][op[p].metric] THEN accVer[p][op[p].metric] ELSE @]
                 ELSE retVer
    /\ Goto(p, "idle")
    /\ UNCHANGED <<pts, ptsKeys, badges, lvl, lvlKeys, op, left, acc, calls, got,
                   ver, accVer, floor>>

(* GetState: getCachedState; a hit is returned, a miss rebuilds.           *)
GetCached(p) ==
    /\ pc[p] = "getCache"
    /\ IF cache[U(p)] # Nil
       THEN /\ got' = [got EXCEPT ![p] = [st |-> cache[U(p)].st, ver |-> cache[U(p)].ver]]
            /\ Goto(p, "idle")
            /\ UNCHANGED <<acc, accVer>>
       ELSE /\ acc' = [acc EXCEPT ![p] = EmptyState]
            /\ accVer' = [accVer EXCEPT ![p] = [m \in Metrics |-> 0]]
            /\ Goto(p, "keysPoints")
            /\ UNCHANGED got
    /\ UNCHANGED <<serverVars, op, left, calls, ver, retVer, floor>>

(* buildStateFromKeys: KEYS user:{u}:points:* ...                          *)
KeysPoints(p) ==
    /\ pc[p] = "keysPoints"
    /\ left' = [left EXCEPT ![p] = ptsKeys[U(p)]]
    /\ Goto(p, "getPoints")
    /\ UNCHANGED <<serverVars, op, acc, calls, got, ghostVars>>

(* ... GET of one points key; a value Int64 cannot parse is skipped.       *)
GetPoints(p, m) ==
    /\ pc[p] = "getPoints" /\ m \in left[p]
    /\ left' = [left EXCEPT ![p] = @ \ {m}]
    /\ acc' = IF pts[U(p)][m] \in IntW
              THEN [acc EXCEPT ![p].points[m] = pts[U(p)][m]]
              ELSE acc
    /\ accVer' = [accVer EXCEPT ![p][m] = ver[U(p)][m]]
    /\ UNCHANGED <<serverVars, pc, op, calls, got, ver, retVer, floor>>

(* ... SMEMBERS user:{u}:badges ...                                        *)
SMembers(p) ==
    /\ pc[p] = "getPoints" /\ left[p] = {}
    /\ acc' = [acc EXCEPT ![p].badges = badges[U(p)]]
    /\ Goto(p, "keysLevels")
    /\ UNCHANGED <<serverVars, op, left, calls, got, ghostVars>>

(* ... KEYS user:{u}:levels:* ...                                          *)
KeysLevels(p) ==
    /\ pc[p] = "keysLevels"
    /\ left' = [left EXCEPT ![p] = lvlKeys[U(p)]]
    /\ Goto(p, "getLevels")
    /\ UNCHANGED <<serverVars, op, acc, calls, got, ghostVars>>

(* ... GET of one level key.                                               *)
GetLevels(p, m) ==
    /\ pc[p] = "getLevels" /\ m \in left[p]
    /\ left' = [left EXCEPT ![p] = @ \ {m}]
    /\ acc' = [acc EXCEPT ![p].levels[m] = lvl[U(p)][m]]
    /\ UNCHANGED <<serverVars, pc, op, calls, got, ghostVars>>

(* updateStateCache: SET user:{u}:state with a five-minute TTL, then the   *)
(* built state is returned.                                                *)
UpdateCache(p) ==
    /\ pc[p] = "getLevels" /\ left[p] = {}
    /\ cache' = [cache EXCEPT ![U(p)] = [st |-> acc[p], ttl |-> TRUE, ver |-> accVer[p]]]
    /\ got' = [got EXCEPT ![p] = [st |-> acc[p], ver |-> accVer[p]]]
    /\ Goto(p, "idle")
    /\ UNCHANGED <<pts, ptsKeys, badges, lvl, lvlKeys, op, left, acc, calls, ghostVars>>

(* user:{u}:state exists and has a TTL.                                    *)
Expiring(u) == IF cache[u] = Nil THEN FALSE ELSE cache[u].ttl

(* Redis drops user:{u}:state when its TTL runs out.                        *)
Expire(u) ==
    /\ Expiring(u)
    /\ cache' = [cache EXCEPT ![u] = Nil]
    /\ UNCHANGED <<pts, ptsKeys, badges, lvl, lvlKeys, pc, op, left, acc, calls, got, ghostVars>>

(* Every goroutine has made its calls and nothing is left to expire.       *)
Terminating ==
    /\ \A p \in Procs : pc[p] = "idle" /\ calls[p] = MaxCalls
    /\ \A u \in Users : ~Expiring(u)
    /\ UNCHANGED vars

Calls ==
    [kind : {"add"}, user : Users, metric : Metrics, delta : Deltas,
     badge : {CHOOSE b \in Badges : TRUE}, level : {0}]
    \cup [kind : {"badge"}, user : Users, metric : {CHOOSE m \in Metrics : TRUE},
          delta : {0}, badge : Badges, level : {0}]
    \cup [kind : {"level"}, user : Users, metric : Metrics, delta : {0},
          badge : {CHOOSE b \in Badges : TRUE}, level : Levels]
    \cup [kind : {"get"}, user : Users, metric : {CHOOSE m \in Metrics : TRUE},
          delta : {0}, badge : {CHOOSE b \in Badges : TRUE}, level : {0}]

(* One step of a call already in flight.                                   *)
Step(p) ==
    \/ Script(p) \/ SAdd(p) \/ SetLevel(p) \/ Invalidate(p)
    \/ GetCached(p) \/ KeysPoints(p) \/ SMembers(p) \/ KeysLevels(p)
    \/ \E m \in Metrics : GetPoints(p, m) \/ GetLevels(p, m)
    \/ UpdateCache(p)

Next ==
    \/ \E p \in Procs : \/ \E o \in Calls : Call(p, o)
                        \/ Step(p)
    \/ \E u \in Users : Expire(u)
    \/ Terminating

(* A command sent to Redis is answered (a timeout is an answer too), and a *)
(* key with a TTL expires.  Starting a call is up to the caller.           *)
Spec == Init /\ [][Next]_vars

-----------------------------------------------------------------------------
(* Properties.                                                             *)

(* addPointsScript is "Lua script for atomic point addition with overflow *)
(* protection", and AddPoints "atomically adds points ... with overflow    *)
(* protection": every total the script SETs is an int64, which             *)
(* buildStateFromKeys can parse back (a key it cannot parse it skips, and  *)
(* GetState then shows no points for that metric).                         *)
PointsStayInt64 ==
    \A u \in Users, m \in Metrics : pts[u][m] \in IntW

(* A GetState sees every AddPoints that returned before it began: the     *)
(* points it returns are of that write's version or a later one.           *)
(* TestStore_GetState_Cache: "Add more points (this should invalidate      *)
(* cache) ... Next get should rebuild from keys (new value)".              *)
ReadYourWrites ==
    \A p \in Procs :
        (pc[p] = "idle" /\ op[p].kind = "get" /\ got[p] # Nil) =>
            \A m \in Metrics : got[p].ver[m] >= floor[p][m]

=============================================================================
