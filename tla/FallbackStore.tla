--------------------------- MODULE FallbackStore ---------------------------
(***************************************************************************)
(* The storage gamify.New uses when none is given (src/gamify/gamify.go):  *)
(* inMemoryFallback, which creates a memStore on first use, and memStore,  *)
(* a map from users to UserState values with no lock.                      *)
(*                                                                         *)
(* Nothing is locked, so every read and every write of a shared field or   *)
(* map entry is its own step, and the goroutines calling the store         *)
(* interleave between any two of them.  The heap is explicit: m.mem points *)
(* to a memStore, a memStore's data field to a map, and a UserState value  *)
(* holds references to its Points, Badges and Levels maps, so copies of    *)
(* the value share them; the three maps are made together, and one         *)
(* address stands for the three.                                           *)
(* Each allocation takes a fresh address.  Go's best-effort "concurrent    *)
(* map writes" detector is not modelled; with it some of these races end   *)
(* in a crash instead of a lost update.                                    *)
(***************************************************************************)
EXTENDS Core, Sequences

CONSTANTS
    Procs,      \* goroutines calling the store
    Users,      \* normalized user ids
    Metrics,    \* metrics
    Deltas,     \* non-zero deltas passed to AddPoints
    Badges,     \* badges passed to AwardBadge
    Lvls,       \* levels passed to SetLevel
    MaxCalls,   \* calls each goroutine makes
    MaxAlloc    \* addresses of each kind

ASSUME Deltas \subseteq IntW /\ 0 \notin Deltas

Addr == 1..MaxAlloc
Nil == 0

VARIABLES
    mem,        \* m.mem: a memStore address or Nil
    dataOf,     \* dataOf[s]: the data map of memStore s, or Nil
    entries,    \* entries[dm][u]: the Points map of u's UserState in dm, or Nil
    pts,        \* pts[a][metric]: the Points map of UserState maps a
    bdg,        \* bdg[a]: the Badges map of a, as a set
    lvl,        \* lvl[a][metric]: the Levels map of a
    allocs,     \* allocs[kind]: addresses handed out so far
    pc,         \* pc[p]: the step p takes next
    op,         \* op[p]: the call p is in: its kind, user, metric and
                \* argument (delta, badge or level)
    s,          \* s[p]: the memStore p's call works on (its local copy)
    st,         \* st[p]: the maps of p's local UserState
    nxt,        \* nxt[p]: the total AddSafe computed for p
    calls,      \* calls[p]: calls p has started
    exact       \* exact[u][m]: the sum of the deltas of successful AddPoints

vars == <<mem, dataOf, entries, pts, bdg, lvl, allocs, pc, op, s, st, nxt, calls, exact>>

Init ==
    /\ mem = Nil
    /\ dataOf = [a \in Addr |-> Nil]
    /\ entries = [a \in Addr |-> [u \in Users |-> Nil]]
    /\ pts = [a \in Addr |-> [m \in Metrics |-> 0]]
    /\ bdg = [a \in Addr |-> {}]
    /\ lvl = [a \in Addr |-> [m \in Metrics |-> 0]]
    /\ allocs = [k \in {"store", "data", "points"} |-> 0]
    /\ pc = [p \in Procs |-> "idle"]
    /\ op = [p \in Procs |-> [kind |-> "get", user |-> CHOOSE u \in Users : TRUE,
                              metric |-> XP, arg |-> 0]]
    /\ s = [p \in Procs |-> Nil]
    /\ st = [p \in Procs |-> Nil]
    /\ nxt = [p \in Procs |-> 0]
    /\ calls = [p \in Procs |-> 0]
    /\ exact = [u \in Users |-> [m \in Metrics |-> 0]]

(* The next fresh address of a kind.                                       *)
Fresh(kind) == allocs[kind] + 1
CanAlloc(kind) == allocs[kind] < MaxAlloc

Goto(p, where) == pc' = [pc EXCEPT ![p] = where]

Quiescent == \A p \in Procs : pc[p] = "idle"

(* Every goroutine has made its calls.                                     *)
Terminating ==
    /\ Quiescent /\ \A p \in Procs : calls[p] = MaxCalls
    /\ UNCHANGED vars

(* The calls a goroutine can make, each through inMemoryFallback.ensure    *)
(* and memStore.ensure: AddPoints(u, metric, d), AwardBadge(u, b),         *)
(* SetLevel(u, metric, lvl) and GetState(u).                               *)
Ops ==
    {[kind |-> "add", user |-> u, metric |-> m, arg |-> d] :
        u \in Users, m \in Metrics, d \in Deltas}
    \cup {[kind |-> "badge", user |-> u, metric |-> XP, arg |-> b] :
            u \in Users, b \in Badges}
    \cup {[kind |-> "level", user |-> u, metric |-> m, arg |-> l] :
            u \in Users, m \in Metrics, l \in Lvls}
    \cup {[kind |-> "get", user |-> u, metric |-> XP, arg |-> 0] : u \in Users}

(* Where a call goes once memStore.ensure has returned its UserState.     *)
AfterEnsure(kind) ==
    CASE kind = "add" -> "read"
      [] kind = "badge" -> "badge"
      [] kind = "level" -> "level"
      [] kind = "get" -> "idle"

Call(p, o) ==
    /\ pc[p] = "idle" /\ calls[p] < MaxCalls
    /\ calls' = [calls EXCEPT ![p] = @ + 1]
    /\ op' = [op EXCEPT ![p] = o]
    /\ Goto(p, "fbCheck")
    /\ UNCHANGED <<mem, dataOf, entries, pts, bdg, lvl, allocs, s, st, nxt, exact>>

(* inMemoryFallback.ensure: if m.mem == nil ...                            *)
FbCheck(p) ==
    /\ pc[p] = "fbCheck"
    /\ Goto(p, IF mem = Nil THEN "fbAlloc" ELSE "fbRead")
    /\ UNCHANGED <<mem, dataOf, entries, pts, bdg, lvl, allocs, op, s, st, nxt,
                   calls, exact>>

(* ... m.mem = &memStore{}.                                                *)
FbAlloc(p) ==
    /\ pc[p] = "fbAlloc" /\ CanAlloc("store")
    /\ mem' = Fresh("store")
    /\ allocs' = [allocs EXCEPT !["store"] = @ + 1]
    /\ Goto(p, "fbRead")
    /\ UNCHANGED <<dataOf, entries, pts, bdg, lvl, op, s, st, nxt, calls, exact>>

(* ... return m.mem, read again; then memStore.ensure: if s.data == nil.   *)
FbRead(p) ==
    /\ pc[p] = "fbRead"
    /\ s' = [s EXCEPT ![p] = mem]
    /\ Goto(p, IF dataOf[mem] = Nil THEN "dataAlloc" ELSE "lookup")
    /\ UNCHANGED <<mem, dataOf, entries, pts, bdg, lvl, allocs, op, st, nxt,
                   calls, exact>>

(* ... s.data = map[core.UserID]core.UserState{}.                          *)
DataAlloc(p) ==
    /\ pc[p] = "dataAlloc" /\ CanAlloc("data")
    /\ dataOf' = [dataOf EXCEPT ![s[p]] = Fresh("data")]
    /\ allocs' = [allocs EXCEPT !["data"] = @ + 1]
    /\ Goto(p, "lookup")
    /\ UNCHANGED <<mem, entries, pts, bdg, lvl, op, s, st, nxt, calls, exact>>

(* ... st, ok := s.data[u]: the stored value, or a new UserState with new  *)
(* empty Points, Badges and Levels maps (not yet stored).                  *)
Lookup(p) ==
    LET found == entries[dataOf[s[p]]][op[p].user] IN
    /\ pc[p] = "lookup"
    /\ IF found # Nil
       THEN /\ st' = [st EXCEPT ![p] = found]
            /\ Goto(p, AfterEnsure(op[p].kind))
            /\ UNCHANGED <<pts, bdg, lvl, allocs>>
       ELSE /\ CanAlloc("points")
            /\ st' = [st EXCEPT ![p] = Fresh("points")]
            /\ pts' = [pts EXCEPT ![Fresh("points")] = [m \in Metrics |-> 0]]
            /\ bdg' = [bdg EXCEPT ![Fresh("points")] = {}]
            /\ lvl' = [lvl EXCEPT ![Fresh("points")] = [m \in Metrics |-> 0]]
            /\ allocs' = [allocs EXCEPT !["points"] = @ + 1]
            /\ Goto(p, "storeNew")
    /\ UNCHANGED <<mem, dataOf, entries, op, s, nxt, calls, exact>>

(* ... s.data[u] = st; return st.  GetState returns its clone here.        *)
StoreNew(p) ==
    /\ pc[p] = "storeNew"
    /\ entries' = [entries EXCEPT ![dataOf[s[p]]][op[p].user] = st[p]]
    /\ Goto(p, AfterEnsure(op[p].kind))
    /\ UNCHANGED <<mem, dataOf, pts, bdg, lvl, allocs, op, s, st, nxt, calls, exact>>

(* memStore.AddPoints: next, err := core.AddSafe(st.Points[metric], d);    *)
(* an overflow returns the error.                                          *)
ReadPoints(p) ==
    LET r == AddSafe(pts[st[p]][op[p].metric], op[p].arg) IN
    /\ pc[p] = "read"
    /\ nxt' = [nxt EXCEPT ![p] = r.val]
    /\ Goto(p, IF r.err THEN "idle" ELSE "write")
    /\ UNCHANGED <<mem, dataOf, entries, pts, bdg, lvl, allocs, op, s, st, calls, exact>>

(* ... st.Points[metric] = next, into the Points map st shares with the    *)
(* value stored in s.data (or with none).                                  *)
WritePoints(p) ==
    /\ pc[p] = "write"
    /\ pts' = [pts EXCEPT ![st[p]][op[p].metric] = nxt[p]]
    /\ Goto(p, "save")
    /\ UNCHANGED <<mem, dataOf, entries, bdg, lvl, allocs, op, s, st, nxt, calls, exact>>

(* memStore.AwardBadge: st.Badges[b] = struct{}{}.                         *)
WriteBadge(p) ==
    /\ pc[p] = "badge"
    /\ bdg' = [bdg EXCEPT ![st[p]] = @ \cup {op[p].arg}]
    /\ Goto(p, "save")
    /\ UNCHANGED <<mem, dataOf, entries, pts, lvl, allocs, op, s, st, nxt, calls, exact>>

(* memStore.SetLevel: st.Levels[metric] = lvl.                             *)
WriteLevel(p) ==
    /\ pc[p] = "level"
    /\ lvl' = [lvl EXCEPT ![st[p]][op[p].metric] = op[p].arg]
    /\ Goto(p, "save")
    /\ UNCHANGED <<mem, dataOf, entries, pts, bdg, allocs, op, s, st, nxt, calls, exact>>

(* ... s.data[u] = st; return nil (AddPoints: return next, nil, and the    *)
(* call reports its delta as applied).                                     *)
Save(p) ==
    /\ pc[p] = "save"
    /\ entries' = [entries EXCEPT ![dataOf[s[p]]][op[p].user] = st[p]]
    /\ exact' = IF op[p].kind = "add"
                THEN [exact EXCEPT ![op[p].user][op[p].metric] = @ + op[p].arg]
                ELSE exact
    /\ Goto(p, "idle")
    /\ UNCHANGED <<mem, dataOf, pts, bdg, lvl, allocs, op, s, st, nxt, calls>>

Next ==
    \/ \E p \in Procs :
          \/ \E o \in Ops : Call(p, o)
          \/ FbCheck(p) \/ FbAlloc(p) \/ FbRead(p) \/ DataAlloc(p)
          \/ Lookup(p) \/ StoreNew(p)
          \/ ReadPoints(p) \/ WritePoints(p) \/ WriteBadge(p) \/ WriteLevel(p)
          \/ Save(p)
    \/ Terminating

Spec == Init /\ [][Next]_vars

-----------------------------------------------------------------------------
(* Properties.                                                             *)

(* What GetState(u) would return for metric m now: the Points map of u's   *)
(* entry in the current store's data map, or 0.                            *)
Visible(u, m) ==
    IF mem = Nil \/ dataOf[mem] = Nil \/ entries[dataOf[mem]][u] = Nil
    THEN 0 ELSE pts[entries[dataOf[mem]][u]][m]

(* Once no call is in flight, GetState shows for every user and metric the *)
(* exact sum of the deltas of the AddPoints calls that returned success,   *)
(* as the memory adapter it mirrors does.                                  *)
FallbackTotalExact ==
    Quiescent => \A u \in Users, m \in Metrics : Visible(u, m) = exact[u][m]

=============================================================================
