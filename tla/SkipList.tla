------------------------------ MODULE SkipList ------------------------------
(***************************************************************************)
(* The ranked leaderboard of src/leaderboard/skiplist.go: a skip list of   *)
(* nodes keyed by (score desc, user asc), a per-user index byUser and the  *)
(* current top level lvl.  Every exported method holds s.mu (exclusively   *)
(* for Update/Remove, shared for TopN/Get) for its whole body, so each one *)
(* is a single atomic action here.                                         *)
(*                                                                         *)
(* Pointers are node addresses drawn from the finite set Nodes; head is    *)
(* the sentinel and Nil the nil pointer.  A node that is no longer         *)
(* reachable keeps its fields, as Go memory does until it is collected,    *)
(* and its address may be handed out again by a later allocation.         *)
(***************************************************************************)
EXTENDS Integers, Sequences, FiniteSets, TLC

CONSTANTS
    Users,      \* user ids; the order < on them stands for Go string order
    Scores,     \* the int64 scores callers pass to Update
    MaxLevel,   \* maxLevel (16 in the code)
    Nodes,      \* addresses available to &node{...}
    head,       \* the address of the head sentinel s.head
    Nil,        \* the nil pointer
    NoUser,     \* the zero UserID "" of Entry{}
    TopNArgs    \* the values of n passed to TopN

ASSUME Users \subseteq Nat /\ NoUser \notin Users
ASSUME Scores \subseteq Int /\ 0 \in Scores
ASSUME MaxLevel \in Nat \ {0}
ASSUME head \notin Nodes /\ Nil \notin Nodes \cup {head}
ASSUME TopNArgs \subseteq Int

VARIABLES
    next,       \* next[x][i]: forward pointer of node x at level i
    entry,      \* entry[x]: the Entry (user, score) stored in node x
    lvl,        \* s.lvl
    byUser,     \* s.byUser, Nil where the map has no key
    lastRead    \* what the last TopN or Get returned to its caller

vars == <<next, entry, lvl, byUser, lastRead>>

Levels == 0 .. MaxLevel - 1
Ptr == Nodes \cup {Nil}
Entry == [user : Users, score : Scores]
ZeroEntry == [user |-> NoUser, score |-> 0]

(* The result of a read: TopN's slice or Get's (Entry, bool).              *)
NoRead == [op |-> "none"]
TopResult(n, s) == [op |-> "topN", n |-> n, out |-> s]
GetResult(u, e, found) ==
    [op |-> "get", user |-> u, entry |-> e, found |-> found]

(* The state the algorithm works on, as one record, so that Update can     *)
(* run removeLocked and the insertion one after the other in one step.     *)
St == [next |-> next, entry |-> entry, lvl |-> lvl, byUser |-> byUser]

-----------------------------------------------------------------------------
(* Mutant: ties not broken by user id.                                    *)
lessNoTieBreak(a, b) == a.score > b.score

(* less: higher score first, equal scores by ascending user id.            *)
less(a, b) ==
    IF a.score = b.score THEN a.user < b.user ELSE a.score > b.score

(* One level of the search loop: move right while the next node's entry   *)
(* is before e.                                                            *)
RECURSIVE Advance(_, _, _, _)
Advance(st, cur, i, e) ==
    LET nx == st.next[cur][i] IN
    IF nx # Nil /\ less(st.entry[nx], e) THEN Advance(st, nx, i, e) ELSE cur

(* The update vector: update[i] for i in 0..lvl-1, filled from the top     *)
(* level down, each level starting where the one above stopped.           *)
RECURSIVE SearchFrom(_, _, _, _)
SearchFrom(st, cur, i, e) ==
    LET c == Advance(st, cur, i, e) IN
    IF i = 0 THEN (0 :> c) ELSE (i :> c) @@ SearchFrom(st, c, i - 1, e)

UpdateVector(st, e) == SearchFrom(st, head, st.lvl - 1, e)

RECURSIVE Shrink(_, _)

(* Mutant: lvl never shrinks after a removal.                            *)
ShrinkNone(nx, l) == l

(* Mutant: the loop guard s.lvl > 1 dropped.                             *)
ShrinkPastOne(nx, l) ==
    IF l >= 1 /\ nx[head][l - 1] = Nil THEN Shrink(nx, l - 1) ELSE l

(* for s.lvl > 1 && s.head.next[s.lvl-1] == nil { s.lvl-- }               *)
Shrink(nx, l) == IF l > 1 /\ nx[head][l - 1] = Nil THEN Shrink(nx, l - 1) ELSE l

(* Mutant: only level 0 is relinked past the removed node.               *)
removeLockedLevel0(st, user, e) ==
    LET update == UpdateVector(st, e)
        target == st.next[update[0]][0]
        nx == [x \in DOMAIN st.next |->
                [i \in Levels |->
                    IF i < 1 /\ x = update[i] /\ st.next[x][i] = target
                    THEN st.next[target][i] ELSE st.next[x][i]]]
    IN IF target = Nil \/ st.entry[target].user # user
       THEN st
       ELSE [st EXCEPT !.next = nx,
                       !.byUser[user] = Nil,
                       !.lvl = Shrink(nx, st.lvl)]

(* removeLocked(user, e): search for e, unlink the node found if it holds  *)
(* user, drop user from byUser and shrink lvl.                             *)
removeLocked(st, user, e) ==
    LET update == UpdateVector(st, e)
        target == st.next[update[0]][0]
        nx == [x \in DOMAIN st.next |->
                [i \in Levels |->
                    IF i < st.lvl /\ x = update[i] /\ st.next[x][i] = target
                    THEN st.next[target][i] ELSE st.next[x][i]]]
    IN IF target = Nil \/ st.entry[target].user # user
       THEN st
       ELSE [st EXCEPT !.next = nx,
                       !.byUser[user] = Nil,
                       !.lvl = Shrink(nx, st.lvl)]

(* The insertion half of Update: search, raise lvl to the drawn level      *)
(* newLvl with the head as predecessor, splice node n into levels          *)
(* 0..newLvl-1 and record it in byUser.                                    *)
insertLocked(st, user, score, newLvl, n) ==
    LET e == [user |-> user, score |-> score]
        found == UpdateVector(st, e)
        update == [i \in 0 .. newLvl - 1 |->
                     IF i < st.lvl THEN found[i] ELSE head]
        nx == [x \in DOMAIN st.next |->
                 IF x = n
                 THEN [i \in Levels |->
                         IF i < newLvl THEN st.next[update[i]][i] ELSE Nil]
                 ELSE [i \in Levels |->
                         IF i < newLvl /\ x = update[i] THEN n
                         ELSE st.next[x][i]]]
    IN [st EXCEPT !.next = nx,
                  !.entry[n] = e,
                  !.byUser[user] = n,
                  !.lvl = IF newLvl > st.lvl THEN newLvl ELSE st.lvl]

(* Nodes reachable from the head at some level.                            *)
RECURSIVE ReachFrom(_, _, _)
ReachFrom(nx, frontier, seen) ==
    LET succ == {nx[x][i] : x \in frontier, i \in Levels} \ ({Nil} \cup seen)
    IN IF succ = {} THEN seen ELSE ReachFrom(nx, succ, seen \cup succ)

(* An address the allocator may return: one no live pointer refers to.    *)
FreeNodes(st) ==
    Nodes \ (ReachFrom(st.next, {head}, {}) \cup {st.byUser[u] : u \in Users})

(* randomLevel: 1 plus the number of successful p-coin flips, capped at    *)
(* maxLevel.  The PCG stream is seeded from crypto/rand, so every level    *)
(* in 1..MaxLevel can be drawn at every call.                              *)
randomLevel == 1 .. MaxLevel

RECURSIVE Collect(_, _, _, _)

(* Mutant: the loop runs while len(out) <= n.                             *)
CollectOneMore(nx, ent, cur, n) ==
    IF cur # Nil /\ n >= 0
    THEN <<ent[cur]>> \o Collect(nx, ent, nx[cur][0], n - 1)
    ELSE <<>>

(* TopN's loop: append cur.e while cur != nil && len(out) < n.             *)
Collect(nx, ent, cur, n) ==
    IF cur # Nil /\ n > 0
    THEN <<ent[cur]>> \o Collect(nx, ent, nx[cur][0], n - 1)
    ELSE <<>>

SetState(st) ==
    /\ next' = st.next
    /\ entry' = st.entry
    /\ lvl' = st.lvl
    /\ byUser' = st.byUser

-----------------------------------------------------------------------------
(* NewSkipList                                                             *)
Init ==
    /\ next = [x \in Nodes \cup {head} |-> [i \in Levels |-> Nil]]
    /\ entry = [x \in Nodes |-> ZeroEntry]
    /\ lvl = 1
    /\ byUser = [u \in Users |-> Nil]
    /\ lastRead = NoRead

(* Mutant: the user's old node is not removed before the insertion.     *)
UpdateNoRemove(user, score) ==
    \E newLvl \in randomLevel, n \in FreeNodes(St) :
        /\ SetState(insertLocked(St, user, score, newLvl, n))
        /\ UNCHANGED lastRead

(* Update(user, score): remove the user's old node if any, then insert a   *)
(* new node at a freshly drawn level.                                      *)
Update(user, score) ==
    LET st1 == IF byUser[user] # Nil
               THEN removeLocked(St, user, entry[byUser[user]])
               ELSE St
    IN \E newLvl \in randomLevel, n \in FreeNodes(st1) :
         /\ SetState(insertLocked(st1, user, score, newLvl, n))
         /\ UNCHANGED lastRead

(* Remove(user): a no-op when the user is absent.                          *)
Remove(user) ==
    /\ SetState(IF byUser[user] # Nil
                THEN removeLocked(St, user, entry[byUser[user]])
                ELSE St)
    /\ UNCHANGED lastRead

(* TopN(n): nil for n <= 0, else the first n entries of level 0.          *)
TopN(n) ==
    /\ lastRead' = TopResult(n, IF n <= 0 THEN <<>>
                             ELSE Collect(next, entry, next[head][0], n))
    /\ UNCHANGED <<next, entry, lvl, byUser>>

(* Get(user)                                                               *)
Get(user) ==
    /\ lastRead' = IF byUser[user] # Nil
                   THEN GetResult(user, entry[byUser[user]], TRUE)
                   ELSE GetResult(user, ZeroEntry, FALSE)
    /\ UNCHANGED <<next, entry, lvl, byUser>>

Next ==
    \/ \E u \in Users, s \in Scores : Update(u, s)
    \/ \E u \in Users : Remove(u)
    \/ \E n \in TopNArgs : TopN(n)
    \/ \E u \in Users : Get(u)

Spec == Init /\ [][Next]_vars


(* A node no pointer reaches holds garbage that no later step reads:      *)
(* allocation overwrites all its fields.  States that differ only there   *)
(* are the same state of the program.                                     *)
LiveNodes == Nodes \ FreeNodes(St)

LiveView ==
    <<[x \in DOMAIN next |-> IF x \in LiveNodes \cup {head} THEN next[x] ELSE Nil],
      [x \in Nodes |-> IF x \in LiveNodes THEN entry[x] ELSE ZeroEntry],
      lvl, byUser, lastRead>>

-----------------------------------------------------------------------------
(* Properties                                                              *)

TypeOK ==
    /\ next \in [Nodes \cup {head} -> [Levels -> Ptr]]
    /\ entry \in [Nodes -> Entry \cup {ZeroEntry}]
    /\ lvl \in 1 .. MaxLevel
    /\ byUser \in [Users -> Ptr]
    /\ \/ lastRead = NoRead
       \/ /\ lastRead.op = "topN"
          /\ lastRead = TopResult(lastRead.n, lastRead.out)
          /\ lastRead.n \in TopNArgs /\ lastRead.out \in Seq(Entry)
       \/ lastRead \in {GetResult(u, e, b) : u \in Users,
                                             e \in Entry \cup {ZeroEntry},
                                             b \in BOOLEAN}

(* The nodes met following level i from the head.  A chain longer than    *)
(* Nodes can only arise from a cycle, which the invariants rule out.      *)
RECURSIVE ChainFrom(_, _, _)
ChainFrom(cur, i, fuel) ==
    IF cur = Nil \/ fuel = 0 THEN <<>>
    ELSE <<cur>> \o ChainFrom(next[cur][i], i, fuel - 1)

LevelChain(i) == ChainFrom(next[head][i], i, Cardinality(Nodes) + 1)

NodesAt(i) == {LevelChain(i)[k] : k \in 1 .. Len(LevelChain(i))}

(* The rank order of spec section 4.2, stated apart from less.            *)
RanksBefore(a, b) ==
    \/ a.score > b.score
    \/ a.score = b.score /\ a.user < b.user

(* After every Update and Remove, each level, followed from the head, is  *)
(* finite and strictly ordered by rank, so level 0 has no user twice.     *)
(* Breaking it takes an Update whose search stops at the wrong node.      *)
OrderedLevels ==
    \A i \in Levels :
        LET c == LevelChain(i) IN
        /\ Len(c) <= Cardinality(Nodes)
        /\ \A k \in 1 .. Len(c) - 1 : RanksBefore(entry[c[k]], entry[c[k + 1]])

(* Tower invariant: a node linked at level i is linked at every level     *)
(* below it, so removeLocked's relinking over levels 0..lvl-1 and          *)
(* Update's splice over 0..newLvl-1 never leave a node half linked.       *)
TowerNested ==
    \A i \in Levels \ {0} : NodesAt(i) \subseteq NodesAt(i - 1)

(* byUser and the level-0 chain agree: the indexed nodes are exactly the  *)
(* nodes of level 0, and each is indexed under its own user.  Update's    *)
(* remove-then-insert is what keeps a user from having two nodes.         *)
IndexMatchesChain ==
    /\ {byUser[u] : u \in Users} \ {Nil} = NodesAt(0)
    /\ \A u \in Users : byUser[u] # Nil => entry[byUser[u]].user = u

(* lvl is tight: no head pointer at or above lvl, and the top level in    *)
(* use is non-empty unless lvl = 1.  Update relies on the first part when *)
(* it raises lvl with the head as the only predecessor.                   *)
LevelTight ==
    /\ lvl = 1 \/ next[head][lvl - 1] # Nil
    /\ \A i \in lvl .. MaxLevel - 1 : next[head][i] = Nil

(* Refinement: with byUser read as the board's score map, every step of   *)
(* the skip list is a step of the Board contract, so every TopN returns   *)
(* the entries in rank order and every Get the stored score.              *)
AbstractScore ==
    [u \in Users |-> IF byUser[u] # Nil THEN entry[byUser[u]].score ELSE Nil]

LB == INSTANCE LeaderboardSpec WITH score <- AbstractScore, Absent <- Nil

LeaderboardRefinement == LB!Spec

=============================================================================
