----------------------------- MODULE StorageSpec -----------------------------
(***************************************************************************)
(* What a durable engine.Storage promises (src/engine/interfaces.go): each *)
(* call applies to every user's state at once, AddPoints refuses a sum    *)
(* outside int64 (core.AddSafe) and leaves the state as it was, and a     *)
(* store that keeps its state on disk writes out the state it holds, so   *)
(* that a restart brings back the last state written.                     *)
(*                                                                         *)
(* mem is the state the running store serves, Down while the process is   *)
(* down; disk is the state a restart would load.  A call changes mem only; *)
(* Sync writes mem out.  GetState and a refused AddPoints change nothing  *)
(* and are stuttering steps.                                               *)
(***************************************************************************)
EXTENDS Core

CONSTANTS
    Users,      \* user ids
    Metrics,    \* metrics
    Deltas,     \* deltas passed to AddPoints
    Badges,     \* badge ids
    Levels,     \* levels passed to SetLevel
    Down        \* mem while the process is down

(* A user's state: points and levels (0 for a missing key) and badges.     *)
UState == [points : [Metrics -> IntW], badges : SUBSET Badges,
           levels : [Metrics -> IntW]]
NoState == [points |-> [m \in Metrics |-> 0], badges |-> {},
            levels |-> [m \in Metrics |-> 0]]

VARIABLES mem, disk

svars == <<mem, disk>>

Init ==
    /\ mem = [u \in Users |-> NoState]
    /\ disk = mem

AddPoints(u, m, d) ==
    LET r == AddSafe(mem[u].points[m], d) IN
    /\ mem # Down /\ ~r.err
    /\ mem' = [mem EXCEPT ![u].points[m] = r.val]
    /\ UNCHANGED disk

AwardBadge(u, b) ==
    /\ mem # Down
    /\ mem' = [mem EXCEPT ![u].badges = @ \cup {b}]
    /\ UNCHANGED disk

SetLevel(u, m, l) ==
    /\ mem # Down
    /\ mem' = [mem EXCEPT ![u].levels[m] = l]
    /\ UNCHANGED disk

(* The store writes out the whole state it holds.                          *)
Sync ==
    /\ mem # Down
    /\ disk' = mem
    /\ UNCHANGED mem

Crash ==
    /\ mem # Down
    /\ mem' = Down
    /\ UNCHANGED disk

Restart ==
    /\ mem = Down
    /\ mem' = disk
    /\ UNCHANGED disk

Next ==
    \/ \E u \in Users, m \in Metrics, d \in Deltas : AddPoints(u, m, d)
    \/ \E u \in Users, b \in Badges : AwardBadge(u, b)
    \/ \E u \in Users, m \in Metrics, l \in Levels : SetLevel(u, m, l)
    \/ Sync \/ Crash \/ Restart

Spec == Init /\ [][Next]_svars

=============================================================================
