--------------------------- MODULE LeaderboardSpec ---------------------------
(***************************************************************************)
(* The Board contract of src/leaderboard/leaderboard.go, stated without    *)
(* any data structure: a board is a partial map from users to scores, and  *)
(* TopN returns its entries in rank order (score descending, then user id  *)
(* ascending).  SkipList is shown to implement this specification.         *)
(***************************************************************************)
EXTENDS Integers, Sequences

SeqExt == INSTANCE SequencesExt

CONSTANTS
    Users,      \* user ids; < on them stands for Go string order
    Scores,     \* int64 scores
    NoUser,     \* the zero UserID of Entry{}
    Absent,     \* marks a user that is not on the board
    TopNArgs    \* the values of n passed to TopN

VARIABLES
    score,      \* score[u]: u's score, or Absent
    lastRead    \* what the last TopN or Get returned

vars == <<score, lastRead>>

ZeroEntry == [user |-> NoUser, score |-> 0]
NoRead == [op |-> "none"]
TopResult(n, s) == [op |-> "topN", n |-> n, out |-> s]
GetResult(u, e, found) ==
    [op |-> "get", user |-> u, entry |-> e, found |-> found]

(* The rank order of the contract.                                         *)
RanksBefore(a, b) ==
    \/ a.score > b.score
    \/ a.score = b.score /\ a.user < b.user

OnBoard == {u \in Users : score[u] # Absent}

(* The board's entries in rank order.                                      *)
Ranking == SeqExt!SetToSortSeq({[user |-> u, score |-> score[u]] : u \in OnBoard},
                        RanksBefore)

Init ==
    /\ score = [u \in Users |-> Absent]
    /\ lastRead = NoRead

(* Update(user, score): insert or move.                                    *)
Update(u, s) ==
    /\ score' = [score EXCEPT ![u] = s]
    /\ UNCHANGED lastRead

(* Remove(user): no-op when absent.                                        *)
Remove(u) ==
    /\ score' = [score EXCEPT ![u] = Absent]
    /\ UNCHANGED lastRead

(* TopN(n): empty for n <= 0, all entries when n exceeds their number.     *)
TopN(n) ==
    /\ lastRead' = TopResult(n, IF n <= 0 THEN <<>>
                             ELSE SubSeq(Ranking, 1,
                                         IF n < Len(Ranking) THEN n
                                         ELSE Len(Ranking)))
    /\ UNCHANGED score

(* Get(user): the entry and true, or the zero Entry and false.             *)
Get(u) ==
    /\ lastRead' = IF score[u] # Absent
                   THEN GetResult(u, [user |-> u, score |-> score[u]], TRUE)
                   ELSE GetResult(u, ZeroEntry, FALSE)
    /\ UNCHANGED score

Next ==
    \/ \E u \in Users, s \in Scores : Update(u, s)
    \/ \E u \in Users : Remove(u)
    \/ \E n \in TopNArgs : TopN(n)
    \/ \E u \in Users : Get(u)

Spec == Init /\ [][Next]_vars

=============================================================================
