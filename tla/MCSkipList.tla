----------------------------- MODULE MCSkipList -----------------------------
(* Model-checking instance of SkipList: three users, scores with ties,    *)
(* three levels and one node address per user.                            *)
EXTENDS SkipList

CONSTANTS n1, n2, n3

MCUsers == {1, 2, 3}
MCScores == {0, 1}
MCMaxLevel == 3
MCNodes == {n1, n2, n3}
MCTopNArgs == {0, 2, 4}

NodeSymmetry == Permutations(MCNodes)

=============================================================================
