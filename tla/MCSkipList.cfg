CONSTANTS
    n1 = n1
    n2 = n2
    n3 = n3
    head = head
    Nil = Nil
    NoUser = NoUser
    Users <- MCUsers
    Scores <- MCScores
    MaxLevel <- MCMaxLevel
    Nodes <- MCNodes
    TopNArgs <- MCTopNArgs

SPECIFICATION Spec

SYMMETRY NodeSymmetry

INVARIANT TypeOK
INVARIANT OrderedLevels
INVARIANT TowerNested
INVARIANT IndexMatchesChain
INVARIANT LevelTight

PROPERTY LeaderboardRefinement
VIEW LiveView
