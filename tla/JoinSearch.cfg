CONSTANTS
    s1 = s1
    s2 = s2
    Searchers = {s1, s2}
    Tables <- MCTables
    Graphs <- MCGraphs
    Selections <- MCSelections
    MaxEdges = 3
SYMMETRY MCSymmetry
SPECIFICATION Spec
INVARIANTS
    TypeOK
    PathsJoin
    JoinsNearest
PROPERTY MemoStable
CHECK_DEADLOCK FALSE
