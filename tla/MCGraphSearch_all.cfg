CONSTANTS
    n1 = n1
    n2 = n2
    n3 = n3
    n4 = n4
    n5 = n5
    Names = {n1, n2, n3, n4, n5}
    Graphs <- MCGraphs
    Depths = {0, 1, 2}
    MaxQueryDepth = 4
SPECIFICATION FairSpec
INVARIANTS TypeOK FindsShortest MissesNothing CyclesAreFound
PROPERTIES SearchesEnd SearchesProgress
