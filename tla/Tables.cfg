SPECIFICATION TablesSpec
CONSTANTS
    Threads = {a, b, c}
    Capacity = 2
    MaxNest = 2
    FREE = free
    Sockets = 5
    Generations = 3
    Actors = {1, 2}
    Lines = 2
    Pieces = 2
    Keys <- IntKeys
    Vals = {1, 2}
    MaxCap = 16
    MapInitialCap = 4
    Hash <- Spread
    Elem = {1, 2}
    NoElem = none
    MaxCalls = 6
    Vecs <- ShortVecs
INVARIANTS WindowsAreOwn DescriptorsMeanTheirSocket LinesStayWhole TableIsMap
           CostIsPaid VerdictsAreRight FindsTheFirstWay
PROPERTIES ImplementsSequence
\* The registry and the output stop at their bounds, a match and a search end.
CHECK_DEADLOCK FALSE
