SPECIFICATION SeenSpec
CONSTANTS
    InitialSemi = 4
    Numbers = {1, 2}
    MapInitialCap = 2
    Hash <- Colliding
    Fns <- FourFns
    RegSpace = 6
    VecInitialCap = 1
    MaxText = 2
    MaxMaps = 1
    Programs <- SomePrograms
INVARIANTS NothingIsStale
PROPERTY ImplementsStore
