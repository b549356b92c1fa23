SPECIFICATION Spec
CONSTANTS
    MapSize = 4
    Base = 64
    Handle = {h1, h2, h3}
    Sizes = {5, 12, 17}
    Aligns = {4, 6}
    AddrBits = 7
    NoBlock = NoBlock
SYMMETRY Symmetry
INVARIANTS
    TypeOK
    Exclusive
    MapExact
    Freeable
    FailsOnlyWhenFull
    HangsOnlyWhenFull
PROPERTIES
    ImplementsKernelHeap
