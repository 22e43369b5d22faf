CONSTANTS
    o1 = o1
    o2 = o2
    p1 = p1
    p2 = p2
    p3 = p3
    b1 = b1
    b2 = b2
    b3 = b3
    b4 = b4
    b5 = b5
    Null = Null
    Objects <- TwoObjects
    Pointers <- ThreePointers
    Blocks <- FiveBlocks
SYMMETRY Symmetric
SPECIFICATION Spec
INVARIANTS CountsExact
PROPERTY RefinesWeakPointers
