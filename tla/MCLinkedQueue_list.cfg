SPECIFICATION Spec
CONSTANTS
    Data = {a, b}
    Node = {n1, n2, n3, n4}
SYMMETRY Symmetry
INVARIANTS
    WellFormed
PROPERTIES
    ImplementsQueue
