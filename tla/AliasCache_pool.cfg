SPECIFICATION Spec
CONSTANTS
    Ids = {i1, i2, i3, i4}
    Aliases = {1, 2}
    NOT_RESPONDING = 100
    Entries = 3
INVARIANTS
    Consistent
PROPERTIES
    ImplementsMap
SYMMETRY Sym
