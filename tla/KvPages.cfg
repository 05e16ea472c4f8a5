CONSTANTS
    Caches = {k1, k2, k3}
    Values = {v1, v2}
    PageTokens = 2
    Capacities = {3}
SPECIFICATION Spec
SYMMETRY PageSymmetry
PROPERTY ImplementsPrivateRows
