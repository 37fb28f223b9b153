\* Two files, two commands at a time, whose windows overlap as they happen to.
SPECIFICATION Spec
CONSTANTS
    PublicKeys = {k1, k2, k3}
    NoKey = NoKey
    Names = {n1}
    Groups = {g1, g2}
    Paths = {f1, f2}
    Processes = {c1, c2}
    Idle = Idle
    Partial = Partial
    User = f1
    MaxHistory = 3
CONSTRAINT Bound
SYMMETRY ConfigSymmetry
INVARIANTS TypeOK OnlyOverlapsLoseShares GroupsIncludeOwner
PROPERTIES ImplementsSnapshot
