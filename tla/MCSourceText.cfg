SPECIFICATION Spec
CONSTANTS
    b1 = b1
    b2 = b2
    f1 = f1
    f2 = f2
    a1 = a1
    a2 = a2
    a3 = a3
    Builders <- OneBuilder
    Files <- Files2
    Addrs <- Addrs3
    Nowhere = Nowhere
    NoText = NoText
    Expanding <- FirstFile
    MaxVer = 2
SYMMETRY Symmetric
INVARIANTS
    MaskExactToKey
    PlacesExact
    SourcePassesCurrent
