SPECIFICATION FactsSpec
CONSTANTS
    f1 = f1
    f2 = f2
    c1 = c1
    c2 = c2
    c3 = c3
    c4 = c4
    absent = absent
    nothing = nothing
    Kernels <- TwoFiles
    Contents <- FourContents
    ContentsOf <- CopiedContents
    Name <- ApartNames
    Absent = absent
    Nothing = nothing
    EditsDuring = FALSE
    Deadlines = FALSE
INVARIANTS
    FactsOfOwnFile
