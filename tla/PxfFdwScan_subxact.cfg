CONSTANTS
    o1 = o1
    o2 = o2
    o3 = o3
    NULL = NULL
    Opens <- TwoOpens
    MaxDepth = 1
    CursorInSubxact = TRUE
    ReScanAllowed = FALSE
    Protocols = {"http", "https"}
SYMMETRY OpensSymmetry
SPECIFICATION Spec
INVARIANT ScanRefValid
