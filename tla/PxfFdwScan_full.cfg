\* Scans may start inside savepoints and be rescanned.
CONSTANTS
    o1 = o1
    o2 = o2
    o3 = o3
    NULL = NULL
    Opens <- ThreeOpens
    MaxDepth = 2
    CursorInSubxact = TRUE
    ReScanAllowed = TRUE
    Protocols = {"https"}
SYMMETRY OpensSymmetry
SPECIFICATION Spec
INVARIANT NoOrphanRegistration
 
