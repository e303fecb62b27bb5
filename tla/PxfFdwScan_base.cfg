\* Scans started at the top level of their transaction (savepoints may follow),
\* no rescans; the opens are symmetric.
CONSTANTS
    o1 = o1
    o2 = o2
    o3 = o3
    NULL = NULL
    Opens <- TwoOpens
    MaxDepth = 1
    CursorInSubxact = FALSE
    ReScanAllowed = FALSE
    Protocols = {"http", "https"}
SPECIFICATION Spec
SYMMETRY OpensSymmetry
INVARIANT TypeOK
INVARIANT NoOrphanRegistration
INVARIANT InterruptsRestored
INVARIANT CancelMatchesTransfer
PROPERTY RegistrarRefined
