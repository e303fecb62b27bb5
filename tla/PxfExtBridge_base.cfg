\* Readable and writable external tables, commits and aborts on every build;
\* the opens are symmetric.
CONSTANTS
    o1 = o1
    o2 = o2
    o3 = o3
    NULL = NULL
    Opens <- ThreeOpens
    MaxWrites = 2
SPECIFICATION Spec
SYMMETRY OpensSymmetry
INVARIANT TypeOK
INVARIANT NoOrphanRegistration
INVARIANT InterruptsRestored
PROPERTY RegistrarRefined
