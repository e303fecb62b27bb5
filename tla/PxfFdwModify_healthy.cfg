\* INSERT, COPY FROM and EXPLAIN statements on a healthy connection:
\* churl_write accepts all bytes or fails.
CONSTANTS
    u1 = u1
    u2 = u2
    u3 = u3
    NULL = NULL
    Opens <- ThreeUploads
    MaxRows = 4
    ShortWrites = FALSE
SYMMETRY UploadsSymmetry
SPECIFICATION Spec
INVARIANT StreamFaithful
INVARIANT UploadsReleased
