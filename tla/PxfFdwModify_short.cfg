\* The same statements when churl_write may accept fewer bytes than asked.
CONSTANTS
    u1 = u1
    u2 = u2
    u3 = u3
    NULL = NULL
    Opens <- TwoUploads
    MaxRows = 3
    ShortWrites = TRUE
SYMMETRY UploadsSymmetry
SPECIFICATION Spec
INVARIANT StreamFaithful
