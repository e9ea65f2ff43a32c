\* Three distinguishable requests: one taken, one held, one waiting.
CONSTANTS
    Request = {r1, r2, r3}
    Response = {a1}
    None = None
SPECIFICATION Spec
INVARIANT TypeOK
PROPERTY HandoverLosesOnlyToFill
PROPERTY DispatchEnds
