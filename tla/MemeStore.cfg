SPECIFICATION Spec
CONSTANTS
    Worker = {w1, w2}
    Nobody = Nobody
    Id = {i1, i2}
    Ghost = Ghost
    Malformed = Malformed
    Content = {c1, c2}
    MaxRequests = 4
    MaxCrashes = 1
SYMMETRY Symmetric
INVARIANTS
    TypeOK
    AcknowledgedMemesStay
    DeletedMemesStayDeleted
    CaptionsAreTheLatest
PROPERTY ImplementsMemes
