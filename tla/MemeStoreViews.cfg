SPECIFICATION Spec
CONSTANTS
    Worker = {w1, w2}
    Nobody = Nobody
    Id = {i1}
    Ghost = Ghost
    Malformed = Malformed
    Content = {c1}
    MaxRequests = 3
    MaxCrashes = 0
SYMMETRY Symmetric
INVARIANT ViewsCounted
