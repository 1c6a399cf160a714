\* A 401 that is not about signing in.
SPECIFICATION FairSpec
CONSTANTS
    Users = {admin}
    Members = {}
    TwoFactor = {}
    None = None
    MaxRequests = 2
INVARIANTS
    UnauthorizedSignsOut
