\* An administrator and a member with two-factor sign-in.
SPECIFICATION FairSpec
CONSTANTS
    Users = {admin, member}
    Members = {member}
    TwoFactor = {member}
    None = None
    MaxRequests = 4
INVARIANTS
    TypeOK
    StoreMirrorsStorage
    RestsOnPage
    LandsAtHome
PROPERTIES
    ComesToRest
