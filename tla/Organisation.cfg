SPECIFICATION Spec
CONSTANTS
    owner = owner
    ann = ann
    ben = ben
    cat = cat
    r1 = r1
    r2 = r2
    User = {owner, ann, ben, cat}
    Owner = owner
    Newcomer = {cat}
    Request = {r1, r2}
    Venues = 2
    Legacies <- AnnManages
    Grown <- Lately
    Requested <- Forms
    Name = {"Leads"}
    Operation <- Everything
    MaxChanges = 2
INVARIANTS
    TypeOK
    RolesRoundTrip
PROPERTIES
    NobodyLosesAccess
    KeepsOwnWayIn
    SavesTouchWhatIsHeld
    VenueWalls
    ShutOutByTheirOwn
SYMMETRY Interchangeable
CHECK_DEADLOCK FALSE
