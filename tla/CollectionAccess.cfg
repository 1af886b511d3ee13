\* Two requests of one user while operators edit every rule.
SPECIFICATION Spec
CONSTANTS
    open = open  ours = ours  A = A
    Proc = {p, q}
    User = {u}
    Email = {e}
    Community = {A, B}
    Collection = {open, ours}
    CommunityOf <- Communities
    Anonymous = Anonymous
    Listing = Listing
    Missing = Missing
    NoCommunity = NoCommunity
SYMMETRY EitherRequest
INVARIANTS
    AccessJustified EntitledGetsIn
PROPERTIES
    MembershipsEarned ListingHonest
