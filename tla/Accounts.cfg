\* Two concurrent sign-ins of two subjects, or of the stub, with two emails.
SPECIFICATION FairSpec
CONSTANTS
    Proc = {p, q}
    Email = {e, f}
    Provider = {clerk}
    Stub = stub_header
    Subject = {s, t}
    Legacy = {f}
    NoUser = NoUser
    NoProc = NoProc
    NoClaim = NoClaim
INVARIANTS
    TypeOK NoOrphans VerifiedMeansProved
PROPERTIES
    KeepsPromise EverySignInEnds
