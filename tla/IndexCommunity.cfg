\* Three calls of which two claim the collection for different communities.
SPECIFICATION Spec
CONSTANTS
    Call = {p, q, r}
    c1 = c1  c2 = c2  f1 = f1  f2 = f2
    Chunk = {c1, c2}
    Pdf = {f1, f2}
    PdfOf <- PaperPerChunk
    Schema = {s1}
    Community = {k1, k2}
    NoCommunity = NoCommunity
    Recreate = Recreate
    Name = Name
    Nobody = Nobody
PROPERTIES
    CommunityKept
\* Once every call has ended there is nothing left to do.
CHECK_DEADLOCK FALSE
