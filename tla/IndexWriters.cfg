\* Three calls that may disagree on the schema, and on the community too: some
\* adopt the collection for it, one at a time.
SPECIFICATION Spec
CONSTANTS
    Call = {p, q, r}
    c1 = c1  c2 = c2  f1 = f1  f2 = f2
    Chunk = {c1, c2}
    Pdf = {f1, f2}
    PdfOf <- PaperPerChunk
    Schema = {s1, s2}
    Community = {k}
    NoCommunity = NoCommunity
    Recreate = Recreate
    Name = Name
    Nobody = Nobody
SYMMETRY EitherCall
INVARIANTS
    TypeOK EveryChunkEmbedded OneSchema
PROPERTIES
    KeepsPromise
\* Once every call has ended there is nothing left to do.
CHECK_DEADLOCK FALSE
