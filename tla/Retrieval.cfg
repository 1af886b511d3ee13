\* Limit 1 is over-fetched threefold, limit 3 up to the reranker's cap, and limit
\* 4 exceeds the cap.  A truncated chunk may take 8 to 10 of its 9 tokens.
SPECIFICATION Spec
CONSTANTS
    declared = declared
    structural = structural
    Chunk <- Chunks
    NoChunk = 0
    ParentOf <- Parents
    Paper <- Papers
    Field <- Fields
    Structural <- StructuralFields
    Has <- Matching
    NoFilter = NoFilter
    Near <- Similarities
    Limit <- Limits
    Cap = 3
    MaxScore = 2
    Length <- Lengths
    Marker = 33
    Budget = 9
    MaxSingle = 9
    MaxWrites = 3
INVARIANTS
    ResultsHonest ContextFaithful ParentFits
