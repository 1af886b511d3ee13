SPECIFICATION Spec
CONSTANTS
    p1 = p1
    i1 = i1
    File <- MCFile
    MaxVersion = 2
    Method = {"auto", "ocr"}
    Name = {i1}
    ImagesOf <- MCImagesOf
    ChunksOf <- MCChunksOf
    BatchSize = 2
INVARIANTS
    ExitTellsTruth
    StagedAndSent
    IndexedAsWritten
