\* One job, delivered up to three times to two workers, while its PDF changes.
SPECIFICATION Spec
CONSTANTS
    j1 = j1  j2 = j2  p1 = p1  r1 = r1
    c1 = c1  c2 = c2  v1 = v1  v2 = v2  w1 = w1  w2 = w2
    NoJob = NoJob  NotApplied = NotApplied
    NoQuestions = NoQuestions  ParserRaised = ParserRaised
    Job = {j1}
    Malformed = {}
    MaxReceive = 3
    Worker = {w1, w2}
    Paper = {p1}
    Version = {v1, v2}
    RunId = {r1}
    Chunk = {c1, c2}
    PaperOf <- OnePaper
    RunOf <- OneRun
    ChunksOf <- FirstOrBoth
    MaxFaults = 3
SYMMETRY Symmetry
INVARIANTS
    TypeOK AppliedStaysSearchable NoDeliveryVanishes DeadLettersEarned
    ArtifactsIntact
PROPERTIES
    KeepsPromise
\* A queue that is settled and workers that are off have nothing to do.
CHECK_DEADLOCK FALSE
