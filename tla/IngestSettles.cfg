\* A job and a malformed message, one worker, any number of stops and crashes.
SPECIFICATION FairSpec
CONSTANTS
    j1 = j1  j2 = j2  p1 = p1  r1 = r1
    c1 = c1  c2 = c2  v1 = v1  v2 = v2  w1 = w1  w2 = w2
    NoJob = NoJob  NotApplied = NotApplied
    NoQuestions = NoQuestions  ParserRaised = ParserRaised
    Job = {j1, j2}
    Malformed = {j2}
    MaxReceive = 3
    Worker = {w1}
    Paper = {p1}
    Version = {v1}
    RunId = {r1}
    Chunk = {c1, c2}
    PaperOf <- OnePaper
    RunOf <- OneRun
    ChunksOf <- OwnChunk
    MaxFaults = 3
PROPERTIES
    EverySentJobSettles FewFaultsMeansAcked SigtermStops
\* A queue that is settled and workers that are off have nothing to do.
CHECK_DEADLOCK FALSE
