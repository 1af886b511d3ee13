\* One request, every outcome of every service, with and without the grader.
SPECIFICATION FairSpec
CONSTANTS
    a = a  b = b  a_i = a_i
    Chunk = {a, b, a_i}
    Extends <- Prefixes
    MaxRepairs = 1
    Shown = 2
    NoChunk = NoChunk
    NoResponse = NoResponse
INVARIANTS
    AnswerGrounded AbstentionEarned GradedMeansJudged CallsBounded
PROPERTIES
    EveryRequestEnds KeepsPromise
\* A request that is over has nothing to do.
CHECK_DEADLOCK FALSE
