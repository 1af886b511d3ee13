SPECIFICATION ParseSpec
CONSTANTS
    Labels <- MCLabels
    Source <- MCSource
    Blocks <- MCBlocks
    MinPages = 3
    MaxBlocks = 4
    MaxPages = 3
CHECK_DEADLOCK FALSE
INVARIANTS
    PartsAgree
    MediaFollowsItsPart
    FamiliesDistinct
