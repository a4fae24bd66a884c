SPECIFICATION FairSpec
CONSTANTS
    Edges = {e1}
    NoEdge = NoEdge
    MaxRequests = 4
    MaxStream = 1
INVARIANTS ResumesOwn ShowsTheSession
PROPERTIES TurnsAreTaken
CHECK_DEADLOCK FALSE
